---------------------------- MODULE Registration ----------------------------
(***************************************************************************)
(* NewAvroEncoder and NewAvroUnionEncoder: runs of the tool registering    *)
(* their schemas with a registry other clients use too.                    *)
(*                                                                         *)
(* A plan lists the subjects in order, what each refers to, and the value  *)
(* schema's branches; a run of a single avsc has no subjects and no        *)
(* branches.  What a registry holds under a subject is a content: which    *)
(* type's definition it is, and the version each reference names.  The     *)
(* registry gives equal contents one ID, so a content is its own ID.       *)
(***************************************************************************)
EXTENDS NamedTypes, Integers, FiniteSets

CONSTANTS
  Runs,          \* invocations of the tool, concurrent or one after another
  Value, Key,    \* the subjects <topic>-value and <topic>-key
  Plans,         \* the plans considered; the runs of a behaviour share one
  ForeignBound,  \* bound on the versions other clients add
  DeleteBound    \* bound on the versions other clients delete

(* A named type that is registered has a subject of its own.               *)
Subjects == Names \cup {Value, Key}

Plan == [subjects : Seq(Names), refs : [Names -> Seq(Names)],
         branches : Seq(Names), keyed : BOOLEAN]

ASSUME NamesAssumption == Value \notin Names /\ Key \notin Names /\ Value # Key
ASSUME ForeignAssumption == \A k \in 1..ForeignBound : <<"foreign", k>> \notin Subjects
ASSUME PlansAssumption == Plans \subseteq Plan
ASSUME BoundsAssumption == ForeignBound \in Nat /\ DeleteBound \in Nat

VARIABLES
  plan,      \* fixed while it is registered
  registry,  \* per subject, its versions in order: [content, live]
  run,       \* per run: where it is and what it knows
  foreign,   \* how many versions other clients have added
  deleted,   \* how many versions have been deleted
  completed  \* history: some run has registered everything

vars == <<plan, registry, run, foreign, deleted, completed>>

(* The schemas of a plan in the order they register.                       *)
SequenceValueFirst(p) ==
  <<Value>> \o p.subjects \o (IF p.keyed THEN <<Key>> ELSE <<>>)

Sequence(p) == p.subjects \o <<Value>> \o (IF p.keyed THEN <<Key>> ELSE <<>>)

ReferencesOf(p, s) ==
  IF s = Value THEN p.branches ELSE IF s = Key THEN <<>> ELSE p.refs[s]

(* The content a run registers under s, given the versions it has noted.   *)
Content(p, s, versions) ==
  [of |-> s, refs |-> [n \in RangeOf(ReferencesOf(p, s)) |-> versions[n]]]

ForeignContent(k) == [of |-> <<"foreign", k>>, refs |-> <<>>]

Live(s) == {v \in DOMAIN registry[s] : registry[s][v].live}

HeldAt(s, content) == {v \in Live(s) : registry[s][v].content = content}

Resolves(content) ==
  \A n \in DOMAIN content.refs : content.refs[n] \in Live(n)

NewRun == [at |-> 1, step |-> "create", listed |-> {},
           versions |-> [n \in Names |-> 0], id |-> <<>>]

Init ==
  /\ plan \in Plans
  /\ registry = [s \in Subjects |-> <<>>]
  /\ run = [r \in Runs |-> NewRun]
  /\ foreign = 0
  /\ deleted = 0
  /\ completed = FALSE

-----------------------------------------------------------------------------
Current(r) == Sequence(plan)[run[r].at]

Working(r, step) == run[r].step = step /\ run[r].at <= Len(Sequence(plan))

(* The next schema, or the end: all registered.                            *)
Advance(r, state) ==
  LET done == run[r].at = Len(Sequence(plan))
  IN /\ run' = [run EXCEPT ![r] =
                  [state EXCEPT !.at = @ + 1,
                                !.step = IF done THEN "done" ELSE "create"]]
     /\ completed' = (completed \/ done)

(* CreateSchema.  The registry answers the ID of a content it holds under  *)
(* the subject, and else adds it as a new version if its references exist. *)
Create(r) ==
  LET s == Current(r)
      content == Content(plan, s, run[r].versions)
  IN /\ Working(r, "create")
     /\ Resolves(content)
     /\ registry' = IF HeldAt(s, content) # {} THEN registry
                    ELSE [registry EXCEPT ![s] =
                            Append(@, [content |-> content, live |-> TRUE])]
     /\ IF s \in Names
        THEN /\ run' = [run EXCEPT ![r].step = "list", ![r].id = content]
             /\ UNCHANGED completed
        ELSE Advance(r, run[r])
     /\ UNCHANGED <<plan, foreign, deleted>>

(* versionOf: the subject's versions are listed...                         *)
List(r) ==
  /\ Working(r, "list")
  /\ run' = [run EXCEPT ![r].step = "scan", ![r].listed = Live(Current(r))]
  /\ UNCHANGED <<plan, registry, foreign, deleted, completed>>

Newest(r) == CHOOSE v \in run[r].listed : \A w \in run[r].listed : w <= v

(* ...and asked for their IDs one by one, newest first, until one is the   *)
(* ID that registration answered.                                          *)
ScanNewest(r) ==
  LET s == Current(r) IN
  /\ Working(r, "scan")
  /\ run[r].listed # {}
  /\ Newest(r) \in Live(s)
  /\ Advance(r, [run[r] EXCEPT !.versions[s] = Newest(r), !.listed = {}])
  /\ UNCHANGED <<plan, registry, foreign, deleted>>

Scan(r) ==
  LET s == Current(r) IN
  /\ Working(r, "scan")
  /\ run[r].listed # {}
  /\ Newest(r) \in Live(s)
  /\ IF registry[s][Newest(r)].content = run[r].id
     THEN Advance(r, [run[r] EXCEPT !.versions[s] = Newest(r), !.listed = {}])
     ELSE /\ run' = [run EXCEPT ![r].listed = @ \ {Newest(r)}]
          /\ UNCHANGED completed
  /\ UNCHANGED <<plan, registry, foreign, deleted>>

Failed(r) == run' = [run EXCEPT ![r] = [NewRun EXCEPT !.step = "failed"]]

(* The registry knows no such reference, or no such version any more, or   *)
(* the list is exhausted.                                                  *)
Refused(r) ==
  \/ Working(r, "create") /\ ~Resolves(Content(plan, Current(r), run[r].versions))
  \/ Working(r, "scan") /\ run[r].listed = {}
  \/ Working(r, "scan") /\ run[r].listed # {} /\ Newest(r) \notin Live(Current(r))

Stop(r) ==
  /\ Refused(r)
  /\ Failed(r)
  /\ UNCHANGED <<plan, registry, foreign, deleted, completed>>

(* Any call may fail: the registry is unreachable, finds the schema        *)
(* incompatible, or the run is interrupted.  What is registered stays.     *)
Break(r) ==
  /\ run[r].step \in {"create", "list", "scan"}
  /\ Failed(r)
  /\ UNCHANGED <<plan, registry, foreign, deleted, completed>>

(* The tool is run again.                                                  *)
Rerun(r) ==
  /\ run[r].step \in {"failed", "done"}
  /\ run' = [run EXCEPT ![r] = NewRun]
  /\ UNCHANGED <<plan, registry, foreign, deleted, completed>>

-----------------------------------------------------------------------------
(* Somebody else registers a schema of their own under the subject.        *)
Evolve(s) ==
  /\ foreign < ForeignBound
  /\ foreign' = foreign + 1
  /\ registry' = [registry EXCEPT ![s] =
                    Append(@, [content |-> ForeignContent(foreign'), live |-> TRUE])]
  /\ UNCHANGED <<plan, run, deleted, completed>>

Referenced(s, v) ==
  \E t \in Subjects : \E w \in Live(t) :
    LET refs == registry[t][w].content.refs
    IN s \in DOMAIN refs /\ refs[s] = v

(* Somebody deletes a version; the registry refuses to delete one that a   *)
(* live schema refers to.                                                  *)
Delete(s, v) ==
  /\ deleted < DeleteBound
  /\ ~Referenced(s, v)
  /\ deleted' = deleted + 1
  /\ registry' = [registry EXCEPT ![s][v].live = FALSE]
  /\ UNCHANGED <<plan, run, foreign, completed>>

-----------------------------------------------------------------------------
RunStep(r) == Create(r) \/ List(r) \/ Scan(r) \/ Stop(r) \/ Break(r) \/ Rerun(r)

OtherStep ==
  \/ \E s \in Subjects : Evolve(s)
  \/ \E s \in Subjects : \E v \in Live(s) : Delete(s, v)

Next == (\E r \in Runs : RunStep(r)) \/ OtherStep

Spec == Init /\ [][Next]_vars

-----------------------------------------------------------------------------
(* Whatever other clients register or delete in between, every schema a    *)
(* run has registered refers to versions that exist and hold this tool's   *)
(* own definition of the type, with the references that one needs: a       *)
(* consumer who follows the framed ID finds what the records were encoded  *)
(* against.                                                                *)
ReferencesSound ==
  \A s \in Subjects : \A v \in Live(s) :
    LET content == registry[s][v].content IN
    content.of = s =>
      \A n \in RangeOf(ReferencesOf(plan, s)) :
        /\ content.refs[n] \in Live(n)
        /\ registry[n][content.refs[n]].content.of = n

(* A run is never turned away for a reference it has not registered yet,   *)
(* or a version it cannot find: only a deletion in between does that.      *)
RefusedOnlyAfterDelete == deleted = 0 => \A r \in Runs : ~Refused(r)

(* Registering again is idempotent: once a run has completed, no later or  *)
(* concurrent run of the same plan adds a version, however many versions   *)
(* other clients have added since.                                         *)
RerunAddsNothing ==
  [][completed /\ deleted' = 0 /\ foreign' = foreign
       => registry' = registry]_vars
=============================================================================
