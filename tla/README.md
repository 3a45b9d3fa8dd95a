# kafka-testdata-generator in TLA+

TLA+ models, TLC runs and TLAPS proofs of the tool that reads an AsyncAPI
document, generates records that fit the schemas of a topic's Message types,
and produces them to Kafka or prints them.  `PROJECT.json` ties every
definition to the lines it models and every property to the run that checks it.

    tlc -workers 2 -config pipeline.cfg MCPipeline     # a run
    tlapm ProcessEdge_proofs.tla                       # the proofs of a module

## 1. The system

One invocation plans a run from flags and a document, sets up a sink and an
encoder, and loops: generate a message, encode it, send it, account for it,
pause.  A signal goroutine beside it cancels the context all calls are given.

| Component | State it keeps | Operations | Interacts with |
|---|---|---|---|
| Process edge (`main.go`) | the `interrupted` flag, `sigCh`, ctx, deferred calls, exit code | `run`, the signal goroutine, `failureCode` | everything below |
| Run planning (`runplan`) | none after `Plan` | flag rules, `NewSink`, `NewEncoder` | both wire formats, both sinks |
| Record loop (`pipeline`) | `total`, `acked`, `failed`, ctx | `Run` | generator, encoder and sink through three seams |
| Sinks, producer | the franz-go client | `Send`, `Ping`, `Close` | broker or stdout |
| Key reuse (`keyplan`) | a ring of Keys, the oldest slot | `pool.Value` | wraps the Key generator of `Mix` |
| Avro union planning (`union.go`) | a composer's definitions, order and visiting set | `planUnion` | plans what registration registers |
| Schema registration (`avro_encoder.go`) | IDs and versions noted so far | `NewAvroEncoder`, `NewAvroUnionEncoder`, `versionOf` | a registry other clients use too |
| Mix (`wire`) | the bound Message types, their Planting sets | `Plant`, `Generate`, `SharedKeyBinding` | generators, Planting, Key reuse |
| Planting (`planting`) | sets of located Plantings | `New`, `Set.Plant`, `ParsePath`, `Overlap` | a `Walk` of either schema language |
| JSON Schema generation (`generator`) | the recursion depth of a `Value` | `Value`, `Walk.Locate`, `HoldsKey`, `mergeSchemas` | Synthesizer |
| Avro generation (`avro`) | the depth of a `Value` | `Value`, `Walk.Locate`, `Holds`, parsing, rendering | Synthesizer |
| Avro and JSON wire formats | none | `Build`, display encoders, flag checks | Run planning |
| AsyncAPI documents (`asyncapi`) | a collector's Message types and `$ref`s read, a resolver's open references and local definitions | load, resolve `$ref`s, merge traits, bind a topic | supplies every schema |
| Synthesizer (`synth`) | one seeded stream | numbers, texts, patterns | all generators |
| Ordered JSON, logging | none | formatting | everything |

What is hard here: the signal goroutine against the run and its setup; a Send
that fails because ctx is done, or just before it is; records that reach the
broker without the run hearing of it; two or more invocations and foreign
clients at one registry, each registration being several calls; and, in the
sequential part, pairs of readings of one schema that must agree: what
`Walk.Locate` accepts with what `Value` generates, what `HoldsKey` proves with
what the Key generator draws, what `order` schedules with what `renderer`
refers to, what `New` checks with what `Plant` writes, what a resolved schema
means with what the document's cyclic one does, which option a format's rules
refuse with what its plan then uses, what generation writes of a logical type or
a union branch with what two readers make of it, what a pattern's parser read
with what the pattern means.

What makes the components correct: an exit code and Stats that tell the truth
however a run ends; no record attempted after a failure that must end the run;
no record sent hot past the rate limit; Keys that recur only within the window
of recent Entities; subjects registered after what they refer to, with
references to the tool's own versions; every Planting in every record; nothing
the user or the document says ignored in silence; every message encoded with the
schema it was generated of; strings that match their pattern; and Message types
that say what the document says, each once.

## 2. Modules and how they correspond to the code

A module `M` that runs has an `MCM` that gives TLC its constants, and where there
are proofs an `M_proofs` (Pipeline's are in ProcessEdge_proofs, KeyReuse's in
PlannedRun_proofs, Registration's in UnionRegistration_proofs).  Definitions named like an action with a suffix
(`JudgeSendErrorTwice`, `WalkRefFree`) are mutants: the same step with a
plausible bug, which the property named in `PROJECT.json` must catch.

**Pipeline** is `Pipeline.Run`.  `pc` is the place in the loop body, one action
per statement that can be interleaved: `Check` reads ctx and the count, `Generate`,
`Encode`, `SendStart`/`SendSucceeds`/`SendFails`/`SendAborted`, `JudgeSendError`
(which reads ctx *after* the error), `Account`, `Pace`.  `Cancel` may happen
between any two of them.  The destination may take a record whenever it has
been issued, also after its Send was given up.  Records are numbers.

**ProcessEdge** extends Pipeline with `run`: `Dial`, `Ping`, `BuildEncoder`,
the loop, `Report`, `Judge`, the deferred `CloseSink` and `DeferredCancel`, and
the signal goroutine's `Select` and its three statements in order (`Shutdown`).
**RunOutcome** is what an invocation promises whoever reads its exit code;
`KeepsOutcome` states that ProcessEdge implements it, with the count and
`-continue-on-error` mapped from `config`.

**RunPlan** is `runplan.Plan` with both Wire formats' `Build`, as sequences of rules:
each names the option at fault, says whether the invocation breaks it, whether it
is about the flags themselves (`Error.Usage`) and which avscs must be read to tell.
`RunRules` are Plan's own, up to `wireFormat`; `JSONRules` or `AvroFlagRules` and
`AvroFileRules` follow.  `PlanOf` is what an invocation that breaks none gets:
bound Message types, key schema, Encoder, sink and diagnostics.  An invocation
is its flags and what the document says of the topic.

**PlannedRun** judges one rule after the other (`Judge`), builds the plan (`Build`) and
generates and encodes messages with it.  It extends RunPlan and **KeyReuse**, the
ring of `reuse.go`, which hands out the Keys where the plan has a pool.
**EntityWindow** is what `-records-per-key` promises, a sliding window of the most
recent Entities; `KeepsWindow` states the refinement, with `entity <- key`.

**UnionPlan** is `planUnion` step by step.  Its recursions keep their stack in the
state: `path` is that of `visit` in `order`, with a list of dependencies left at each
level (`rest`), and `todo` what `dependencies` or a renderer has still to follow of one
type.  `Compose` takes in one Message type; `Enter`, `Look`, `Looked` and `Leave` are
a visit, `CloseCycle` the refusal of a type met while visiting; `Ref` and `Rendered`
write a subject.  What a schema needs (`Needs`) is reachability as a least fixed point
(**NamedTypes**), which none of the traversals computes that way.  **Registration** is the two Avro encoder constructors
against a registry: create, list the versions, ask for their IDs newest first.
The registry is modelled from how the code uses it: equal contents of a subject
have one ID, references must exist when a schema is created, and a referenced
version cannot be deleted.  **UnionRegistration** composes the two: `DrawUp` plans
the union of a composition by UnionPlan's steps, `Open` hands the plan, or a lone
avsc, to an Encoder, and `Register` is the runs registering it; a
refusal ends the run before any connection.

**JSONSchema** has the vocabulary of schema nodes (a function from keyword to
value).  **KeywordMerge** is one level of `merge.go`, keyword by keyword, and what the
keywords ask of a value, with the merge of two properties' schemas as a parameter;
**AllOfMerge** ties the recursion and folds the branches.  **Guarantee** puts the
two readings of a schema side by side: first `Walk.Locate` takes `path` node by
node (`WalkRef`, `WalkLiteral`, `WalkAllOf`, `WalkAlternatives`, `WalkStep`,
`WalkAccepts`, in the order of `resolveGuaranteed`), then records are generated
again and again, each along the located path with every random choice open
(`GenRef`, `GenLiteral`, `GenAllOf`, `GenAlternative`, `GenProperty`, `GenItem`).
`pos` is the node read, the depth of `$ref`s and the steps taken.

**KeyFit** is the proof `field.HoldsKey` makes of a field's and a Key's schema,
and the Keys `Value` may then draw.  A value is its type, its size and the other
constraints it satisfies; a random text satisfies any or none of them.  Numbers and
bounds lie on a grid finer than the integers, so that a bound may have a fraction,
which `TowardZero` drops for an integer as `int64(v)` does.

**AvroModel** has the types of an avsc and the value convention of `convention.go`:
which logical types Parse keeps, ignores or refuses (`LogicalOf`), the Go value
each stands for (`ValueOf`), the name a union value carries (`UnionBranchName`) next
to the codec's own (`CodecBranchName`, external), and what a located type holds
(`Holds`, `HoldsKey`).  **AvroGeneration** is the walk and the generation: `Locate`
through records only, and a descent in which the depth counts every type, with the
escapes (`Escape`) at the end of the budget.  `readAs` follows the same descent as
the two readers of the value take it, RenderJSON and the codec; a Key planted at
the end of the path is generated of the key avsc and read by the value avsc
(`NextKey`).

**Pattern** is `synth/pattern.go`, parser and generator, over characters.  Beside it
stand expressions with a meaning of their own (`Ends`, `Matches`) and a way to be
written (`Source`): an expression is written down, parsed, synthesized from, and the
result matched against the expression.

**Planting** is `planting.New`, checking Topic parameters and the Key path against
each Message type in the code's loop order, then `Mix.Generate` and `Set.Plant`
writing them.  A `Walk` is the interface the code has: which place a path leads
to, whether it is always there, what it holds; Guarantee and AvroGeneration model
the two that exist.  A value is the set of its places and what stands at each.

**AsyncAPI** is `Document.Topic` in both front ends: entries are bound to the
topic (`BindTopic`), each entry's messages are read one by one (`ReadMessage`,
`collector.once` deciding which), then its parameters (`ReadParameters`), and the
formats are compared (`Finish`).  What it calls are modules of operators:

- **SpecDocument**: nodes, `$ref`s and the chains `Document.object` follows.  A
  `$ref` is named by what it names; pointer syntax is left out.
- **SchemaResolver**: `Document.schema`.  `Expand` is `resolver.node`, with the
  stack of open references a set; `Localise` is `resolver.local`; `Define` is
  `resolver.define`, which claims a name before it fills it.  Kept `$ref`s are
  collected from the copy (`KeptIn`) rather than on the way; the definitions do
  not depend on the order.  `Meaning` is the abstract specification: the tree a
  reader of a schema sees, for the document's schema and the resolved one alike.
- **AvscExpander**: `Document.avsc`, its names threaded through the expansion.
  `Read` and `Shape` are Avro's own rules for names and what a schema describes.
- **Traits**: `traits.go`, through references, in both directions; checked against
  JSON Merge Patch on plain trees (`Patched`, `Supplied`).
- **TopicBinding**: `topic.go` and the value checks of `v2.go` and `v3.go`.
  `Fill` is the search with its cut at two ways.
- **MessageTypes**: `Document.messageType`, `headers`, `payload3`, the formats.

## 3. What the runs check

| Run | States | Question |
|---|---|---|
| `pipeline` | 35,884 | the loop in every interleaving with sink, destination and cancellation |
| `edge` | 48,873 | a whole invocation with a signal at any point |
| `run_plan` | 256,088 (about 30 s) | every combination of flags with the specs they meet, and the run planned |
| `union_registration` | 557,716 (about 80 s) | all compositions over four types, planned and registered |
| `guarantee` | 25,295 (about 90 s) | accepted paths are in every record; allOf merges; readings end |
| `key_fit` | 1,530,612 | accepted Key schemas draw only fitting Keys |
| `avro_generation` | 16,053 | accepted Avro paths; values read as generated; descents end |
| `planting` | 18,758 | accepted Plantings stand; refusals name the culprit |
| `asyncapi` | 59,240 (about 50 s) | what is read of a topic is what its document says |
| `pattern` | 54,979 | what is synthesized matches its pattern |
| `key_fit_bounds`, `avro_escape` | | the two disagreements of section 4 |

*pipeline.*  `StatsBalance`, `AckedDelivered` and `OneUncounted` say what the Stats
are worth: they balance, every acked record is at the destination, and at most
the last record of a cancelled run is there uncounted.  `CountHonoured` and
`StopsAtFailure` bound what is attempted.  `FiniteReturns` is liveness, with a
broker that answers.

*edge.*  `CutShortExits130`: work cut by the interrupt exits 130, which depends on the
order of the signal goroutine's statements.  `SuccessIsComplete`: exit 0 means all
of Count is acked and at the destination.  `KeepsOutcome`: the refinement.
`InterruptExits`: a signal ends the process even if neither broker nor registry
ever answers.

*run_plan.*  `FlagsBeforeFiles`: a run refused after it has opened an avsc has no flag
wrong (`wire.go:24`).  `NothingIgnored`: take away any one thing the flags or the
document say, and another run is planned, or none, or a diagnostic has named it;
so nothing is ignored in silence.  `EncodesAsGenerated`: a Payload is encoded with
the avsc it was generated of and no other, and a Key exists in AVRO exactly if
there is a key avsc.  `KeepsWindow`: the Keys recur within the window.

*union_registration.*  Of each plan: `OrderedByNeed`, `CycleRefusedExactly` (refused if
and only if some registered types need each other) and `ReferencesExact` (two
traversals agree).  Of its registration: `ReferencesSound`: whatever others do, a
registered schema refers to live versions of the tool's own definitions.
`RefusedOnlyAfterDelete`: without a deletion no run is turned away.
`RerunAddsNothing`: registration is idempotent.

*guarantee, avro_generation.*  `AcceptedAlwaysThere` is the promise of `Locate`.
`MergeIsMeet`: the merge of an allOf admits, of 27 values, exactly those
every branch admits, and branches that are refused have none in common, every
integer being a number.
`ReadAsGenerated`: RenderJSON and the codec resolve every union branch and logical
type as the one generated.  `KeyReadAsGenerated`: the value avsc reads a planted Key
as the key avsc wrote it, down to its last field.  `ReadingsEnd`, `DescentEnds`:
cyclic schemas do not run away.

*key_fit.*  `ProofIsSound` is the promise of `HoldsKey`; `NumbersHonoured` that drawn
integers and numbers honour one bound on each side where it leaves room (`Roomy`).
An integer's inclusive bound is further asked to be whole or on the side of 0 where
`int64(v)` moves it inwards; exclusive bounds may have any fraction.

*planting.*  `EveryPlantingStands`: none is wiped out by a later one.  `NeverMisses`:
the "defect" error of `planting.go:213` is unreachable.  `RefusedRightly`: a run
is refused exactly when a Planting cannot be honoured, naming the right option.

*asyncapi.*  `MeaningKept`: a resolved schema means what the document's does, to a
depth of seven levels, and an expanded avsc is one Avro reads so.  `CyclesOnly`:
diamonds are expanded and cycles kept, with every target defined and no other.
`TraitsMerged`: merging through references is merging what they name, with the
right side winning.  `FilledOneWay`: the entries bound are those with a filling,
and there is only one filling.  `ParametersMerged`: every place any entry names,
once.  `MessagesOnce`: every message the bound entries declare, once.

*pattern.*  `SynthesizedMatches`: what is written matches the pattern.  `TableKept`: what
the documented table supports is never refused, and what it rules out always is.
Both leave out what the parser misreads (section 4), each of which is among the
patterns tried.

Type invariants are proved where there are proofs (section 5).  So are further
invariants no run checks: the spacing of attempts, what a cancellation lets
through, the order of setup, the notice before the cut, the closing of the sink,
and the exact content of the Key ring.

### Bounds

- `Counts` {0, 1, 3} with at most 4 records (`edge`: {0, 1, 2} and 2): no limit,
  one record, several, so that a failure, a success and a cut all precede one
  another.  `RecordBound` caps `Generate` only; a run without a limit keeps its
  other behaviours.
- `run_plan`: every flag that a rule or the plan reads, present or absent; three
  value avscs, of which one is broken and two define the same record, three key
  avscs, one broken and one of type null; fifteen topics, with one and two
  Message types.  The slips Plan finds before it knows the Wire format come one
  at a time.  A ring of two Entities and five created (`EntityBound`): it wraps
  twice.
- Four named types, two or three Message types, up to two references each: room
  for an inline type, a shared one and an indirect cycle at once.
- Two symmetric runs of the tool, one foreign version, one deletion, for three
  compositions (`Attended`): two records that share a type that needs another,
  two that share one held inline by another, and a lone avsc.  Every other
  composition is registered by one run that nothing disturbs.  `ForeignBound` and
  `DeleteBound` cap the other clients, never the tool.
- `MaxRepeat` 3 instead of 6 and an alphabet of five: `*` and `+` repeat more often
  than any `{n,m}` tried.  Numbers in braces have one digit.
- `key_fit`: bounds of -1.5, -0.5, 0.5 and 1 on a grid of halves, where 0.5 also stands
  for the 0.01 a number keeps from an exclusive bound, and 3 for the default of 1000.
  Every way a bound can lie to 0, to a whole number and to the others is there.
- `MergeIsMeet`: bounds 0 to 3 on the numbers 0 to 4, counted in halves, arrays of up to two items, objects
  two levels deep, two and three branches.
- `$ref` budget 2 instead of 8, Avro depth 4 instead of 32 (32 in `avro_escape`):
  the cyclic schemas used are shorter than the budget, so they are read both
  within it and at its end.  Paths have up to two steps.
- Bounds in {-1, 1} and a default range 0..3: bounds below, above and inside the
  generator's defaults, crossed and not.
- Up to two Topic parameters, two Message types and a Key path for Planting: any
  clash is between two Plantings.
- `MaxRefChain` 3 instead of 32 and `MaxMergeDepth` 4 instead of 64, both reached.
  `asyncapi` reads five families of documents, each varying one part with the
  rest fixed: two entries with templates and parameters (`Bound`), messages and
  the ways they are declared (`Told`), a schema over up to three components
  (`Resolved`), an avsc over two (`Expanded`), a message with two traits
  (`Merged`).  Cycles are at most three references long, of up to two levels
  each, so seven levels of meaning go round each of them.

Deadlock is checked for `pipeline` and `edge`.  The other runs may stop: when an
invocation, a path or a pattern is refused, a record fails, a registration is done
and nobody else comes, or all that is judged is judged.

### Fairness

`pipeline` and `edge` are run under weak fairness of the loop, the main goroutine
and the signal goroutine (the Go scheduler runs runnable goroutines), of calls
given ctx once ctx is done (ProduceSync, Ping and the registry client return
then), and of writes to stdout.  The broker and the registry need never answer
in `edge`; `FiniteReturns` adds an answering broker (`AnsweredSpec`) and would be
false without.  A walk and a generation are plain calls that wait for nothing:
weak fairness of their steps.  Nothing is strongly fair; users, signals and
other clients have no fairness.

## 4. Where the code and its documents disagree

- `key_fit_bounds`: ADR-0006 has every understood constraint honoured or refused, but
  `{type: integer, minimum: 0.5}` generates 0, as `int64(v)` drops the fraction of a
  bound (`generator.go:400`; likewise `{minimum: -5, maximum: -0.5}`).  Two more ways
  out of bounds: where they leave no room next to the default ones (`{maximum: -1}` and
  `{exclusiveMaximum: -0.5}` generate 0), and where an exclusive bound hides a
  stricter inclusive one.
- `avro_escape`: the depth budget of an Avro list may run out in the record
  rather than in its nullable union (`generate.go:84`); the run then fails,
  which a comment in `generate_test.go:306` rules out.

Other observations have no run of their own.  A Key schema whose `example` or
`const` is null beside other examples is judged by the others and generates the
null (`keyholds.go:95`): `key_fit` and its theorem leave such schemas out.  A
`$ref` in a literal is expanded (`order.go:108`) but within a cyclic definition
left a `$ref` (`document.go:481`), which a generator returns as it stands: the
documents of `asyncapi` have none there.  An Avro type without a namespace, named
again inside a record that has one, is read as another type (`avsc.go:121`): its
documents give every root a namespace.  A message component that is a `$ref` to
another one counts as a second Message type.  `NewSink` leaves its client
open when the ping fails, right before the process exits (ProcessEdge has the
path).  A Payload that is a `$ref` to `oneOf [string, itself]` can run out of
depth at its root, where nothing swallows `errAbsent` (Guarantee has the
outcome `absent`), though `generator.go:36` rules it out.  `string` does not read `minLength` and `maxLength` (KeyFit
draws any length).

A pattern with a lazy or doubled quantifier (`a*?`, `a++`), `(?:`, an escape inside
brackets (`[\d]`, `[\D]`) or an anchor in the middle is read as something else, where
`pattern.go:26` promises an error rather than a string that does not conform; a
literal outside ASCII is read byte by byte.  The table at `README.md:456` lists none
of these either way, so `pattern` tries them and sets them apart (`misread`).  The
merge of an allOf has no rule for `minItems`, `minLength`, `enum`, `items` and others:
the later branch overrides the earlier, though `merge.go:15` says "rather than a
silently-overridden constraint" (`OverridesHere`), and `integer` with `number` is refused as a clash though every
integer is both (`IntegersLost`); `MergeIsMeet` sets the two apart (`SetApart`).  `holdsKey` compares named types by full name alone:
a key avsc that defines a record of the value avsc's name otherwise is accepted,
and every record fails (`SameNames` sets these apart).  A key avsc of type null is
planned, and every record then fails as a "programming error".

## 5. What is proved

The theorems hold for every value of the constants, from the named assumptions
alone (`CountsAssumption`, `MaxAssumption`, `BudgetAssumption` and so on, which say
that bounds are numbers and paths are sequences of steps).

**ProcessEdge_proofs.**  Of the record loop alone, all safety properties of
`pipeline`.  None is inductive: the
invariant `LoopInv` adds what each place of the loop knows.  `ControlInv` ties
cause, ending and ctx to `pc`; `RecordInv` orders the numbers of issued,
delivered and confirmed records around `total`, which is what makes taking
`total` down again in mid-send safe; `CountInv`, `StopInv`, `PaceInv` and `LateInv`
carry one promise each.  `ConfirmedInv` (acked is the cardinality of the confirmed
set) is inductive relative to `LoopInv`.

Of the process, first `LoopInside`: every step of the process is a step or
stutter of Pipeline, so `LoopInv` holds inside.  On top, `EdgeInv`: `SetupInv` (who
holds the sink has reached the broker), `PhaseInv` (the loop runs in one phase),
`ClientInv`, `SignalInv` (ctx done before the deferred cancel means flag stored and
notice out) and `CodeInv`.  `SuccessCorrect` needs a counting argument: a set of
`count` numbers within `1..count` is all of it.  `OutcomeCorrect` is the refinement
of RunOutcome, step by step.

**PlannedRun_proofs.**  Of the ring, `RingInv` gives each slot's Entity in closed form
from the oldest slot and the number created; from it the window is exact and
distinct (`WindowCorrect`), and `Implements` is the refinement of EntityWindow.  Of a
whole run, `RunInv` joins three parts: `PlanInv` (the rules before the one judged
next are kept, only they have read, and a run that goes on keeps them all),
`MessageInv` (the message in hand is one the plan binds, encoded as its Encoder
does) and `RunRingInv` (`RingInv`, and an empty ring until the plan is built, which
is when its size may change).  With it `RunKeepsWindow` is the refinement of
EntityWindow by the run.  The properties then are facts about rules:

- `FlagsFirst`: no rule about flags stands after one that reads (`UsageComesFirst`),
  by place, since the rules are the concatenation of two sequences of fixed length.
- `EncodesCorrect`: in a union the branch named like a record is unique because
  the plan was refused otherwise (`OwnBranch`).
- `NothingSilent`: one lemma for each thing an invocation can say (`KeyPathHeeded`,
  `RegistryHeeded` and so on).  Each compares the plan with the one without it; where the
  two would be equal, a rule that is kept rules the case out, or a diagnostic
  speaks.  No bound on Message types, avscs or flags' values remains.

The assumptions are what an invocation is (`InvocationsAssumption`) and that without
a Key schema a Key is null (`KeyValuesAssumption`).

**UnionPlan_proofs.**  `planUnion`, for any number of Message types and any references
between their types.  `PlanInv` is about a recursion in the middle of its work.
`StackInv`: each type on the path is needed by the one below it, and what a type needs
is done, left to visit, or the one above it.  `DoneInv`: a type that is done stands after
all it needs.  `TraversalInv`: what a traversal has met is reached from where it began, and
what it has met leads only to what it has met or has still to do, so at its end it has
met exactly what is reached (`TraversalEnds`).  The traversal for the order and the one for
the rendering skip different types and in a different order; both end at `Needs`.
`OrderCorrect` needs besides that nothing shared is left out (`NoneLeftOut`): what the
subjects done reach is closed under references, so it has all that the Message types
define.  `CycleCorrect` is two arguments: a type met on the path closes a set of types that
need one another, and a plan has none because the first of such a set in the order would
need an earlier one (`LeastExists`).  A cycle is stated as a nonempty set of registered
types each of which needs one of the set.

**UnionRegistration_proofs.**  First the registration of any plan, in order or not, by any
number of runs among any other clients.  `DrawnSpec`
is Registration's own specification or one whose plan may be drawn up later
(`DrawPlan`).  `RegInv` says of the registry that an
own definition names versions that are own definitions (`OwnReferOwn`), also of
deleted ones, that what is live resolves (`LiveResolve`), and that without a
deletion a subject has one own definition (`OwnOnce`); of each run that it has
noted own definitions and left nothing behind it unregistered, and that the
version it looks for is among those it has listed (`Seeking`).
`ReferencesCorrect` and `IdempotentCorrect` need no more.  That no run is turned away needs a
plan that lists a subject after those it refers to (`InOrder`).

Then the whole: `UnionInv` joins `RegInv` and `PlanInv` by what is between them, that the plan
held is the one drawn up (`PlanIsDrawn`) and that nothing is registered before it is handed
over (`HandOver`).  A whole run is a run of `planUnion` (`PlansAsPlanned`) and one of the
Encoder (`RegistersAsDrawn`), so what is proved of each holds of it; and since what
`planUnion` draws up is in order, `TurnedAwayCorrect` has no hypothesis on the plan.
`ForeignAssumption`: another client's definition is not one of the tool's;
`CompositionAssumption` says what a composition is, with at least one Message type.

**Planting_proofs.**  `PlantInv` for every walk, and any number of parameters and
Message types.  `CheckInv` is about New: each list of Plantings is exactly what its nested
loops have been through (`ListsExact`), and no two of a list, nor one and the
Key's path, overlap (`ListsApart`), while `LoopsInv` and `KeysInv` say where the loops
are.  `RecordInv` is about Plant: each Planting's place is there until it is written, and
what need not be written any more stands; what keeps it so is `ListsApart`.  From
it `MissesNothing`, `PlantingsStand` and `RefusalsRight`.  `RunsAssumption` says that a walk
answers with paths, that a run has a Message type and that no parameter is named twice.

**Guarantee_proofs.**  `AcceptedIsThere`: for every document, path, budget and merge
function, a place `Locate` accepts is in every record.  Neither reading's state
mentions the other's, so the invariant needs the trail of the walk: `TrailInv`
says every position on it but the last leads to another one the way generation
goes, `RecordInv` that generation stays on it.  The exception, a place without any
type, is in the statement.

The induction step of `MergeIsMeet` is proved beside it, for any merge of properties
(`MergePart`) and any reading of their values (`AdmitsPart`), and for values of any kind
and bounds of any size.  `MergeStepExact`: where the merge of every shared
property is exact, so is the level above it.  `MergeStepForm`: its result is
`WellFormed` again, as the fold's next step requires.  `RefusalHasReason`: a refusal
means that no value is admitted by both schemas, or that of a shared property was refused.
Both leave out `integer` beside `number` (`IntegersLost`), of which the code keeps
nothing although both admit every integer (`merge.go:204`), and `MergeStepExact` a
later schema that overrides the earlier (`OverridesHere`): the code keeps the last of
two `pattern`s, `enum`s or `maxItems`.  There the claims are false.  The two inductions, over the schemas' depth and over the branches, are out
of the prover's reach.

**KeyFit_proofs.**  `AcceptedKeysFit`: for every field schema and every Key schema
without a null literal, `HoldsKey` implies that a Key honouring its own schema
honours the field's.  `NumbersInBounds`: where each side has one bound that leaves room
and is not moved outwards, a drawn integer or number honours it, however fine the grid
its bounds lie on (`GridAssumption`: some number of steps makes 1, some 0.01); a literal is given out as it stands, so those of the schema
are assumed to fit it (`OwnLiteralsFit`), as those of `key_fit` do.

**AvroGeneration_proofs.**  `GenInv` for every avsc, path and depth budget.  `PathInv`
relates the two readings of an avsc by the types the path leads through
(`Trails`): the walk stands on them, and generation goes along them until the
place is reached, which is `PathKept`.  `HoldsInv` keeps what `Parse` and `HoldsKey` have
judged.  `ReadsInv` has whoever reads a value stand where generation does, which
`ReadsKept` rests on: the branch a union value names is the one generated, and an
entry of the value convention is the codec's own.  Reading a planted Key goes on
at the place, or at the one type of that full name, which is `KeyReadsKept`.
`AvscAssumption` says that an avsc's types are among its types and only some kinds
bear a logical type; `BranchAssumption` that the codec can tell the branches of a
union apart; `PathsAssumption` that a path names a field.

Only model-checked: liveness (`FiniteReturns`, `InterruptExits`, `ReadingsEnd`,
`DescentEnds`), which the prover does not reach; `MergeIsMeet` beyond its step; and
`Pattern` and what `AsyncAPI` reads, whose operators are recursive
and of which the prover has no induction.  That `planUnion` ends is neither stated nor proved.

## 6. What is not modelled, and why

- The flag package's own parsing, beyond whether it fails or asks for help, and the
  text of the usage.  Exit codes 1 and 2 of a refused plan differ by the rule's
  `usage` field alone and are not modelled apart from it.
- The letters of texts by field name or format, of Headers, Keys and Avro JSON, and
  the bytes of Confluent framing.
- Loading a document: YAML, JSON, versions, and the order its keys are written in.
  A copy of a schema object is stamped in the model as in the code, but what the
  stamp says is left out, and so is the order 3.0 messages are read in.
- The refusals of a document: which comes first does not matter to the model, and
  their wording is left out.
- Signals before `signal.Notify` and after `signal.Stop` kill the process; a second
  one while it shuts down is swallowed.  Neither has behaviour of the program.
- franz-go's retries and batching: one `Send` is one record with one outcome.  A
  duplicate its idempotent producer could make is outside this code.
- The text of names and schemas: namespaces, rendering, parsing, formats, the ordering of properties, logging.  Where a property asks, a text has
  the qualities that matter and no letters.
- JSON schemas whose keywords have the wrong type, and Avro unions of null alone or
  with two branches of one name (`BranchAssumption`), which other layers refuse or
  which panic.
- A sibling's failure: a record that fails because a property off the planted
  path cannot be generated is the record's failure, whatever the path.
- Numbers beyond the width of int64 or the precision of float64.
- A reused Key as an object shared by the records it is planted into (`reuse.go:39`):
  values of the models are not shared, so no change in place could show.
- The size of a value: one descent of a recursive container is modelled, not the
  number of them.

## 7. Plan

1. Done: the record loop and its sinks (Pipeline).
2. Done: the process edge and RunOutcome.
3. Done: Key reuse and EntityWindow.
4. Done: Avro union planning and registration.
5. Done: what a path guarantees, what a Key fits, Avro generation, Planting and Mix.
6. Done: AsyncAPI documents, from a topic's name to its Message types.
7. Done: the rules of a plan and the run it plans (RunPlan, PlannedRun), the value
   convention and the Keys of Avro (AvroModel), the meet of an allOf, patterns, and
   registration composed with the plans UnionPlan makes (UnionRegistration).
8. Done: the proofs of section 5, of every safety property the runs check but those
   of recursive operators.
9. What remains to be proved would need another form of those operators: `MessagesOnce`
   and `ParametersMerged`, with the reading of a message a constant.
