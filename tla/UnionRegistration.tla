------------------------- MODULE UnionRegistration --------------------------
(* A run of several Avro Message types from end to end: planUnion draws up how *)
(* they register (UnionPlan), and what it drew up is what the runs register    *)
(* (Registration). A lone avsc needs no plan. Every composition is registered  *)
(* by one run that nothing disturbs; an attended one by all the runs, among    *)
(* failures and other clients.                                                 *)
EXTENDS UnionPlan, Registration

CONSTANT Attended  \* the compositions registered among failures and other clients

ASSUME AttendedAssumption == Attended \subseteq Compositions

VARIABLE opened    \* the Encoder registers what is planned, or the lone avsc

unionVars == <<vars, planVars, opened>>

\* newUnion is called for several Message types; plan says so far no more than
\* whether there is a key.
UnionInit ==
    /\ Init
    /\ PlanInit
    /\ plan.subjects = <<>> /\ plan.branches = <<>>
    /\ plan.keyed => composition \in Attended
    /\ opened = FALSE

Several == Len(composition.roots) > 1

\* The plan handed to the Encoder, which registers it.
Drawn(p, c, ss) ==
    [p EXCEPT !.subjects = [i \in DOMAIN ss |-> ss[i].name],
              !.branches = c.roots,
              !.refs = [t \in Names |-> IF \E i \in DOMAIN ss : ss[i].name = t
                                        THEN ss[CHOOSE i \in DOMAIN ss : ss[i].name = t].refs
                                        ELSE <<>>]]

\* planUnion, step by step; a refusal ends the run before it opens a connection.
DrawUp ==
    /\ Several
    /\ PlanNext
    /\ plan' = IF stage' = "planned" THEN Drawn(plan, composition, subjects') ELSE plan
    /\ UNCHANGED <<registry, run, foreign, deleted, completed, opened>>

\* encoderFor: the Encoder is given the plan, if there is one, to register it.
Open ==
    /\ ~opened /\ (Several => stage = "planned")
    /\ opened' = TRUE
    /\ UNCHANGED <<vars, planVars>>

Register ==
    /\ opened
    /\ UNCHANGED <<planVars, opened>>
    /\ \/ \E r \in Runs : Create(r) \/ List(r) \/ Scan(r) \/ Stop(r)
       \/ composition \in Attended /\ \E r \in Runs : Break(r) \/ Rerun(r)
       \/ composition \in Attended /\ OtherStep
    /\ composition \in Attended \/ \E r \in Runs : \A q \in Runs \ {r} : run'[q] = NewRun

UnionNext == DrawUp \/ Open \/ Register
UnionSpec == UnionInit /\ [][UnionNext]_unionVars
=============================================================================
