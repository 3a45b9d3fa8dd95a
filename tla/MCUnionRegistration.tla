------------------------ MODULE MCUnionRegistration -------------------------
(* Two or three Message types over four named types, each referring to at most *)
(* two others or itself. Three compositions are attended: two records that     *)
(* share a type, which in turn needs another shared one; two that share a type *)
(* held inline by a type of their own; and a lone avsc.                        *)
EXTENDS UnionRegistration, TLC

CONSTANTS A, B, S, T, r1, r2

MCNames == {A, B, S, T}
MCRuns == {r1, r2}
Twins == Permutations({r1, r2})

InOrder == <<A, B, S, T>>
MCRefs == {<<>>} \cup {<<t>> : t \in MCNames}
          \cup {<<InOrder[i], InOrder[j]>> : <<i, j>> \in {p \in (1..4) \X (1..4) : p[1] < p[2]}}

\* A type that no Message type defines refers to nothing.
Composed(roots, differing) ==
    {c \in [roots : roots, refs : [MCNames -> MCRefs], differing : differing] :
       LET defs == Reached(StepsOf(c), RangeOf(c.roots))
       IN \A t \in MCNames \ defs : c.refs[t] = <<>>}

\* A refers to S, B to T and S, and S to T.
Shared == [roots |-> <<A, B>>, differing |-> {},
           refs |-> (A :> <<S>> @@ B :> <<T, S>> @@ S :> <<T>> @@ T :> <<>>)]
Apart == [Shared EXCEPT !.refs = A :> <<T>> @@ B :> <<S>> @@ S :> <<S>> @@ T :> <<>>]
Lone == [Shared EXCEPT !.roots = <<A>>]
MCAttended == {Shared, Apart, Lone}

\* Compositions refused before their order is looked at need no variety.
MCCompositions ==
    Composed({<<A, B>>, <<B, A, S>>}, {{}})
    \cup {c \in Composed({<<A, A>>, <<A, B>>}, {{}, {T}}) : c.refs[S] = <<>> /\ c.refs[T] = <<>>}
    \cup MCAttended

MCPlans == {[subjects |-> <<>>, branches |-> <<>>, keyed |-> keyed,
             refs |-> [t \in MCNames |-> <<>>]] : keyed \in BOOLEAN}
=============================================================================
