----------------------------- MODULE NamedTypes -----------------------------
(* The named types of the Message types' avscs, as their planning (UnionPlan)  *)
(* and their registration (Registration) both see them.                        *)
EXTENDS Sequences

CONSTANT Names   \* full names of named types

RangeOf(s) == {s[i] : i \in DOMAIN s}

Closed(S, step) == \A t \in S : step[t] \subseteq S

\* What is reached from a set by steps: no set that has it and is closed leaves
\* it out.
Reached(step, from) ==
    {t \in Names : \A S \in SUBSET Names : from \subseteq S /\ Closed(S, step) => t \in S}
=============================================================================
