----------------------------- MODULE AllOfMerge -----------------------------
(* mergeSchemas (merge.go): the branches of an allOf folded into one schema,  *)
(* keyword by keyword, or NoMerge where they cannot be reconciled.            *)
EXTENDS KeywordMerge

RECURSIVE MergeTwo(_, _)
MergeTwo(a, b) == MergeKeywords(MergeTwo, a, b)

MergeSchemas(branches) ==
    FoldLeft(LAMBDA merged, branch : IF merged = NoMerge THEN NoMerge ELSE MergeTwo(merged, branch),
             <<>>, branches)

-----------------------------------------------------------------------------
RECURSIVE Admits(_, _)
Admits(s, v) == AdmitsKeywords(Admits, s, v)

RECURSIVE SetApart(_, _)
SetApart(a, b) ==
    \/ SetApartHere(a, b)
    \/ /\ "properties" \in DOMAIN a \intersect DOMAIN b
       /\ \E name \in DOMAIN a["properties"] \intersect DOMAIN b["properties"] :
            SetApart(a["properties"][name], b["properties"][name])

\* No property is left out, and no null stands in for what has them.
RECURSIVE Complete(_, _)
Complete(v, names) ==
    v.kind # "null" /\ (v.kind = "object" => DOMAIN v.of = names /\ \A name \in names : Complete(v.of[name], names))

\* The merge admits what every branch admits and no more; branches that are
\* refused have no complete value in common.
IsMeet(branches, values, names) ==
    LET common(v) == \A b \in ToSet(branches) : Admits(b, v)
    IN \/ \E i, j \in DOMAIN branches : i < j /\ SetApart(branches[i], branches[j])
       \/ \E merged \in {MergeSchemas(branches)} :
            IF merged = NoMerge THEN \A v \in values : Complete(v, names) => ~common(v)
            ELSE \A v \in values : Admits(merged, v) <=> common(v)
=============================================================================
