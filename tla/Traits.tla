------------------------------- MODULE Traits -------------------------------
(* Message traits and how they are merged into a message (traits.go): JSON    *)
(* Merge Patch, and for AsyncAPI 3.0 the same with the message winning.       *)
EXTENDS SpecDocument

CONSTANT MaxMergeDepth      \* maxMergeDepth, 64

Removed == [removed |-> TRUE]

\* Document.traits: a List of the traits of a message, or an error.
TraitsOf(msg) ==
    LET traits == Get(msg, "traits")
        found == [i \in DOMAIN traits.items |-> ObjectAt(traits.items[i])]
    IN CASE traits = Null -> List(<<>>)
         [] IsList(traits) ->
                IF \E i \in DOMAIN found : \/ found[i] = Failed
                                           \/ {"payload", "traits"} \intersect DOMAIN found[i].keys # {}
                THEN Failed ELSE List(found)
         [] OTHER -> Failed

RECURSIVE Merge(_, _, _, _)

\* One member of the patch against what the target holds there; where both
\* hold an object they are merged, through references on either side.
MergeMember(target, key, value, patchWins, depth) ==
    LET declared == key \in DOMAIN target.keys
        current == Get(target, key)
        both == IsMap(current) /\ IsMap(value)
        same == IsRef(current) /\ current = value
        into == IF both THEN ObjectAt(current) ELSE Empty
    IN CASE value = Null -> IF patchWins THEN Removed ELSE IF declared THEN current ELSE Removed
         [] value # Null /\ ~patchWins /\ declared /\ ~both -> current
         [] value # Null /\ ~patchWins /\ ~declared -> value
         [] value # Null /\ both /\ same -> current
         [] OTHER -> IF into = Failed THEN Failed ELSE Merge(into, value, patchWins, depth + 1)

\* Document.merge. An empty target takes the patch as it stands.
Merge(target, patch, patchWins, depth) ==
    LET p == IF target = Empty THEN patch ELSE ObjectAt(patch)
        names == DOMAIN target.keys \union DOMAIN p.keys
        merged == [k \in names |-> IF k \in DOMAIN p.keys
                                   THEN MergeMember(target, k, p.keys[k], patchWins, depth)
                                   ELSE target.keys[k]]
    IN CASE ~IsMap(patch) -> patch
         [] IsMap(patch) /\ (depth = MaxMergeDepth \/ p = Failed) -> Failed
         [] IsMap(patch) /\ depth < MaxMergeDepth /\ IsRef(p) -> p
         [] OTHER -> IF \E k \in names : merged[k] = Failed THEN Failed
                     ELSE Object([k \in {n \in names : merged[n] # Removed} |-> merged[k]])

MergePatch(target, patch) == IF target = Failed THEN Failed ELSE Merge(target, patch, TRUE, 0)
Underlay(target, patch) == IF patch = Failed THEN Failed ELSE Merge(target, patch, FALSE, 0)

\* Mutant: the rule of 2.x taken for 3.0.
WithTraitsAlike(msg, traits) == FoldLeft(MergePatch, msg, traits)

\* A message with its traits: in 2.x each overrides it in turn, in 3.0 it
\* overrides what they add up to.
WithTraits(msg, traits) ==
    CASE traits = <<>> -> msg
      [] traits # <<>> /\ spec.major = 2 -> FoldLeft(MergePatch, msg, traits)
      [] OTHER -> Underlay(msg, FoldLeft(MergePatch, Empty, traits))

-----------------------------------------------------------------------------
(* The merge AsyncAPI asks for, on trees without references (RFC 7386).       *)

\* A node with its references replaced by what they name, as far as they go.
RECURSIVE Tree(_, _)
Tree(node, depth) ==
    CASE depth = 0 -> [beyond |-> TRUE]
      [] IsRef(node) /\ depth > 0 -> Tree(Pointer(node.ref), depth - 1)
      [] IsObject(node) /\ depth > 0 ->
            Object([k \in DOMAIN node.keys |-> Tree(node.keys[k], depth - 1)])
      [] IsList(node) /\ depth > 0 ->
            List([i \in DOMAIN node.items |-> Tree(node.items[i], depth - 1)])
      [] OTHER -> node

RECURSIVE Patched(_, _)
Patched(target, patch) ==
    LET old == IF IsObject(target) THEN target ELSE Empty
        kept == {k \in DOMAIN old.keys : Get(patch, k) # Null \/ k \notin DOMAIN patch.keys}
        new == {k \in DOMAIN patch.keys : patch.keys[k] # Null}
    IN IF ~IsObject(patch) THEN patch
       ELSE Object([k \in kept \union new |->
                        IF k \in new THEN Patched(Get(old, k), patch.keys[k]) ELSE old.keys[k]])

RECURSIVE Supplied(_, _)
Supplied(target, base) ==
    IF ~IsObject(target) \/ ~IsObject(base) THEN target
    ELSE Object([k \in DOMAIN base.keys \union DOMAIN target.keys |->
                    CASE k \notin DOMAIN target.keys -> base.keys[k]
                      [] k \notin DOMAIN base.keys -> target.keys[k]
                      [] OTHER -> Supplied(target.keys[k], base.keys[k])])

MergedTree(msg, traits, depth) ==
    LET trees == [i \in DOMAIN traits |-> Tree(traits[i], depth)]
    IN IF spec.major = 2 THEN FoldLeft(Patched, Tree(msg, depth), trees)
       ELSE Supplied(Tree(msg, depth), FoldLeft(Patched, Empty, trees))
=============================================================================
