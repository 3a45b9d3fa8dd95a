------------------------------- MODULE Pattern -------------------------------
(* Synthesizing a string that matches a pattern (internal/synth/pattern.go): a *)
(* recursive descent over the characters of the pattern, whose result is then  *)
(* walked at random. Beside it stands what a regular expression means: an      *)
(* expression is written down, read by the parser, and every string            *)
(* synthesized is matched against the expression itself.                       *)
(*                                                                             *)
(* Characters are strings of one, in the order of Alphabet; the numbers of a   *)
(* quantifier have one digit.                                                  *)
EXTENDS Integers, SequencesExt

CONSTANTS
    Alphabet,     \* the characters that letters, digits and ranges are drawn from
    Digits, Word, Space,  \* what \d, \w and \s draw from
    Expressions,  \* the expressions tried
    MaxRepeat     \* how often * and + repeat at most; 6

ASSUME RepeatAssumption == MaxRepeat \in Nat \ {0}

VARIABLES expression, phase, tree, text
vars == <<expression, phase, tree, text>>

-----------------------------------------------------------------------------
(* The parser. It returns the node read and the place after it, or no node.    *)

One(chars) == [kind |-> "one", chars |-> chars]
Seq2(items) == [kind |-> "seq", items |-> items]
Alt(items) == [kind |-> "alt", items |-> items]
Rep(node, min, max) == [kind |-> "rep", node |-> node, min |-> min, max |-> max]

At(p, i) == IF i <= Len(p) THEN p[i] ELSE "end"
Read(node, next) == [ok |-> TRUE, node |-> node, next |-> next]
Unsupported == [ok |-> FALSE]

\* parseEscape, of the character after the backslash.
Escape(p, i) ==
    LET c == At(p, i)
    IN CASE c = "d" -> Read(One(Digits), i + 1)
         [] c = "w" -> Read(One(Word), i + 1)
         [] c = "s" -> Read(One(Space), i + 1)
         [] c \in {".", "^", "$", "[", "]", "(", ")", "|", "*", "+", "?", "{", "}", "\\", "-"} ->
              Read(One({c}), i + 1)
         [] OTHER -> Unsupported

Order(c) == IF c \in ToSet(Alphabet) THEN SelectInSeq(Alphabet, LAMBDA a : a = c) ELSE 0
Range2(lo, hi) == {Alphabet[k] : k \in Order(lo) .. Order(hi)}

\* parseClass, from inside the brackets on.
RECURSIVE Class(_, _, _)
Class(p, i, pool) ==
    CASE At(p, i) = "end" -> Unsupported
      [] At(p, i) = "]" -> IF pool = {} THEN Unsupported ELSE Read(One(pool), i + 1)
      [] OTHER ->
           IF At(p, i + 1) = "-" /\ At(p, i + 2) \notin {"]", "end"}
           THEN IF Order(At(p, i + 2)) < Order(p[i]) THEN Unsupported
                ELSE Class(p, i + 3, pool \union Range2(p[i], At(p, i + 2)))
           ELSE Class(p, i + 1, pool \union {p[i]})

Counts == [c \in {"0", "1", "2", "3"} |-> CASE c = "0" -> 0 [] c = "1" -> 1 [] c = "2" -> 2 [] c = "3" -> 3]
IsCount(c) == c \in DOMAIN Counts

Repeats(min, max, next) == [ok |-> TRUE, min |-> min, max |-> max, next |-> next]

\* Mutant: {n,} is {n}.
QuantOpen(p, i) ==
    LET n == At(p, i + 1)
        m == At(p, i + 3)
    IN CASE IsCount(n) /\ At(p, i + 2) = "}" -> Repeats(Counts[n], Counts[n], i + 3)
         [] IsCount(n) /\ At(p, i + 2) = "," /\ m = "}" -> Repeats(Counts[n], Counts[n], i + 4)
         [] IsCount(n) /\ At(p, i + 2) = "," /\ IsCount(m) /\ At(p, i + 4) = "}" ->
              IF Counts[m] < Counts[n] THEN Unsupported ELSE Repeats(Counts[n], Counts[m], i + 5)
         [] OTHER -> Unsupported

\* parseQuant: {n} or {n,m}.
QuantBraces(p, i) ==
    LET n == At(p, i + 1)
        m == At(p, i + 3)
    IN CASE IsCount(n) /\ At(p, i + 2) = "}" -> Repeats(Counts[n], Counts[n], i + 3)
         [] IsCount(n) /\ At(p, i + 2) = "," /\ IsCount(m) /\ At(p, i + 4) = "}" ->
              IF Counts[m] < Counts[n] THEN Unsupported ELSE Repeats(Counts[n], Counts[m], i + 5)
         [] OTHER -> Unsupported

\* The quantifier after an atom, if there is one.
Quantifier(p, i) ==
    LET c == At(p, i)
    IN CASE c = "{" -> QuantBraces(p, i)
         [] c = "*" -> Repeats(0, MaxRepeat, i + 1)
         [] c = "+" -> Repeats(1, MaxRepeat, i + 1)
         [] c = "?" -> Repeats(0, 1, i + 1)
         [] OTHER -> Repeats(1, 1, i)

RECURSIVE Alternation(_, _, _), Concat(_, _, _), Atom(_, _)

\* parseAlternation, with the branches read so far.
Alternation(p, i, branches) ==
    LET branch == Concat(p, i, <<>>)
    IN IF ~branch.ok THEN Unsupported
       ELSE IF At(p, branch.next) = "|" THEN Alternation(p, branch.next + 1, Append(branches, branch.node))
       ELSE Read(Alt(Append(branches, branch.node)), branch.next)

\* Mutant: a quantifier repeats all that the branch holds so far.
ConcatRepeatsAll(p, i, items) ==
    IF At(p, i) \in {"end", "|", ")"} THEN Read(Seq2(items), i)
    ELSE LET atom == Atom(p, i)
         IN IF ~atom.ok THEN Unsupported
            ELSE LET q == Quantifier(p, atom.next)
                 IN IF ~q.ok THEN Unsupported
                    ELSE Concat(p, q.next, <<Rep(Seq2(Append(items, atom.node)), q.min, q.max)>>)

\* parseConcat, with the items read so far; each takes one quantifier.
Concat(p, i, items) ==
    IF At(p, i) \in {"end", "|", ")"} THEN Read(Seq2(items), i)
    ELSE LET atom == Atom(p, i)
         IN IF ~atom.ok THEN Unsupported
            ELSE LET q == Quantifier(p, atom.next)
                 IN IF ~q.ok THEN Unsupported
                    ELSE Concat(p, q.next, Append(items, Rep(atom.node, q.min, q.max)))

\* parseAtom: anchors are read and forgotten.
Atom(p, i) ==
    CASE p[i] \in {"^", "$"} -> Read(Seq2(<<>>), i + 1)
      [] p[i] = "." -> Unsupported
      [] p[i] = "\\" -> Escape(p, i + 1)
      [] p[i] = "[" -> IF At(p, i + 1) = "^" THEN Unsupported ELSE Class(p, i + 1, {})
      [] p[i] = "(" ->
           LET inner == Alternation(p, i + 1, <<>>)
           IN IF inner.ok /\ At(p, inner.next) = ")" THEN Read(inner.node, inner.next + 1)
              ELSE Unsupported
      [] OTHER -> Read(One({p[i]}), i + 1)

\* Pattern: nothing may be left over.
ParsePattern(p) ==
    LET read == Alternation(p, 1, <<>>)
    IN IF read.ok /\ read.next = Len(p) + 1 THEN read ELSE Unsupported

-----------------------------------------------------------------------------
\* genNode: the strings it may write.
RECURSIVE Written(_)
Joined(heads, tails) == {h \o t : h \in heads, t \in tails}
Written(node) ==
    CASE node.kind = "one" -> {<<c>> : c \in node.chars}
      [] node.kind = "seq" -> FoldLeft(LAMBDA s, it : Joined(s, Written(it)), {<<>>}, node.items)
      [] node.kind = "alt" -> UNION {Written(b) : b \in ToSet(node.items)}
      [] node.kind = "rep" ->
           LET once == Written(node.node)
               Times[n \in 0 .. node.max] == IF n = 0 THEN {<<>>} ELSE Joined(Times[n - 1], once)
           IN UNION {Times[n] : n \in node.min .. node.max}

-----------------------------------------------------------------------------
(* Expressions: the nodes above with anchors, groups and what they are written *)
(* as, and the strings they match.                                             *)
RECURSIVE Source(_)
Source(e) ==
    CASE e.kind = "seq" -> FoldLeft(LAMBDA s, it : s \o Source(it), <<>>, e.items)
      [] e.kind = "alt" ->
           FoldLeft(LAMBDA s, b : s \o <<"|">> \o Source(b), Source(Head(e.items)), Tail(e.items))
      [] e.kind = "rep" -> Source(e.node) \o e.source
      [] e.kind = "group" -> e.opens \o Source(e.node) \o <<")">>
      [] OTHER -> e.source

\* The places where a match that starts at i may end.
RECURSIVE Ends(_, _, _)
Ends(e, s, i) ==
    CASE e.kind = "one" -> IF i <= Len(s) /\ s[i] \in e.chars THEN {i + 1} ELSE {}
      [] e.kind = "begin" -> IF i = 1 THEN {i} ELSE {}
      [] e.kind = "end" -> IF i = Len(s) + 1 THEN {i} ELSE {}
      [] e.kind = "group" -> Ends(e.node, s, i)
      [] e.kind = "seq" ->
           FoldLeft(LAMBDA from, it : UNION {Ends(it, s, j) : j \in from}, {i}, e.items)
      [] e.kind = "alt" -> UNION {Ends(b, s, i) : b \in ToSet(e.items)}
      [] e.kind = "rep" ->
           LET Times[n \in 0 .. e.min + Len(s) + 1] ==
                   IF n = 0 THEN {i} ELSE UNION {Ends(e.node, s, j) : j \in Times[n - 1]}
           IN UNION {Times[n] : n \in {n \in e.min .. e.min + Len(s) + 1 : e.bounded => n <= e.max}}

\* A pattern may match anywhere in a string, unless it is anchored.
Matches(e, s) == \E i \in 1 .. Len(s) + 1 : Ends(e, s, i) # {}

-----------------------------------------------------------------------------
Init == expression \in Expressions /\ phase = "read" /\ tree = <<>> /\ text = <<>>

Parse ==
    /\ phase = "read"
    /\ LET read == ParsePattern(Source(expression))
       IN IF read.ok THEN phase' = "generate" /\ tree' = read.node
          ELSE phase' = "refused" /\ UNCHANGED tree
    /\ UNCHANGED <<expression, text>>

Generate ==
    /\ phase = "generate"
    /\ text' \in Written(tree)
    /\ phase' = "written"
    /\ UNCHANGED <<expression, tree>>

Next == Parse \/ Generate
Spec == Init /\ [][Next]_vars

-----------------------------------------------------------------------------
RECURSIVE Parts(_)
Parts(e) ==
    {e} \union CASE e.kind \in {"seq", "alt"} -> UNION {Parts(it) : it \in ToSet(e.items)}
                 [] e.kind \in {"rep", "group"} -> Parts(e.node)
                 [] OTHER -> {}

\* "Anything outside the subset yields a *PatternError naming the construct,
\* never a silently non-conforming string" (pattern.go:26): whatever is written
\* matches the pattern, but for what the parser misreads.
SynthesizedMatches ==
    phase = "written" => Matches(expression, text) \/ \E e \in Parts(expression) : e.misread

\* What the README's table lists as supported (README.md:456) is never refused,
\* and what it lists as unsupported always is.
TableKept ==
    /\ phase = "refused" => \E e \in Parts(expression) : ~e.listed
    /\ phase \in {"generate", "written"} => \A e \in Parts(expression) : e.listed \/ e.misread
=============================================================================
