------------------------------ MODULE MCPattern ------------------------------
(* Expressions of up to two quantified atoms in a row, alternatives of them,   *)
(* grouped and quantified once more, with and without anchors around; and each *)
(* construct the README's table rules out, or does not mention.                *)
EXTENDS Pattern

MCAlphabet == <<"0", "1", "a", "b", "c">>
MCDigits == {"0", "1"}
MCWord == {"0", "a", "b"}
MCSpace == {" "}

Node(kind, source) == [kind |-> kind, source |-> source, listed |-> TRUE, misread |-> FALSE]
Chars(chars, source) == [chars |-> chars] @@ Node("one", source)
Unlisted(e) == [e EXCEPT !.listed = FALSE]
Misread(e) == [e EXCEPT !.listed = FALSE, !.misread = TRUE]

Seq_(items) == [items |-> items] @@ Node("seq", <<>>)
Alt_(items) == [items |-> items] @@ Node("alt", <<>>)
Group(e) == [node |-> e, opens |-> <<"(">>] @@ Node("group", <<>>)
Repeated(e, source, min, max, bounded) ==
    [node |-> e, min |-> min, max |-> max, bounded |-> bounded] @@ Node("rep", source)

Atoms == {Chars({"a"}, <<"a">>), Chars({"-"}, <<"-">>), Chars({"a", "b"}, <<"[", "a", "-", "b", "]">>),
          Chars({"0", "1", "c", "-"}, <<"[", "0", "-", "1", "c", "-", "]">>),
          Chars(MCDigits, <<"\\", "d">>), Chars(MCWord, <<"\\", "w">>), Chars(MCSpace, <<"\\", "s">>),
          Chars({"."}, <<"\\", ".">>)}
Quantified(e) ==
    {e, Repeated(e, <<"*">>, 0, 0, FALSE), Repeated(e, <<"+">>, 1, 0, FALSE), Repeated(e, <<"?">>, 0, 1, TRUE),
     Repeated(e, <<"{", "2", "}">>, 2, 2, TRUE), Repeated(e, <<"{", "0", ",", "2", "}">>, 0, 2, TRUE)}
A == Chars({"a"}, <<"a">>)
B == Chars({"b"}, <<"b">>)
Pieces == UNION {Quantified(a) : a \in Atoms}
Few == UNION {Quantified(a) : a \in {A, Chars({"a", "b"}, <<"[", "a", "-", "b", "]">>)}}
Rows == {Seq_(<<x, y>>) : x \in Pieces, y \in Few}
Alternatives == {Alt_(<<x, y>>) : x \in Few, y \in {Seq_(<<A, B>>), Seq_(<<>>), B}}
Grouped == UNION {Quantified(Group(Alt_(<<x, y>>))) :
                  x \in {A, Repeated(A, <<"?">>, 0, 1, TRUE), Repeated(B, <<"+">>, 1, 0, FALSE)},
                  y \in {Seq_(<<A, B>>), Seq_(<<>>)}}

Begin == Node("begin", <<"^">>)
End == Node("end", <<"$">>)
Whole(e) == Seq_(<<Begin, e, End>>)
Listed ==
    {Whole(e) : e \in Pieces \union Rows \union {Seq_(<<g, B>>) : g \in Grouped} \union {Seq_(<<A, g>>) : g \in Grouped}}
    \union Rows \union Alternatives \union {Alt_(<<Seq_(<<Begin, A>>), Seq_(<<B, End>>)>>)}

\* Ruled out by the table.
Refused ==
    {Unlisted(e) : e \in
        {Chars(ToSet(MCAlphabet), <<".">>), Chars({"b", "c"}, <<"[", "^", "a", "]">>),
         Chars({"a", "b"}, <<"\\", "D">>), Chars({"a", "b"}, <<"[", "b", "-", "a", "]">>),
         Chars({}, <<"[", "]">>), Chars({"a"}, <<"[", "a">>), Chars({"a"}, <<"(", "a">>),
         Chars({"a"}, <<"a", ")">>), Chars({"a"}, <<"\\", "z">>),
         Repeated(A, <<"{", "1", ",", "}">>, 1, 0, FALSE), Repeated(A, <<"{", "2", ",", "1", "}">>, 0, 0, TRUE),
         Repeated(A, <<"{", "}">>, 0, 0, TRUE), Repeated(A, <<"{", "1">>, 1, 1, TRUE)}}

\* Not in the table, and read as something else.
Unforeseen ==
    {Misread(e) : e \in
        {Repeated(A, <<"*", "?">>, 0, 0, FALSE), Repeated(A, <<"+", "+">>, 1, 0, FALSE),
         Chars(MCDigits, <<"[", "\\", "d", "]">>), Chars({"a", "b"}, <<"[", "\\", "D", "]">>),
         [Group(A) EXCEPT !.opens = <<"(", "?", ":">>],
         Seq_(<<A, Begin>>), Group(Alt_(<<A, Seq_(<<B, End>>)>>))}}

MCExpressions ==
    Listed \union {Whole(Seq_(<<A, e>>)) : e \in Refused \union Unforeseen}
           \union {Whole(Seq_(<<e, B>>)) : e \in Refused \union Unforeseen}
=============================================================================
