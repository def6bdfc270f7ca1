------------------------------ MODULE MCLibrary ------------------------------
(***************************************************************************)
(* Instances of Library for TLC: the values a configuration cannot write   *)
(* down.                                                                   *)
(***************************************************************************)
EXTENDS Library, SequencesExt

MCLeftovers == {[i \in 0 .. 11 |-> 1]}

MCLines == {<<"a">>, <<"b", "a">>, <<"quote", "b", "space", "a", "quote">>, <<"y">>}
MCAnswers == {<<"y">>, <<"y", "space", "b">>, <<"a">>, <<"space", "y">>}

MCPtrs == {"p1", "p2", "p3"}
MCCells == {"x1", "x2", "x3"}
MCDeleter == [p \in MCPtrs |-> IF p = "p3" THEN "multiple" ELSE "single"]
MCMade == [x \in MCCells |-> IF x = "x3" THEN "multiple" ELSE "single"]

\* Five words, among them one with a zero in front, one too long, one too large,
\* joined in all ways by dots (17); and words joined by colons (16).
JoinedBy(sep, words) ==
    FlattenSeq([i \in DOMAIN words |->
        IF i = 1 THEN words[i] ELSE <<sep>> \o words[i]])

MCDotted ==
    {JoinedBy(17, f) : f \in
        [1 .. 4 -> {<<>>, <<0>>, <<0, 1>>, <<1, 0>>, <<2, 5, 5>>, <<2, 5, 6>>}]
        \cup UNION {[1 .. n -> {<<0>>, <<1, 0>>}] : n \in {3, 5}}}

MCColons ==
    {JoinedBy(16, f) : f \in
        UNION {[1 .. n -> {<<>>, <<15, 15, 15, 15>>}] : n \in {1, 2, 3, 7, 8, 9}}}

MCTyped == MCDotted \cup MCColons

\* A blank, a tab, the delimiter, a slash, a backslash, a letter, and a negative
\* character.
MCTexts ==
    UNION {[1 .. n -> {-23, 9, 32, 46, 47, 92, 65}] : n \in 0 .. 4}
        \cup [1 .. 5 -> {32, 46, 97}]
=============================================================================
