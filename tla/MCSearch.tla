------------------------------ MODULE MCSearch -------------------------------
(* Calls of the three tools on a tree with directories, hidden entries and *)
(* ignored ones, with limits below, at and above what there is.            *)
EXTENDS Search

Dir(up, hidden) ==
    [up |-> up, dir |-> TRUE, hidden |-> hidden, fits |-> {}, lines |-> 0, time |-> 0]
File(up, hidden, fits, lines, time) ==
    [up |-> up, dir |-> FALSE, hidden |-> hidden, fits |-> {<<c>> : c \in fits}, lines |-> lines, time |-> time]

Tree == << Dir(0, FALSE),
              File(1, FALSE, {"a"}, 2, 1),
              Dir(1, TRUE), File(3, FALSE, {"a", "b"}, 1, 4),
              File(1, FALSE, {"b"}, 1, 3),
           File(0, FALSE, {"a", "b"}, 1, 2),
           File(0, TRUE, {"a"}, 1, 4),
           File(0, FALSE, {"a"}, 0, 2),
           File(0, FALSE, {"b"}, 1, 3) >>

Patterns == {<<"a">>, <<"b">>, <<"{", "a", ",", "b", "}">>, <<"{", "b", ",", "b", "}">>,
             <<"{", "a", "}", "{", "}">>}

\* An ignored directory with a file in it that is not.
Ignoring(hits, negated) == [hits |-> hits, negated |-> negated]
Ignores == {<<>>, <<Ignoring({1}, FALSE)>>, <<Ignoring({5}, TRUE), Ignoring({1}, FALSE)>>,
            <<Ignoring({1}, FALSE), Ignoring({5}, TRUE)>>}

Call(tool, ignore, below, pattern, deep, means, limit) ==
    [tool |-> tool, tree |-> Tree, ignore |-> ignore, below |-> below, pattern |-> pattern,
     deep |-> deep, means |-> means, limit |-> limit]

Letters(p) == {<<c>> : c \in ToSet(p) \cap {"a", "b"}}

MCCalls ==
    {Call("glob", <<>>, below, p, deep, Letters(p), n) :
        below \in BOOLEAN, p \in Patterns, deep \in BOOLEAN, n \in 1..4}
    \cup {Call("grep", ignore, below, <<>>, TRUE, means, n) :
        ignore \in Ignores, below \in BOOLEAN, means \in {{}, {<<"a">>}}, n \in 1..4}
    \cup {Call("ls", ignore, FALSE, <<>>, TRUE, {}, n) : ignore \in Ignores, n \in 1..7}
=============================================================================
