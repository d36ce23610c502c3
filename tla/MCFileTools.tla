---------------------------- MODULE MCFileTools ----------------------------
(***************************************************************************)
(* Small instances of FileTools: two calls.  Texts of up to four of two  *)
(* letters with every edit of up to two letters by up to one; texts with   *)
(* line endings of either style; and every pair of a few requests, one     *)
(* after the other and overlapping.                                        *)
(***************************************************************************)
EXTENDS FileTools, TLC

Letters(n) == SeqOf({"a", "b"}, n)

Edit(o, n, all) == [old |-> o, new |-> n, all |-> all]

Show(o, n)  == [tool |-> "view", offset |-> o, limit |-> n]
WriteIt(t)  == [tool |-> "write", text |-> t]
EditIt(e)   == [tool |-> "edit", edits |-> <<e>>]
Multi(es)   == [tool |-> "multiedit", edits |-> es]

Pair(f, r1, r2, serial) == [file |-> f, of |-> <<r1, r2>>, serial |-> serial]

Edits == {Edit(o, n, all) : o \in Letters(2) \ {<<>>}, n \in Letters(1), all \in BOOLEAN}

AToB    == Edit(<<"a">>, <<"b">>, FALSE)
BAway   == Edit(<<"b">>, <<>>, TRUE)
NewA    == Edit(<<>>, <<"a">>, FALSE)
Joined  == Edit(<<"LF">>, <<>>, FALSE)
Broken  == Edit(<<"a">>, <<"LF", "b">>, FALSE)
Dos     == Edit(<<"a">>, <<"CR", "LF">>, TRUE)

EveryEdit == {Pair(f, r, Multi(<<AToB, BAway>>), TRUE) :
                  f \in Letters(4), r \in {EditIt(e) : e \in Edits} \cup {Multi(<<e>>) : e \in Edits}}

Requests == {Show(0, 0), WriteIt(<<>>), WriteIt(<<"b", "b">>), EditIt(AToB), EditIt(NewA), EditIt(BAway),
             Multi(<<>>), Multi(<<AToB, NewA>>), Multi(<<NewA, AToB>>), Multi(<<BAway, AToB>>)}

EveryPair == {Pair(f, r1, r2, serial) :
                  f \in {Absent, <<>>, <<"a">>, <<"a", "b">>, <<"a", "b", "b">>},
                  r1 \in Requests, r2 \in Requests, serial \in BOOLEAN}

Endings == {Pair(f, Multi(es), r, serial) :
                f \in {<<"a", "LF", "b">>, <<"a", "CR", "LF", "b">>, <<"CR", "LF", "a", "CR", "LF">>,
                       <<"a", "CR", "LF", "LF">>, <<"CR", "a">>},
                es \in {<<Joined>>, <<Broken>>, <<Broken, BAway>>, <<Joined, Broken>>, <<Dos>>},
                r \in {Show(1, 0), Multi(<<BAway>>)}, serial \in BOOLEAN}

\* Every text of up to five letters and line ends, every page of up to two
\* lines; and a write that lets the file grow beyond what view reads.
EveryView == {Pair(f, Show(o, n), WriteIt(<<"b", "b", "b", "b", "b", "b">>), serial) :
                  f \in SeqOf({"a", "LF"}, 6), o \in 0..2, n \in 0..2, serial \in BOOLEAN}

SomeJobs == EveryEdit \cup EveryPair \cup Endings \cup EveryView
=============================================================================
