------------------------------- MODULE Search --------------------------------
(***************************************************************************)
(* The tools that look for files: glob.go, grep.go and ls.go.  One call    *)
(* walks a tree entry by entry while files are removed, skips what is      *)
(* hidden or ignored, stops early when it has enough, sorts what it found  *)
(* with the newest first and cuts it at the limit.                         *)
(*                                                                         *)
(* A tree is a sequence of entries in the order of filepath.Walk:          *)
(*   [up, dir, hidden, fits, lines, time]                                  *)
(* where up is the place of the directory an entry is in (0 for the root   *)
(* of the search), fits are the names it matches, lines says how many of   *)
(* its lines match.                                                        *)
(***************************************************************************)
EXTENDS Naturals, Sequences, SequencesExt, FiniteSets, FiniteSetsExt

CONSTANTS Calls,      \* the calls, each with the tree it is made on
          MaxRemoved  \* how many files disappear meanwhile

VARIABLES
    call,      \* [tool, tree, ignore, below, pattern, deep, means, limit]
    pc,        \* "new", "stat", "walk", "sort", "done" or "error"
    todo,      \* the patterns globFiles still has to look for
    at,        \* the entry the walk visits next
    found,     \* what this walk has found, as pairs of entry and line
    all,       \* and what the walks before it have
    gone,      \* the files that were removed
    result,    \* what is listed
    truncated, \* whether the answer says that there is more
    cut,       \* history: the walk stopped early
    rg         \* ripgrep answered

vars == <<call, pc, todo, at, found, all, gone, result, truncated, cut, rg>>

tree    == call.tree
Entries == DOMAIN tree
Files   == {i \in Entries : ~tree[i].dir}

Path[i \in 0..Len(tree)] == IF i = 0 THEN {} ELSE {i} \cup Path[tree[i].up]

\* filepath.SkipDir: the first entry that is not in the directory.
After(i) == Max({j \in Entries : i \in Path[j]}) + 1

-----------------------------------------------------------------------------
(* Names.                                                                  *)

RECURSIVE expandBraces(_)
expandBraces(p) ==
    LET open  == SelectInSeq(p, LAMBDA c : c = "{")
        close == SelectInSeq(p, LAMBDA c : c = "}")
        commas == {i \in (open + 1)..(close - 1) : p[i] = ","} \cup {open, close}
        ends   == SetToSortSeq(commas, <)
        options == [i \in 1..(Len(ends) - 1) |-> SubSeq(p, ends[i] + 1, ends[i + 1] - 1)]
        one(o)  == SubSeq(p, 1, open - 1) \o o \o SubSeq(p, close + 1, Len(p))
    IN  IF open = 0 \/ close = 0 \/ close < open THEN <<p>>
        ELSE FlattenSeq([i \in DOMAIN options |-> expandBraces(one(options[i]))])

\* isHidden: of the path, so that everything below a hidden directory is.
isHidden(i) == call.below \/ \E j \in Path[i] : tree[j].hidden

\* The patterns of the ignore files, the first that matches decides.
Matches(i, pattern) == Path[i] \cap pattern.hits # {}
shouldIgnore(i) ==
    LET first == SelectInSeq(call.ignore, LAMBDA x : Matches(i, x))
    IN  first # 0 /\ ~call.ignore[first].negated

\* ripgrep: the last one does.
RgIgnores(i) ==
    LET last == SelectLastInSeq(call.ignore, LAMBDA x : Matches(i, x))
    IN  last # 0 /\ ~call.ignore[last].negated

\* ls: any one does, and it names its entries by themselves.
LsSkips(i) == tree[i].hidden \/ \E n \in DOMAIN call.ignore : i \in call.ignore[n].hits

Included(i) == call.means = {} \/ call.means \cap tree[i].fits # {}

-----------------------------------------------------------------------------
(* What is cut off: all that is kept is at least as new as what is not.    *)

Time(x) == tree[x[1]].time
\* Variant: cut first, in the order in which the files were found.
NewestOfFirst(S, n) ==
    {K \in kSubset(Min({n, Cardinality(S)}), S) : \A x \in K, y \in S \ K : x[1] <= y[1]}

Newest(S, n) ==
    {K \in kSubset(Min({n, Cardinality(S)}), S) : \A x \in K, y \in S \ K : Time(x) >= Time(y)}

Init ==
    /\ call \in Calls
    /\ pc = "new" /\ todo = <<>> /\ at = 1
    /\ found = {} /\ all = {} /\ gone = {}
    /\ result = {} /\ truncated = FALSE /\ cut = FALSE /\ rg = FALSE

\* Variant: one too many is not worth a word.
FinishQuiet(S) ==
    /\ pc' = "done"
    /\ result' \in Newest(S, call.limit)
    /\ truncated' = (Cardinality(S) > call.limit + 1)

Finish(S) ==
    /\ pc' = "done"
    /\ result' \in Newest(S, call.limit)
    /\ truncated' = (truncated \/ Cardinality(S) > call.limit)

-----------------------------------------------------------------------------
(* glob                                                                    *)

Braces(p) == Contains(p, "{") /\ Contains(p, "}")

\* A pattern with braces is several, looked for without a limit.
Glob ==
    /\ pc = "new" /\ call.tool = "glob" /\ pc' = "walk"
    /\ todo' = IF Braces(call.pattern) THEN expandBraces(call.pattern) ELSE <<call.pattern>>
    /\ UNCHANGED <<call, at, found, all, gone, result, truncated, cut, rg>>

Limit == IF Braces(call.pattern) THEN 0 ELSE call.limit

Walking(tool) == pc = "walk" /\ call.tool = tool /\ at \in Entries

Continue(i) == at' = i /\ UNCHANGED <<call, pc, todo, all, gone, result, truncated, cut, rg>>

Stop ==
    /\ at' = Len(tree) + 1 /\ cut' = TRUE
    /\ UNCHANGED <<call, pc, todo, all, gone, result, rg>>

\* filepath.Walk goes on when an entry is gone.
Passes(i) == i \in gone \/ (~tree[i].dir /\ isHidden(i))
Enters(i) == tree[i].dir /\ i \notin gone

\* globWithDoublestar
WalkGlob ==
    /\ Walking("glob") /\ call.deep
    /\ IF Enters(at)
       THEN found' = found /\ Continue(IF isHidden(at) THEN After(at) ELSE at + 1)
       ELSE IF Passes(at) \/ Head(todo) \notin tree[at].fits
       THEN found' = found /\ Continue(at + 1)
       ELSE /\ found' = found \cup {<<at, 1>>}
            /\ IF Limit > 0 /\ Cardinality(found') > 2 * Limit
               THEN Stop /\ truncated' = TRUE
               ELSE Continue(at + 1)

\* filepath.Glob reads the directory, then each match is looked at.
GlobOnce ==
    /\ Walking("glob") /\ ~call.deep
    /\ found' = {<<i, 1>> : i \in {j \in Files \ gone :
                     tree[j].up = 0 /\ Head(todo) \in tree[j].fits /\ ~isHidden(j)}}
    /\ Continue(Len(tree) + 1)

\* With braces, what was found is looked at once more, and the next pattern follows.
NextPattern ==
    /\ pc = "walk" /\ call.tool = "glob" /\ at \notin Entries
    /\ LET still == IF Braces(call.pattern) THEN {x \in found : x[1] \notin gone} ELSE found
       IN  IF Tail(todo) # <<>>
           THEN /\ all' = all \cup still
                /\ UNCHANGED <<pc, result, truncated>>
           ELSE Finish(all \cup still) /\ all' = all
    /\ todo' = Tail(todo) /\ at' = 1 /\ found' = {}
    /\ UNCHANGED <<call, gone, cut, rg>>

-----------------------------------------------------------------------------
(* grep                                                                    *)

LinesOf(S) == {<<i, n>> : i \in S, n \in 1..4} \cap UNION {{i} \X (1..tree[i].lines) : i \in S}

\* searchWithRipgrep: every line that matches, of files it can still look at.
Ripgrep ==
    /\ pc = "new" /\ call.tool = "grep" /\ pc' = "stat" /\ rg' = TRUE
    /\ found' = LinesOf({i \in Files \ gone : Included(i) /\ ~RgIgnores(i)
                                              /\ \A j \in Path[i] : ~tree[j].hidden})
    /\ UNCHANGED <<call, todo, at, all, gone, result, truncated, cut>>

StatMatches ==
    /\ pc = "stat"
    /\ found' = {x \in found : x[1] \notin gone}
    /\ Finish(found')
    /\ UNCHANGED <<call, todo, at, all, gone, cut, rg>>

\* There is no ripgrep, or it fails: searchFilesWithRegex.
RipgrepFails ==
    /\ pc = "new" /\ call.tool = "grep" /\ pc' = "walk"
    /\ UNCHANGED <<call, todo, at, found, all, gone, result, truncated, cut, rg>>

\* The first line of each file that matches.
WalkRegex ==
    /\ Walking("grep")
    /\ IF Enters(at)
       THEN found' = found /\ Continue(IF isHidden(at) THEN After(at) ELSE at + 1)
       ELSE IF Passes(at) \/ shouldIgnore(at) \/ ~Included(at) \/ tree[at].lines = 0
       THEN found' = found /\ Continue(at + 1)
       ELSE /\ found' = found \cup {<<at, 1>>}
            /\ IF Cardinality(found') >= 2 * call.limit
               THEN Stop /\ UNCHANGED truncated
               ELSE Continue(at + 1)

EndRegex ==
    /\ pc = "walk" /\ call.tool = "grep" /\ at \notin Entries
    /\ Finish(found)
    /\ UNCHANGED <<call, todo, at, found, all, gone, cut, rg>>

\* glob's walks and the one of grep end with the context.
Cancel ==
    /\ pc = "walk" /\ (call.tool = "grep" \/ (call.tool = "glob" /\ call.deep)) /\ at \in Entries
    /\ pc' = "error"
    /\ UNCHANGED <<call, todo, at, found, all, gone, result, truncated, cut, rg>>

-----------------------------------------------------------------------------
(* ls                                                                      *)

List ==
    /\ pc = "new" /\ call.tool = "ls" /\ pc' = "walk"
    /\ UNCHANGED <<call, todo, at, found, all, gone, result, truncated, cut, rg>>

\* listDirectory: an entry too many ends the walk.
WalkList ==
    /\ Walking("ls")
    /\ IF at \in gone \/ LsSkips(at)
       THEN found' = found /\ Continue(IF Enters(at) THEN After(at) ELSE at + 1)
       ELSE IF Cardinality(found) >= call.limit
       THEN found' = found /\ Stop /\ truncated' = TRUE
       ELSE found' = found \cup {<<at, 1>>} /\ Continue(at + 1)

\* createFileTree: the entries and the directories on the way to them.
createFileTree(S) == {<<i, 1>> : i \in UNION {Path[x[1]] : x \in S}}

EndList ==
    /\ pc = "walk" /\ call.tool = "ls" /\ at \notin Entries
    /\ pc' = "done" /\ result' = createFileTree(found)
    /\ UNCHANGED <<call, todo, at, found, all, gone, truncated, cut, rg>>

\* Somebody else removes a file.
Unlink ==
    /\ Cardinality(gone) < MaxRemoved /\ pc \notin {"done", "error"}
    /\ \E i \in Files \ gone : gone' = gone \cup {i}
    /\ UNCHANGED <<call, pc, todo, at, found, all, result, truncated, cut, rg>>

Terminated == pc \in {"done", "error"} /\ UNCHANGED vars

Next ==
    \/ Glob \/ WalkGlob \/ GlobOnce \/ NextPattern
    \/ Ripgrep \/ StatMatches \/ RipgrepFails \/ WalkRegex \/ EndRegex \/ Cancel
    \/ List \/ WalkList \/ EndList
    \/ Unlink \/ Terminated

Spec == Init /\ [][Next]_vars

-----------------------------------------------------------------------------
(* What must hold.                                                         *)

\* What the call asks for: the files that match, in the tree at the start.
Visible(i) == \A j \in Path[i] : ~tree[j].hidden

Wanted ==
    CASE call.tool = "glob" -> {i \in Files : Visible(i) /\ Included(i) /\ (call.deep \/ tree[i].up = 0)}
      [] call.tool = "grep" -> {i \in Files : /\ Visible(i) /\ Included(i) /\ tree[i].lines > 0
                                              /\ ~(IF rg THEN RgIgnores(i) ELSE shouldIgnore(i))}
      [] call.tool = "ls"   -> {i \in Entries : \A k \in Path[i] : ~LsSkips(k)}

\* What an answer counts and its limit cuts: files, but with ripgrep the lines
\* that match (grep.go:271), although the tool's text speaks of files
\* (grep.go:123 "limited to 100 files", grep.go:223 "Found matches in %d files").
Counted == IF rg THEN LinesOf(Wanted) ELSE {<<i, 1>> : i \in Wanted}
Staying == {x \in Counted : x[1] \notin gone}
Listed  == {x[1] : x \in result}

\* An answer that does not say it is truncated lists every file that was asked
\* for and is still there, and with ripgrep each of its lines; one that says so
\* is full, and there is more: more files, or with ripgrep more lines, which
\* need not be of another file; and none lists anything else (glob.go:147-303,
\* grep.go:255-277, ls.go:177-256).  The walks of glob and grep find nothing
\* below a hidden directory.
Complete ==
    pc = "done" =>
        /\ result \subseteq Counted
        /\ ~truncated /\ (~call.below \/ rg \/ call.tool = "ls") =>
              Wanted \ gone \subseteq Listed /\ Staying \subseteq result
        /\ truncated => /\ Cardinality(result) = call.limit
                        /\ IF rg THEN Cardinality(LinesOf(Wanted)) > call.limit
                           ELSE Cardinality(Wanted) > call.limit

\* Nothing that is left out is newer than something that is listed, unless the
\* walk had found twice the limit and stopped (glob.go:274-302, grep.go:266-276).
NewestFirst ==
    pc = "done" /\ ~cut /\ call.tool # "ls" /\ ~call.below =>
        \A x \in result, y \in Staying \ result : Time(x) >= Time(y)
=============================================================================
