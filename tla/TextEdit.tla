------------------------------ MODULE TextEdit ------------------------------
(***************************************************************************)
(* How the edit and multiedit tools change a text (llm/tools/edit.go,      *)
(* multiedit.go), with what they use of Go's strings package.  A text is a *)
(* sequence of characters, of which only "CR" and "LF" mean something.  An *)
(* operator that may refuse returns a set: {} when it refuses, otherwise   *)
(* the one text that it makes.                                             *)
(***************************************************************************)
EXTENDS Naturals, FiniteSets, SequencesExt

CRLF == <<"CR", "LF">>

-----------------------------------------------------------------------------
(* Package strings.                                                        *)

\* Where o begins in t: the first is Index, the last is LastIndex.
Places(t, o) == {i \in 1..(Len(t) + 1 - Len(o)) : SubSeq(t, i, i + Len(o) - 1) = o}

\* The occurrences that Count counts and Replace replaces: from the left, and
\* none that overlaps one before it.
Taken(t, o) ==
    LET taken[i \in DOMAIN t] ==
            i \in Places(t, o) /\ \A j \in DOMAIN t : j < i /\ i < j + Len(o) => ~taken[j]
    IN  {i \in DOMAIN t : taken[i]}

\* t with n for the o at each of the places.
Splice(t, places, o, n) ==
    FlattenSeq([i \in DOMAIN t |->
        IF i \in places THEN n
        ELSE IF \E j \in places : j < i /\ i < j + Len(o) THEN <<>>
        ELSE <<t[i]>>])

ReplaceEvery(t, o, n) == Splice(t, Taken(t, o), o, n)

-----------------------------------------------------------------------------
(* The tools.  An edit is [old, new, all].                                 *)

\* replaceContent, and deleteContent where e.new is empty: strings.Count must
\* say one, and something must change.
EditText(t, e) ==
    LET places == Taken(t, e.old) IN
    {r \in {Splice(t, places, e.old, e.new)} :
        /\ places # {}
        /\ e.all \/ Cardinality(places) = 1
        /\ r # t}

\* Variant: unique for strings.Count is unique enough.
applyEditCounting(t, e) ==
    LET places == Taken(t, e.old) IN
    {r \in {Splice(t, places, e.old, e.new)} : places # {}}

\* multiedit: the first index and the last must be one, unless all are meant.
applyEditToContent(t, e) ==
    LET places == IF e.all THEN Taken(t, e.old) ELSE Places(t, e.old) IN
    {r \in {Splice(t, places, e.old, e.new)} :
        places # {} /\ (e.all \/ Cardinality(places) = 1)}

\* Each edit works on what the one before it made; one that fails ends it.
ApplyEdits(t, edits) ==
    LET after[i \in 0..Len(edits)] ==
            IF i = 0 THEN {t} ELSE UNION {applyEditToContent(r, edits[i]) : r \in after[i - 1]}
    IN  after[Len(edits)]

normalizeLineEndings(t) == ReplaceEvery(t, CRLF, <<"LF">>)

\* Variant: the line endings stay as the edits left them.
RestoreNothing(t, r) == r

\* The style of the file, as one occurrence of CRLF decides it.
RestoreLineEndings(t, r) ==
    IF Places(t, CRLF) # {} THEN ReplaceEvery(r, <<"LF">>, CRLF) ELSE r

\* processMultiEditExistingFile; the edits must change something.
MultiEditText(t, edits) ==
    LET old == normalizeLineEndings(t) IN
    {RestoreLineEndings(t, r) : r \in ApplyEdits(old, edits) \ {old}}

\* processMultiEditWithCreation: the first edit brings the text.
CreateText(edits) == ApplyEdits(edits[1].new, Tail(edits))

\* What Run and validateEdits accept.
validateEdits(edits) ==
    /\ edits # <<>>
    /\ \A i \in DOMAIN edits : edits[i].old # edits[i].new /\ (i > 1 => edits[i].old # <<>>)
=============================================================================
