------------------------------ MODULE TextView -------------------------------
(***************************************************************************)
(* What view shows of a text (llm/tools/view.go): so many of its lines     *)
(* from an offset on, and a note when there are more.  A text is a         *)
(* sequence of letters, line feeds "LF" and carriage returns "CR".         *)
(***************************************************************************)
EXTENDS Naturals, Sequences, FiniteSets, SequencesExt, FiniteSetsExt

DefaultReadLimit == 2000

WithoutCR(line) == IF line # <<>> /\ Last(line) = "CR" THEN Front(line) ELSE line

\* bufio.ScanLines: a line ends with a line feed or, if it is not empty, the
\* text; the next one ends where the next end is.
LineEnds(t) ==
    {i \in DOMAIN t : t[i] = "LF"} \cup (IF t # <<>> /\ Last(t) # "LF" THEN {Len(t) + 1} ELSE {})

ScanLines(t) ==
    LET ends == LineEnds(t)
        end[k \in 0..Cardinality(ends)] ==
            IF k = 0 THEN 0 ELSE Min({e \in ends : e > end[k - 1]})
    IN  [k \in 1..Cardinality(ends) |-> WithoutCR(SubSeq(t, end[k - 1] + 1, end[k] - 1))]

\* Variant: the lines that were skipped count twice.
ReadCountsTwice(t, offset, limit) ==
    LET all == ScanLines(t)
    IN  [lines |-> SubSeq(all, offset + 1, Min({offset + limit, Len(all)})), count |-> Len(all) + offset]

\* The scan that finds the limit reached has taken one more line, which is not counted.
readTextFile(t, offset, limit) ==
    LET all   == ScanLines(t)
        shown == SubSeq(all, offset + 1, Min({offset + limit, Len(all)}))
        after == Len(all) - Min({offset + limit + 1, Len(all)})
    IN  [lines |-> shown, count |-> offset + Len(shown) + after]

\* The lines that were read, as the text that is shown has them: those at the
\* end that are empty do not count.
LinesRead(lines) == Max({1} \cup {i \in DOMAIN lines : lines[i] # <<>>})

\* How many more lines the note says there are; no note is 0.
MoreLines(v, offset, limit) ==
    LET read == LinesRead(v.lines)
    IN  IF read = limit /\ v.count > offset + read THEN v.count - (offset + read) ELSE 0
=============================================================================
