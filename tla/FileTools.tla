----------------------------- MODULE FileTools -----------------------------
(***************************************************************************)
(* Calls of the tools that work on one file: view, write, edit and         *)
(* multiedit (llm/tools/*.go), with the records of file.go.  Each of them  *)
(* looks, reads, computes and writes with no lock; os.WriteFile truncates  *)
(* the file and then writes from its start.  The calls of one run follow   *)
(* each other; those of several runs, and one that a cancelled run left    *)
(* behind, overlap with others.                                            *)
(***************************************************************************)
EXTENDS TextEdit, TextView

CONSTANTS N,        \* the calls are 1..N, in the order of the model's messages
          Jobs,     \* [file, of, serial]: a file, a request per call, one run?
          Chars,    \* what texts are made of
          Absent,   \* no file
          MaxReadSize  \* of a file that view reads

Texts == Seq(Chars)

\* The parameters of the tools: edit has one edit, multiedit has them in order.
IsRequest(r) ==
    \/ r \in [tool : {"view"}, offset : Nat, limit : Nat]
    \/ r \in [tool : {"write"}, text : Texts]
    \/ /\ r \in [tool : {"edit", "multiedit"}, edits : Seq([old : Texts, new : Texts, all : BOOLEAN])]
       /\ r.tool = "edit" => Len(r.edits) = 1

ASSUME TextsAssumption == {"CR", "LF"} \subseteq Chars /\ Absent \notin Texts

ASSUME JobsAssumption ==
    /\ N \in Nat
    /\ \A j \in Jobs : /\ j.file \in Texts \cup {Absent} /\ j.serial \in BOOLEAN
                      /\ DOMAIN j.of = 1..N /\ \A c \in 1..N : IsRequest(j.of[c])

Calls == 1..N

VARIABLES
    job,        \* which of the jobs this is
    file,       \* the text of the file
    at,         \* where each call is
    base,       \* what a call found in the file
    out,        \* what it is to write
    answer,     \* what it answers
    records     \* fileRecords: what is known of the file

vars == <<job, file, at, base, out, answer, records>>

Init ==
    /\ job \in Jobs
    /\ file    = job.file
    /\ at      = [c \in Calls |-> "new"]
    /\ base    = [c \in Calls |-> Absent]
    /\ out     = [c \in Calls |-> <<>>]
    /\ answer  = [c \in Calls |-> "none"]
    /\ records = {}

-----------------------------------------------------------------------------
Request(c) == job.of[c]
Tool(c)    == Request(c).tool

Editing(r)  == r.tool \in {"edit", "multiedit"}
Creating(r) == Editing(r) /\ r.edits # <<>> /\ r.edits[1].old = <<>>

\* The text a request makes of an existing file's; {} if it refuses.
TextFrom(r, t) == CASE r.tool = "write"     -> {r.text}
                    [] r.tool = "edit"      -> EditText(t, r.edits[1])
                    [] r.tool = "multiedit" -> MultiEditText(t, r.edits)

\* The text a request gives a file that is not there.
NewText(r) == IF r.tool = "write" THEN {r.text}
              ELSE IF Creating(r) THEN CreateText(r.edits) ELSE {}

Goto(c, from, to) == at[c] = from /\ at' = [at EXCEPT ![c] = to]

Answer(c, from, a) == Goto(c, from, "done") /\ answer' = [answer EXCEPT ![c] = a]

\* The request goes on with one of the texts, or is refused.
Proceed(c, from, texts) ==
    \/ /\ texts = {} /\ Answer(c, from, "refused")
       /\ UNCHANGED out
    \/ /\ Goto(c, from, "open") /\ out' \in {[out EXCEPT ![c] = t] : t \in texts}
       /\ UNCHANGED answer

\* The parameters are looked at first.
Begin(c) ==
    /\ job.serial => \A d \in 1..(c - 1) : at[d] = "done"
    /\ IF Editing(Request(c)) /\ ~validateEdits(Request(c).edits)
       THEN Answer(c, "new", "refused")
       ELSE Goto(c, "new", "stat") /\ UNCHANGED answer
    /\ UNCHANGED <<job, file, base, out, records>>

TooLarge(c) == Tool(c) = "view" /\ Len(file) > MaxReadSize

\* Variant: a creation does not mind what is there.
StatIgnoring(c) ==
    /\ IF file # Absent /\ ~Creating(Request(c)) /\ ~TooLarge(c)
       THEN Goto(c, "stat", "read") /\ UNCHANGED <<out, answer>>
       ELSE Proceed(c, "stat", NewText(Request(c)))
    /\ UNCHANGED <<job, file, base, records>>

\* os.Stat: a file that is there is read, unless it was to be created or is
\* too large to show.
Stat(c) ==
    /\ IF file # Absent /\ ~Creating(Request(c)) /\ ~TooLarge(c)
       THEN Goto(c, "stat", "read") /\ UNCHANGED <<out, answer>>
       ELSE Proceed(c, "stat", IF file = Absent THEN NewText(Request(c)) ELSE {})
    /\ UNCHANGED <<job, file, base, records>>

\* It fails, and not because there is no file: write goes on all the same.
StatFails(c) ==
    /\ IF Tool(c) = "write" THEN Proceed(c, "stat", {Request(c).text})
       ELSE Answer(c, "stat", "failed") /\ UNCHANGED out
    /\ UNCHANGED <<job, file, base, records>>

Limit(r) == IF r.limit = 0 THEN DefaultReadLimit ELSE r.limit

\* What view shows of a text.
View(r, t) == readTextFile(t, r.offset, Limit(r))

\* view shows what it reads;
ReadView(c) ==
    /\ Tool(c) = "view" /\ file # Absent
    /\ Goto(c, "read", "record")
    /\ base' = [base EXCEPT ![c] = file]
    /\ UNCHANGED <<job, file, out, answer, records>>

Same(c) == Tool(c) = "write" /\ file = Request(c).text

\* write compares, and does nothing if the file has its text already;
ReadSame(c) ==
    /\ Same(c)
    /\ Answer(c, "read", "unchanged")
    /\ base' = [base EXCEPT ![c] = file]
    /\ UNCHANGED <<job, file, out, records>>

\* otherwise the new text is computed from what was read.
Read(c) ==
    /\ Tool(c) # "view" /\ ~Same(c) /\ file # Absent
    /\ Proceed(c, "read", TextFrom(Request(c), file))
    /\ base' = [base EXCEPT ![c] = file]
    /\ UNCHANGED <<job, file, records>>

ReadFails(c) ==
    /\ Answer(c, "read", "failed")
    /\ UNCHANGED <<job, file, base, out, records>>

-----------------------------------------------------------------------------
(* os.MkdirAll, where there may be no directory, and os.WriteFile.         *)

Open(c) ==
    /\ Goto(c, "open", "put")
    /\ file' = <<>>
    /\ UNCHANGED <<job, base, out, answer, records>>

OpenFails(c) ==
    /\ Answer(c, "open", "failed")
    /\ UNCHANGED <<job, file, base, out, records>>

\* t written from the start of the file; what lies behind it stays.
Write(t) == file' = t \o SubSeq(file, Len(t) + 1, Len(file))

Put(c) ==
    /\ Goto(c, "put", "record")
    /\ Write(out[c])
    /\ UNCHANGED <<job, base, out, answer, records>>

\* It may fail with a part written: the old text is gone, too.
PutFails(c) ==
    /\ Answer(c, "put", "failed")
    /\ \E k \in 0..(Len(out[c]) - 1) : Write(SubSeq(out[c], 1, k))
    /\ UNCHANGED <<job, base, out, records>>

recordFileRead(rs)  == rs \cup {"read"}
recordFileWrite(rs) == rs \cup {"written"}

\* What was done is recorded.  Nothing looks at the records.
Record(c) ==
    /\ Answer(c, "record", "ok")
    /\ records' = recordFileRead(IF Tool(c) = "view" THEN records ELSE recordFileWrite(records))
    /\ UNCHANGED <<job, file, base, out>>

Next == \E c \in Calls :
    \/ Begin(c) \/ Stat(c) \/ StatFails(c)
    \/ ReadView(c) \/ ReadSame(c) \/ Read(c) \/ ReadFails(c)
    \/ Open(c) \/ OpenFails(c) \/ Put(c) \/ PutFails(c) \/ Record(c)

Spec == Init /\ [][Next]_vars

TypeOK ==
    /\ job \in Jobs
    /\ file \in Texts \cup {Absent}
    /\ at \in [Calls -> {"new", "stat", "read", "open", "put", "record", "done"}]
    /\ base \in [Calls -> Texts \cup {Absent}]
    /\ out \in [Calls -> Texts]
    /\ answer \in [Calls -> {"none", "refused", "failed", "unchanged", "ok"}]
    /\ records \subseteq {"read", "written"}

-----------------------------------------------------------------------------
(* What the tools say of themselves: reference definitions, apart from     *)
(* those of TextEdit.                                                      *)

Without(t, i, o, n) == SubSeq(t, 1, i) \o n \o SubSeq(t, i + Len(o) + 1, Len(t))

\* "All occurrences": from the left to the right.
AllReplaced(t, o, n) ==
    LET from[i \in 1..(Len(t) + Len(o))] ==
            IF i > Len(t) THEN <<>>
            ELSE IF IsPrefix(o, SubSeq(t, i, Len(t))) THEN n \o from[i + Len(o)]
            ELSE <<t[i]>> \o from[i + 1]
    IN  IF t = <<>> THEN <<>> ELSE from[1]

Occurrences(t, o) == {k \in 0..(Len(t) - Len(o)) : SubSeq(t, k + 1, k + Len(o)) = o}

\* "ONE occurrence", and no other apart from it.  With others that overlap it,
\* as "aa" in "aaa", it is the first: they are one to strings.Count
\* (edit.go:316), although edit.go:73 says "The tool will fail if old_string
\* matches multiple locations".
EditMeans(t, e) ==
    IF e.all THEN {AllReplaced(t, e.old, e.new)}
    ELSE {Without(t, i, e.old, e.new) : i \in {k \in Occurrences(t, e.old) :
              \A j \in Occurrences(t, e.old) : k <= j /\ j < k + Len(e.old)}}

\* "Each edit operates on the result of the previous edit."
EditsMean(t, edits) ==
    LET after[i \in 0..Len(edits)] ==
            IF i = 0 THEN {t} ELSE UNION {EditMeans(r, edits[i]) : r \in after[i - 1]}
    IN  after[Len(edits)]

\* Endings of the one kind and of the other: multiedit edits a text that has a
\* CRLF as if it had none, and gives all of the result's lines one.
Unix(t)    == FlattenSeq([i \in DOMAIN t |->
                  IF t[i] = "CR" /\ i < Len(t) /\ t[i + 1] = "LF" THEN <<>> ELSE <<t[i]>>])
Windows(t) == FlattenSeq([i \in DOMAIN t |-> IF t[i] = "LF" THEN CRLF ELSE <<t[i]>>])

\* What a request that is not refused makes of a file, or of none.
Means(r, t) ==
    CASE r.tool = "write" -> {r.text}
      [] Creating(r)      -> IF t = Absent THEN EditsMean(r.edits[1].new, Tail(r.edits)) ELSE {}
      [] r.tool = "edit" /\ ~Creating(r) -> IF t = Absent THEN {} ELSE EditMeans(t, r.edits[1])
      [] r.tool = "multiedit" /\ ~Creating(r) ->
             CASE t = Absent  -> {}
               [] t = Unix(t) -> EditsMean(t, r.edits)
               [] OTHER       -> {Windows(u) : u \in EditsMean(Unix(t), r.edits)}

\* What one that fails may leave, apart from what there was: a part of its text,
\* because os.WriteFile truncates before it writes.  TOOLS_SUMMARY.md:37 and
\* multiedit.go:56 promise that a failed edit leaves the file alone, which holds
\* of edits that are refused, not of one that cannot be written.
PartsOf(texts) == UNION {{SubSeq(t, 1, k) : k \in 0..(Len(t) - 1)} : t \in texts}

\* What there may be after a request with outcome a, if there was one of files.
After(r, a, files) ==
    LET meant == UNION {Means(r, t) : t \in files}
    IN  CASE a = "ok"     -> meant
          [] a = "failed" -> files \cup PartsOf(meant)
          [] OTHER        -> files

\* The files that the requests of job j may leave, one after the other.
LeftBy(j, outcome) ==
    LET after[c \in 0..N] ==
            IF c = 0 THEN {j.file} ELSE After(j.of[c], outcome[c], after[c - 1])
    IN  after[N]

\* view writes nothing.
Outcome == [c \in Calls |-> IF Tool(c) = "view" THEN "none" ELSE answer[c]]

Left == LeftBy(job, Outcome)

\* The calls that may have written.
Touching == {c \in Calls : Outcome[c] \in {"ok", "failed"}}

-----------------------------------------------------------------------------
(* What must hold.                                                         *)

Settled == \A c \in Calls : at[c] = "done"

\* When the calls follow each other, or when they overlap and only one of them
\* wrote, the file is what the accepted requests mean, applied in order; one
\* that could not be written left it as it was or cut short, and one that was
\* refused did nothing, none of its edits either (edit.go:299-339,
\* multiedit.go:266-306, write.go:114-158).
FileIsMeant ==
    Settled /\ (job.serial \/ Cardinality(Touching) <= 1) => file \in Left

\* What the edit tool makes of a text, called with one edit after the other.
Singly(t, edits) ==
    LET singly[i \in 0..Len(edits)] ==
            IF i = 0 THEN {t} ELSE UNION {EditText(r, edits[i]) : r \in singly[i - 1]}
    IN  singly[Len(edits)]

\* What multiedit is about to make of a file with Unix line endings, the edit
\* tool would have made of it with the same edits, one call each: multiedit
\* accepts nothing that edit refuses (multiedit.go:316-346, edit.go:305-325).
EditsAgree ==
    \A c \in Calls : /\ at[c] = "open" /\ Tool(c) = "multiedit"
                    /\ base[c] # Absent /\ base[c] = Unix(base[c])
        => out[c] \in Singly(base[c], Request(c).edits)

\* A request to create a file never touches one that was there all along
\* (edit.go:162-167, multiedit.go:202-203).
CreationsRefused ==
    \A c \in Calls : Creating(Request(c)) /\ job.file # Absent =>
        at[c] \notin {"open", "put", "record"} /\ answer[c] # "ok"

\* A text without its first n lines, and the number of its lines.
Rest(t, n) ==
    LET from[k \in 0..n] ==
            IF k = 0 THEN t
            ELSE LET s == from[k - 1]  feeds == {i \in DOMAIN s : s[i] = "LF"}
                 IN  IF feeds = {} THEN <<>> ELSE SubSeq(s, Min(feeds) + 1, Len(s))
    IN  from[n]

LineTotal(t) == Min({n \in 0..Len(t) : Rest(t, n) = <<>>})

\* view shows the lines it was asked for, whatever their endings, as far as they
\* go, and its note is right about the lines that remain, to one: with a note
\* there is one more than it says, and without one there is one at most, unless
\* the lines shown end with empty ones (view.go:202-209, view.go:275-290).
ViewTells ==
    \A c \in Calls : at[c] = "record" /\ Tool(c) = "view" =>
        LET r      == Request(c)
            v      == View(r, base[c])
            note   == MoreLines(v, r.offset, Limit(r))
            remain == Max({0, LineTotal(base[c]) - r.offset - Limit(r)})
        IN  /\ Len(v.lines) = Max({0, Min({Limit(r), LineTotal(base[c]) - r.offset})})
            /\ IsPrefix(FlattenSeq([k \in DOMAIN v.lines |-> Append(v.lines[k], "LF")]),
                        Append(Rest(WithoutCR(Unix(base[c])), r.offset), "LF"))
            /\ note > 0 => remain = note + 1
            /\ note = 0 /\ v.lines # <<>> /\ Last(v.lines) # <<>> => remain <= 1
=============================================================================
