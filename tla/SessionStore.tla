---------------------------- MODULE SessionStore ----------------------------
(***************************************************************************)
(* The sessions and messages tables and everybody who uses them: the       *)
(* session service (session/session.go), the message service               *)
(* (message/message.go), the turns that add their cost to a session        *)
(* (agent.go, TrackUsage), the agent tool that adds a sub-agent's cost to  *)
(* its parent's session (agent-tool.go), and deletions.                    *)
(*                                                                         *)
(* A SQL statement is atomic, with its triggers and its foreign keys; the  *)
(* services run several statements, and publish their events, in steps of  *)
(* their own.  Costs are counted in charges of one per turn, the parts of  *)
(* a message by a revision number its writer increases.                    *)
(***************************************************************************)
EXTENDS Integers, FiniteSets

CONSTANTS Roots,          \* ids that uuid gives to top-level sessions
          Tasks,          \* tool calls of the agent tool: ids of task sessions
          ParentOf,       \* the session whose run makes the tool call
          Turns,          \* turns of runs: each tracks its usage once
          SessionOfTurn,  \* the session of each turn
          Messages,       \* ids that uuid gives to messages
          MaxRev,         \* bound: revisions of a message
          Deleters,       \* users that delete
          Absent          \* no row

Ids == Roots \cup Tasks

Session == [parent : Roots \cup {Absent}, count : Int, cost : Nat]
Message == [session : Ids, rev : 1..MaxRev]

ASSUME TablesAssumption ==
    /\ Roots \cap Tasks = {}
    /\ ParentOf \in [Tasks -> Roots]
    /\ SessionOfTurn \in [Turns -> Ids]
    /\ MaxRev \in Nat \ {0}
    /\ IsFiniteSet(Turns) /\ IsFiniteSet(Messages)
    /\ Absent \notin Session \cup Message

VARIABLES
    sessions,   \* the sessions table
    messages,   \* the messages table
    used,       \* the ids that were ever inserted into sessions
    turn,       \* where each turn is in TrackUsage, and the session it read
    task,       \* where each call of the agent tool is, and what it read
    writer,     \* each message's writer: the revision it holds, unannounced or not
    deleter,    \* what each deleter is at
    view        \* the messages as a subscriber to all events has them

vars == <<sessions, messages, used, turn, task, writer, deleter, view>>
actors == <<turn, task, writer, deleter>>

TypeOK ==
    /\ sessions \in [Ids -> Session \cup {Absent}]
    /\ messages \in [Messages -> Message \cup {Absent}]
    /\ used \subseteq Ids
    /\ turn \in [Turns -> [at : {"get", "save", "done", "failed"}, read : Session \cup {Absent}]]
    /\ task \in [Tasks -> [at : {"create", "run", "getParent", "save", "done", "failed"},
                           cost : Nat, read : Session \cup {Absent}]]
    /\ writer \in [Messages -> [rev : 0..MaxRev, announced : BOOLEAN]]
    /\ deleter \in [Deleters -> [at : {"idle", "session", "get", "delete", "announce"},
                                 todo : SUBSET Messages, id : Messages \cup Ids \cup {Absent}]]
    /\ view \in [Messages -> 0..MaxRev]

Idle == [at |-> "idle", todo |-> {}, id |-> Absent]

Init ==
    /\ sessions = [s \in Ids |-> Absent]
    /\ messages = [m \in Messages |-> Absent]
    /\ used     = {}
    /\ turn     = [u \in Turns |-> [at |-> "get", read |-> Absent]]
    /\ task     = [t \in Tasks |-> [at |-> "create", cost |-> 0, read |-> Absent]]
    /\ writer   = [m \in Messages |-> [rev |-> 0, announced |-> TRUE]]
    /\ deleter  = [d \in Deleters |-> Idle]
    /\ view     = [m \in Messages |-> 0]

-----------------------------------------------------------------------------
(* The statements (db/sql/*.sql) with the triggers and foreign keys of     *)
(* db/migrations.                                                          *)

In(s) == {m \in Messages : messages[m] # Absent /\ messages[m].session = s}

\* INSERT INTO sessions; a second row of the same id is refused.
InsertSession(s, p) ==
    /\ sessions[s] = Absent
    /\ sessions' = [sessions EXCEPT ![s] = [parent |-> p, count |-> 0, cost |-> 0]]
    /\ used' = used \cup {s}

\* Variant: the statement writes back the count the caller read.
UpdateSessionCount(s, row) ==
    /\ sessions[s] # Absent
    /\ sessions' = [sessions EXCEPT ![s] = row]

\* Variant: the statement adds the caller's cost to the row's.
UpdateSessionAdds(s, row) ==
    /\ sessions[s] # Absent
    /\ sessions' = [sessions EXCEPT ![s].cost = @ + row.cost]

\* Variant: a row that is not there is inserted.
UpdateSessionUpserts(s, row) ==
    sessions' = [sessions EXCEPT ![s] = IF @ = Absent THEN [row EXCEPT !.count = 0]
                                        ELSE [@ EXCEPT !.cost = row.cost]]

\* UPDATE sessions ... RETURNING *: no row is an error (sql.ErrNoRows); the
\* count and the parent are not among the columns it sets.
UpdateSession(s, row) ==
    /\ sessions[s] # Absent
    /\ sessions' = [sessions EXCEPT ![s].cost = row.cost]

\* Variant: the foreign keys are not enforced.
DropSessionOnly(s) ==
    /\ sessions' = [sessions EXCEPT ![s] = Absent]
    /\ UNCHANGED messages

\* DELETE FROM sessions: the messages go with it (ON DELETE CASCADE).
DropSession(s) ==
    /\ sessions' = [sessions EXCEPT ![s] = Absent]
    /\ messages' = [m \in Messages |-> IF m \in In(s) THEN Absent ELSE messages[m]]

\* The triggers: no row is no error.
Count(s, n) == IF sessions[s] = Absent THEN UNCHANGED sessions
               ELSE sessions' = [sessions EXCEPT ![s].count = @ + n]

\* INSERT INTO messages: its session must exist, and counts it (trigger).
InsertMessage(m, s) ==
    /\ sessions[s] # Absent
    /\ messages' = [messages EXCEPT ![m] = [session |-> s, rev |-> 1]]
    /\ Count(s, 1)

\* UPDATE messages: no row is no error.
UpdateMessage(m, r) ==
    messages' = [messages EXCEPT ![m] = IF @ = Absent THEN @ ELSE [@ EXCEPT !.rev = r]]

\* DELETE FROM messages: no row is no error; the session is counted down.
DropMessage(m) ==
    /\ messages' = [messages EXCEPT ![m] = Absent]
    /\ IF messages[m] = Absent THEN UNCHANGED sessions ELSE Count(messages[m].session, -1)

-----------------------------------------------------------------------------
(* The session service and those who use it.                               *)

\* Create: uuid never gives an id twice.
CreateSession(s) ==
    /\ s \in Roots \ used
    /\ InsertSession(s, Absent)
    /\ UNCHANGED <<messages, actors, view>>

TurnAt(u, from, to) == turn[u].at = from /\ turn' = [turn EXCEPT ![u].at = to]

\* A sub-agent's turns happen while its tool waits for it.
Running(s) == s \in Tasks => task[s].at = "run"

\* TrackUsage reads the whole session ...
TrackGet(u) ==
    LET s == SessionOfTurn[u] IN
    /\ turn[u].at = "get" /\ sessions[s] # Absent /\ Running(s)
    /\ turn' = [turn EXCEPT ![u] = [at |-> "save", read |-> sessions[s]]]
    /\ UNCHANGED <<sessions, messages, used, task, writer, deleter, view>>

\* ... and saves it with this turn's cost added.
TrackSave(u) ==
    /\ turn[u].at = "save"
    /\ UpdateSession(SessionOfTurn[u], [turn[u].read EXCEPT !.cost = @ + 1])
    /\ turn' = [turn EXCEPT ![u] = [at |-> "done", read |-> Absent]]
    /\ UNCHANGED <<messages, used, task, writer, deleter, view>>

\* Either statement fails for want of the row.  (One that fails on a cancelled
\* context ends the turn as well: here the turn takes no further step.)
TrackFails(u) ==
    /\ turn[u].at \in {"get", "save"} /\ SessionOfTurn[u] \in used
    /\ sessions[SessionOfTurn[u]] = Absent
    /\ turn' = [turn EXCEPT ![u] = [at |-> "failed", read |-> Absent]]
    /\ UNCHANGED <<sessions, messages, used, task, writer, deleter, view>>

\* The agent tool makes a session of its own for the sub-agent; the parent
\* need not exist any more.
CreateTaskSession(t) ==
    /\ task[t].at = "create" /\ ParentOf[t] \in used
    /\ InsertSession(t, ParentOf[t])
    /\ task' = [task EXCEPT ![t].at = "run"]
    /\ UNCHANGED <<messages, turn, writer, deleter, view>>

\* When the sub-agent's run is over the tool reads what it cost ...
TaskGetChild(t) ==
    /\ task[t].at = "run" /\ sessions[t] # Absent
    /\ \A u \in Turns : SessionOfTurn[u] = t => turn[u].at # "save"
    /\ task' = [task EXCEPT ![t].at = "getParent", ![t].cost = sessions[t].cost]
    /\ UNCHANGED <<sessions, messages, used, turn, writer, deleter, view>>

\* ... reads the parent's session ...
TaskGetParent(t) ==
    /\ task[t].at = "getParent" /\ sessions[ParentOf[t]] # Absent
    /\ task' = [task EXCEPT ![t].at = "save", ![t].read = sessions[ParentOf[t]]]
    /\ UNCHANGED <<sessions, messages, used, turn, writer, deleter, view>>

\* ... and saves it with the sub-agent's cost added.
TaskSave(t) ==
    /\ task[t].at = "save"
    /\ UpdateSession(ParentOf[t], [task[t].read EXCEPT !.cost = @ + task[t].cost])
    /\ task' = [task EXCEPT ![t] = [at |-> "done", cost |-> 0, read |-> Absent]]
    /\ UNCHANGED <<messages, used, turn, writer, deleter, view>>

\* A statement fails for want of its row.
TaskFails(t) ==
    /\ \/ task[t].at = "run" /\ sessions[t] = Absent
       \/ task[t].at \in {"getParent", "save"} /\ sessions[ParentOf[t]] = Absent
    /\ task' = [task EXCEPT ![t] = [at |-> "failed", cost |-> 0, read |-> Absent]]
    /\ UNCHANGED <<sessions, messages, used, turn, writer, deleter, view>>

-----------------------------------------------------------------------------
(* The message service.  A message has one writer, the run that created it.*)

\* Create, whose event is published after the statement.
CreateMessage(m, s) ==
    /\ writer[m].rev = 0 /\ s \in used
    /\ InsertMessage(m, s)
    /\ writer' = [writer EXCEPT ![m] = [rev |-> 1, announced |-> FALSE]]
    /\ UNCHANGED <<used, turn, task, deleter, view>>

\* Variant: the event goes out whether or not the statement succeeds.
UpdateAnyway(m) ==
    /\ writer[m].rev \in 1..(MaxRev - 1) /\ writer[m].announced
    /\ UpdateMessage(m, writer[m].rev + 1) \/ UNCHANGED messages
    /\ writer' = [writer EXCEPT ![m].rev = @ + 1, ![m].announced = FALSE]
    /\ UNCHANGED <<sessions, used, turn, task, deleter, view>>

\* Update, with the writer's next revision.  When the statement fails nothing
\* is published, and the writer goes on from its own copy.
Update(m) ==
    /\ writer[m].rev \in 1..(MaxRev - 1) /\ writer[m].announced
    /\ \/ /\ UpdateMessage(m, writer[m].rev + 1)
          /\ writer' = [writer EXCEPT ![m].rev = @ + 1, ![m].announced = FALSE]
       \/ /\ writer' = [writer EXCEPT ![m].rev = @ + 1]
          /\ UNCHANGED messages
    /\ UNCHANGED <<sessions, used, turn, task, deleter, view>>

\* The writer's own copy is what the event carries.
Announce(m) ==
    /\ ~writer[m].announced
    /\ writer' = [writer EXCEPT ![m].announced = TRUE]
    /\ view'   = [view EXCEPT ![m] = writer[m].rev]
    /\ UNCHANGED <<sessions, messages, used, turn, task, deleter>>

-----------------------------------------------------------------------------
(* Deletions.                                                              *)

Deleting(d, job) == deleter' = [deleter EXCEPT ![d] = job]

\* Delete of a session first gets it.
DeleteSession(d, s) ==
    /\ deleter[d].at = "idle" /\ sessions[s] # Absent
    /\ Deleting(d, [Idle EXCEPT !.at = "session", !.id = s])
    /\ UNCHANGED <<sessions, messages, used, turn, task, writer, view>>

DeleteSessionRow(d) ==
    /\ deleter[d].at = "session"
    /\ DropSession(deleter[d].id)
    /\ Deleting(d, Idle)
    /\ UNCHANGED <<used, turn, task, writer, view>>

\* DeleteSessionMessages lists the session's messages and deletes them one by
\* one; Delete is the same for a list of one.
DeleteMessages(d, todo) ==
    /\ deleter[d].at = "idle" /\ todo # {}
    /\ Deleting(d, [Idle EXCEPT !.at = "get", !.todo = todo])
    /\ UNCHANGED <<sessions, messages, used, turn, task, writer, view>>

\* Each is read first; one that is gone ends the whole operation.
GetMessage(d, m) ==
    /\ deleter[d].at = "get" /\ m \in deleter[d].todo
    /\ Deleting(d, IF messages[m] = Absent THEN Idle
                   ELSE [deleter[d] EXCEPT !.at = "delete", !.id = m])
    /\ UNCHANGED <<sessions, messages, used, turn, task, writer, view>>

DeleteMessage(d) ==
    /\ deleter[d].at = "delete"
    /\ DropMessage(deleter[d].id)
    /\ Deleting(d, [deleter[d] EXCEPT !.at = "announce"])
    /\ UNCHANGED <<used, turn, task, writer, view>>

AnnounceDeleted(d) ==
    /\ deleter[d].at = "announce"
    /\ view' = [view EXCEPT ![deleter[d].id] = 0]
    /\ LET left == deleter[d].todo \ {deleter[d].id} IN
       Deleting(d, IF left = {} THEN Idle ELSE [Idle EXCEPT !.at = "get", !.todo = left])
    /\ UNCHANGED <<sessions, messages, used, turn, task, writer>>

-----------------------------------------------------------------------------
TurnStep(u) == TrackGet(u) \/ TrackSave(u) \/ TrackFails(u)
TaskStep(t) == CreateTaskSession(t) \/ TaskGetChild(t) \/ TaskGetParent(t) \/ TaskSave(t)
                   \/ TaskFails(t)
WriterStep(m) == (\E s \in Ids : CreateMessage(m, s)) \/ Update(m) \/ Announce(m)
DeleterStep(d) ==
    \/ \E s \in Ids : DeleteSession(d, s) \/ DeleteMessages(d, In(s))
    \/ \E m \in Messages : DeleteMessages(d, {m}) \/ GetMessage(d, m)
    \/ DeleteSessionRow(d) \/ DeleteMessage(d) \/ AnnounceDeleted(d)

Next ==
    \/ \E s \in Roots : CreateSession(s)
    \/ \E u \in Turns : TurnStep(u)
    \/ \E t \in Tasks : TaskStep(t)
    \/ \E m \in Messages : WriterStep(m)
    \/ \E d \in Deleters : DeleterStep(d)

Spec == Init /\ [][Next]_vars

-----------------------------------------------------------------------------
(* What must hold.                                                         *)

\* message_count is the number of the session's messages, although turns and
\* tools save sessions they read before messages came and went, and sessions
\* and messages are deleted under each other (the triggers of
\* 20250424200609_initial.sql against UpdateSession).
CountsMessages ==
    \A s \in Ids : sessions[s] # Absent => sessions[s].count = Cardinality(In(s))

\* No message outlives its session, or is created in one that is gone, when a
\* run goes on after its session was deleted.
NoOrphans ==
    \A m \in Messages : messages[m] # Absent => sessions[messages[m].session] # Absent

\* A deleted session stays deleted: no turn or tool that still holds a copy
\* brings it back by saving it.
DeletedStaysDeleted ==
    [][\A s \in used : sessions[s] = Absent => sessions'[s] = Absent]_vars

\* A session never costs more than the turns that were charged to it and, once
\* their tools added them, to its tasks: concurrent read-and-save of TrackUsage
\* and of the agent tool may lose a charge, but never counts one twice
\* (agent.go:634-648, agent-tool.go:80-91).
CostNeverTooHigh ==
    \A s \in Ids : sessions[s] # Absent =>
        sessions[s].cost <= Cardinality({u \in Turns :
            /\ turn[u].at = "done"
            /\ SessionOfTurn[u] = s \/ \E t \in Tasks :
                  t = SessionOfTurn[u] /\ ParentOf[t] = s /\ task[t].at = "done"})

\* A subscriber that keeps up has every stored message as it is stored, once
\* its writer has announced what it did; a failed statement is never shown.
ViewFollows ==
    \A m \in Messages :
        messages[m] # Absent /\ writer[m].announced => view[m] = messages[m].rev
=============================================================================
