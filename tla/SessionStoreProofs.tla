-------------------------- MODULE SessionStoreProofs --------------------------
(***************************************************************************)
(* The tables agree with each other, a deleted session stays deleted, a    *)
(* subscriber has the messages as they are stored and no charge is counted *)
(* twice: for any sessions, messages, turns, tools and deleters.           *)
(***************************************************************************)
EXTENDS SessionStore, FiniteSetTheorems, TLAPS

\* What the statements keep.
Tables ==
    /\ sessions \in [Ids -> Session \cup {Absent}]
    /\ messages \in [Messages -> Message \cup {Absent}]
    /\ NoOrphans
    /\ CountsMessages

\* Whoever is about to save or delete has what it saves or deletes.
Held ==
    /\ \A u \in Turns : turn[u].at = "save" => turn[u].read \in Session
    /\ \A t \in Tasks : task[t].at = "save" => task[t].read \in Session
    /\ \A d \in Deleters : deleter[d].at = "session" => deleter[d].id \in Ids
    /\ \A d \in Deleters : deleter[d].at \in {"delete", "announce"} => deleter[d].id \in Messages

\* An id is used once: for a session, a task session or a message.
Fresh ==
    /\ \A s \in Ids : sessions[s] # Absent => s \in used
    /\ \A t \in Tasks : task[t].at = "create" => t \notin used
    /\ \A m \in Messages : writer[m].rev = 0 => messages[m] = Absent

IInv == TypeOK /\ Held /\ Fresh /\ NoOrphans /\ CountsMessages

-----------------------------------------------------------------------------
(* The statements.                                                         *)

LEMMA InFinite == \A s : IsFiniteSet(In(s)) /\ Cardinality(In(s)) \in Nat
<1> SUFFICES ASSUME NEW s PROVE IsFiniteSet(In(s)) /\ Cardinality(In(s)) \in Nat
  OBVIOUS
<1>1. In(s) \subseteq Messages
  BY DEF In
<1> QED BY <1>1, TablesAssumption, FS_Subset, FS_CardinalityType

\* Statements that leave the messages alone, and no row but that of s.
LEMMA OneSession ==
    ASSUME Tables, UNCHANGED messages, NEW s \in Ids, sessions'[s] \in Session,
           sessions[s] # Absent => sessions'[s].count = sessions[s].count,
           sessions[s] = Absent => sessions'[s].count = 0,
           sessions' = [sessions EXCEPT ![s] = sessions'[s]]
    PROVE  Tables'
<1>1. \A r \in Ids : In(r)' = In(r)
  BY DEF In
<1>2. sessions' \in [Ids -> Session \cup {Absent}] /\ messages' \in [Messages -> Message \cup {Absent}]
  BY DEF Tables
<1>3. NoOrphans'
  BY TablesAssumption DEF Tables, NoOrphans, Message
<1>4. CountsMessages'
  <2>1. sessions[s] = Absent => In(s) = {}
    BY DEF In, Tables, NoOrphans
  <2> QED BY <1>1, <2>1, FS_EmptySet DEF Tables, CountsMessages
<1> QED BY <1>2, <1>3, <1>4 DEF Tables

LEMMA InsertSessionKeeps ==
    ASSUME Tables, NEW s \in Ids, NEW p \in Roots \cup {Absent}, InsertSession(s, p), UNCHANGED messages
    PROVE  Tables'
<1> DEFINE row == [parent |-> p, count |-> 0, cost |-> 0]
<1>1. row \in Session /\ row.count = 0
  BY DEF Session
<1>2. sessions' = [sessions EXCEPT ![s] = row] /\ sessions'[s] = row
  BY DEF InsertSession, Tables
<1> HIDE DEF row
<1> QED BY <1>1, <1>2, OneSession DEF InsertSession

LEMMA UpdateSessionKeeps ==
    ASSUME Tables, NEW s \in Ids, NEW row, row.cost \in Nat, UpdateSession(s, row), UNCHANGED messages
    PROVE  Tables'
<1> DEFINE new == [sessions[s] EXCEPT !.cost = row.cost]
<1>1. sessions[s] \in Session
  BY DEF UpdateSession, Tables
<1>2. new \in Session /\ new.count = sessions[s].count
  BY <1>1 DEF Session
<1>3. sessions' = [sessions EXCEPT ![s] = new] /\ sessions'[s] = new
  BY DEF UpdateSession, Tables
<1> HIDE DEF new
<1> QED BY <1>2, <1>3, OneSession DEF UpdateSession

LEMMA DropSessionKeeps ==
    ASSUME Tables, NEW s \in Ids, DropSession(s)
    PROVE  Tables'
<1>1. sessions' \in [Ids -> Session \cup {Absent}] /\ messages' \in [Messages -> Message \cup {Absent}]
  BY DEF DropSession, Tables
<1>2. NoOrphans'
  BY DEF DropSession, Tables, NoOrphans, In
<1>3. \A r \in Ids \ {s} : In(r)' = In(r)
  BY DEF DropSession, Tables, In
<1>4. CountsMessages'
  BY <1>3 DEF DropSession, Tables, CountsMessages
<1> QED BY <1>1, <1>2, <1>4 DEF Tables

\* Statements that change the count of one session by what they do to its messages.
LEMMA CountIs ==
    ASSUME Tables, NEW s \in Ids, NEW n \in Int, Count(s, n), sessions[s] # Absent
    PROVE  /\ sessions' \in [Ids -> Session \cup {Absent}]
           /\ \A r \in Ids : sessions'[r] # Absent <=> sessions[r] # Absent
           /\ sessions'[s].count = sessions[s].count + n
           /\ \A r \in Ids \ {s} : sessions'[r] = sessions[r]
<1> DEFINE new == [sessions[s] EXCEPT !.count = @ + n]
<1>1. sessions[s] \in Session
  BY DEF Tables
<1>2. new \in Session /\ new.count = sessions[s].count + n
  BY <1>1 DEF Session
<1>3. sessions' = [sessions EXCEPT ![s] = new]
  BY DEF Count
<1> HIDE DEF new
<1> QED BY <1>2, <1>3, TablesAssumption DEF Tables

LEMMA InsertMessageKeeps ==
    ASSUME Tables, NEW m \in Messages, NEW s \in Ids, InsertMessage(m, s), messages[m] = Absent
    PROVE  Tables'
<1> DEFINE row == [session |-> s, rev |-> 1]
<1>1. row \in Message /\ row.session = s /\ row # Absent
  BY TablesAssumption DEF Message
<1>2. messages' = [messages EXCEPT ![m] = row]
  BY DEF InsertMessage
<1> HIDE DEF row
<1>3. messages' \in [Messages -> Message \cup {Absent}]
  BY <1>1, <1>2 DEF Tables
<1>4. /\ sessions' \in [Ids -> Session \cup {Absent}]
      /\ \A r \in Ids : sessions'[r] # Absent <=> sessions[r] # Absent
      /\ sessions'[s].count = sessions[s].count + 1
      /\ \A r \in Ids \ {s} : sessions'[r] = sessions[r]
  BY CountIs DEF InsertMessage
<1>5. NoOrphans'
  BY <1>1, <1>2, <1>4 DEF Tables, NoOrphans, InsertMessage, Message
<1>6. In(s)' = In(s) \cup {m} /\ m \notin In(s) /\ \A r \in Ids \ {s} : In(r)' = In(r)
  BY <1>1, <1>2 DEF Tables, In
<1>7. Cardinality(In(s)') = Cardinality(In(s)) + 1
  BY <1>6, InFinite, FS_AddElement
<1>8. CountsMessages'
  BY <1>4, <1>6, <1>7 DEF Tables, CountsMessages, InsertMessage
<1> QED BY <1>3, <1>4, <1>5, <1>8 DEF Tables

LEMMA UpdateMessageKeeps ==
    ASSUME Tables, NEW m \in Messages, NEW r \in 1..MaxRev, UpdateMessage(m, r), UNCHANGED sessions
    PROVE  Tables' /\ \A k \in Messages : messages[k] = Absent => messages'[k] = Absent
<1>1. CASE messages[m] = Absent
  BY <1>1 DEF Tables, UpdateMessage, NoOrphans, CountsMessages, In
<1>2. CASE messages[m] # Absent
  <2> DEFINE new == [messages[m] EXCEPT !.rev = r]
  <2>1. messages[m] \in Message
    BY <1>2 DEF Tables
  <2>2. new \in Message /\ new.session = messages[m].session
    BY <2>1 DEF Message
  <2>3. messages' = [messages EXCEPT ![m] = new]
    BY <1>2 DEF UpdateMessage, Tables
  <2> HIDE DEF new
  <2>4. messages' \in [Messages -> Message \cup {Absent}]
    BY <2>2, <2>3 DEF Tables
  <2>5. \A s \in Ids : In(s)' = In(s)
    BY <1>2, <2>2, <2>3, TablesAssumption DEF Tables, In
  <2>6. NoOrphans'
    BY <1>2, <2>2, <2>3 DEF Tables, NoOrphans
  <2>7. CountsMessages'
    BY <2>5 DEF Tables, CountsMessages
  <2> QED BY <1>2, <2>3, <2>4, <2>6, <2>7 DEF Tables
<1> QED BY <1>1, <1>2

LEMMA DropMessageKeeps ==
    ASSUME Tables, NEW m \in Messages, DropMessage(m)
    PROVE  /\ Tables'
           /\ \A s \in Ids : sessions'[s] # Absent <=> sessions[s] # Absent
           /\ \A k \in Messages : messages[k] = Absent => messages'[k] = Absent
<1>1. CASE messages[m] = Absent
  BY <1>1 DEF Tables, DropMessage, NoOrphans, CountsMessages, In
<1>2. CASE messages[m] # Absent
  <2>0. messages[m] \in Message
    BY <1>2 DEF Tables
  <2>1. PICK s \in Ids : s = messages[m].session
    BY <2>0 DEF Message
  <2>2. messages' \in [Messages -> Message \cup {Absent}]
    BY DEF DropMessage, Tables
  <2>3. sessions[s] # Absent /\ Count(s, -1)
    BY <1>2, <2>1 DEF DropMessage, Tables, NoOrphans
  <2>4. /\ sessions' \in [Ids -> Session \cup {Absent}]
        /\ \A r \in Ids : sessions'[r] # Absent <=> sessions[r] # Absent
        /\ sessions'[s].count = sessions[s].count + (-1)
        /\ \A r \in Ids \ {s} : sessions'[r] = sessions[r]
    BY <2>3, CountIs
  <2>5. NoOrphans'
    BY <2>4 DEF DropMessage, Tables, NoOrphans, Message
  <2>6. In(s)' = In(s) \ {m} /\ m \in In(s) /\ \A r \in Ids \ {s} : In(r)' = In(r)
    BY <1>2, <2>1 DEF DropMessage, Tables, In
  <2>7. Cardinality(In(s)') = Cardinality(In(s)) - 1
    BY <2>6, InFinite, FS_RemoveElement
  <2>8. sessions[s].count = Cardinality(In(s))
    BY <2>3 DEF Tables, CountsMessages
  <2>9. CountsMessages'
    BY <2>4, <2>6, <2>7, <2>8, InFinite DEF Tables, CountsMessages
  <2> QED BY <2>2, <2>4, <2>5, <2>9 DEF Tables, DropMessage
<1> QED BY <1>1, <1>2

-----------------------------------------------------------------------------
(* The steps.                                                              *)

LEMMA HasTables == IInv <=> TypeOK /\ Held /\ Fresh /\ Tables
BY DEF IInv, Tables, TypeOK

LEMMA Still == ASSUME Tables, UNCHANGED <<sessions, messages>> PROVE Tables'
BY DEF Tables, NoOrphans, CountsMessages, In

\* A turn or a tool that saves a session leaves every row where it is.
LEMMA SaveKeeps ==
    ASSUME IInv, NEW s \in Ids, NEW row \in Session, NEW c \in Nat, UNCHANGED <<messages, used>>,
           UpdateSession(s, [row EXCEPT !.cost = @ + c])
    PROVE  Tables' /\ \A r \in Ids : sessions'[r] # Absent => sessions[r] # Absent
<1> DEFINE new == [row EXCEPT !.cost = @ + c]
<1>1. new.cost \in Nat
  BY DEF Session
<1>2. UpdateSession(s, new)
  OBVIOUS
<1> HIDE DEF new
<1>3. Tables'
  BY <1>1, <1>2, HasTables, UpdateSessionKeeps
<1> QED BY <1>2, <1>3 DEF UpdateSession, IInv, TypeOK

TurnJob   == [at : {"get", "save", "done", "failed"}, read : Session \cup {Absent}]
TaskJob   == [at : {"create", "run", "getParent", "save", "done", "failed"},
              cost : Nat, read : Session \cup {Absent}]
DeleteJob == [at : {"idle", "session", "get", "delete", "announce"},
              todo : SUBSET Messages, id : Messages \cup Ids \cup {Absent}]

\* What a turn, a tool or a deleter is at next is something it may be at.
LEMMA TurnMoves ==
    ASSUME IInv, NEW u \in Turns, NEW job \in TurnJob, job.at = "save" => job.read \in Session,
           turn' = [turn EXCEPT ![u] = job], UNCHANGED <<task, deleter>>
    PROVE  turn' \in [Turns -> TurnJob] /\ Held'
BY DEF IInv, TypeOK, TurnJob, Held

LEMMA TaskMoves ==
    ASSUME IInv, NEW t \in Tasks, NEW job \in TaskJob, job.at = "save" => job.read \in Session,
           job.at # "create", task' = [task EXCEPT ![t] = job], UNCHANGED <<turn, deleter>>
    PROVE  /\ task' \in [Tasks -> TaskJob] /\ Held'
           /\ \A x \in Tasks : task'[x].at = "create" => x # t /\ task[x].at = "create"
<1>1. task' \in [Tasks -> TaskJob]
  BY DEF IInv, TypeOK, TaskJob
<1>2. task'[t] = job /\ \A x \in Tasks \ {t} : task'[x] = task[x]
  BY DEF IInv, TypeOK
<1> QED BY <1>1, <1>2 DEF IInv, Held

LEMMA DeleterMoves ==
    ASSUME IInv, NEW d \in Deleters, NEW job \in DeleteJob, Deleting(d, job),
           job.at = "session" => job.id \in Ids,
           job.at \in {"delete", "announce"} => job.id \in Messages,
           UNCHANGED <<turn, task>>
    PROVE  deleter' \in [Deleters -> DeleteJob] /\ Held'
<1>1. deleter' \in [Deleters -> DeleteJob]
  BY DEF IInv, TypeOK, DeleteJob, Deleting
<1>2. deleter'[d] = job /\ \A x \in Deleters \ {d} : deleter'[x] = deleter[x]
  BY DEF IInv, TypeOK, Deleting
<1> QED BY <1>1, <1>2 DEF IInv, Held

LEMMA WriterMoves ==
    ASSUME IInv, NEW m \in Messages, NEW r \in 1..MaxRev, NEW b \in BOOLEAN,
           writer' = [writer EXCEPT ![m] = [rev |-> r, announced |-> b]]
    PROVE  /\ writer' \in [Messages -> [rev : 0..MaxRev, announced : BOOLEAN]]
           /\ \A k \in Messages : writer'[k].rev = 0 => k # m /\ writer[k].rev = 0
<1> DEFINE job == [rev |-> r, announced |-> b]
<1>1. job \in [rev : 0..MaxRev, announced : BOOLEAN] /\ job.rev # 0
  BY TablesAssumption
<1>2. writer' = [writer EXCEPT ![m] = job]
  OBVIOUS
<1> HIDE DEF job
<1>3. writer'[m] = job /\ \A k \in Messages \ {m} : writer'[k] = writer[k]
  BY <1>2 DEF IInv, TypeOK
<1> QED BY <1>1, <1>2, <1>3 DEF IInv, TypeOK

LEMMA CreateInv == ASSUME IInv, NEW s \in Roots, CreateSession(s) PROVE IInv'
<1> USE TablesAssumption
<1>0. s \in Ids /\ s \notin Tasks
  BY DEF Ids
<1>1. Tables'
  BY <1>0, HasTables, InsertSessionKeeps DEF CreateSession
<1>2. TypeOK'
  BY <1>0, <1>1 DEF CreateSession, InsertSession, actors, Tables, IInv, TypeOK
<1>3. Held'
  BY DEF CreateSession, actors, IInv, Held
<1>4. \A r \in Ids \ {s} : sessions'[r] = sessions[r]
  BY DEF CreateSession, InsertSession, IInv, TypeOK
<1>5. Fresh'
  BY <1>0, <1>4 DEF CreateSession, InsertSession, actors, IInv, Fresh
<1> QED BY <1>1, <1>2, <1>3, <1>5 DEF IInv, Tables

LEMMA TurnInv == ASSUME IInv, NEW u \in Turns, TurnStep(u) PROVE IInv'
<1> USE TablesAssumption
<1> DEFINE s == SessionOfTurn[u]
<1>0. s \in Ids
  OBVIOUS
<1>f. \A at \in {"done", "failed"} :
          [at |-> at, read |-> Absent] \in TurnJob /\ [at |-> at, read |-> Absent].at # "save"
  BY DEF TurnJob
<1>1. CASE TrackGet(u)
  <2> DEFINE job == [at |-> "save", read |-> sessions[s]]
  <2>1. sessions[s] \in Session
    BY <1>0, <1>1 DEF TrackGet, IInv, TypeOK
  <2>2. job \in TurnJob /\ job.read \in Session
    BY <2>1 DEF TurnJob
  <2>3. turn' = [turn EXCEPT ![u] = job] /\ UNCHANGED <<sessions, messages, used, task, writer, deleter, view>>
    BY <1>1 DEF TrackGet
  <2> HIDE DEF job
  <2>4. turn' \in [Turns -> TurnJob] /\ Held'
    BY <2>2, <2>3, TurnMoves
  <2>5. Tables'
    BY <2>3, HasTables, Still
  <2>6. TypeOK'
    BY <2>3, <2>4 DEF IInv, TypeOK, TurnJob
  <2>7. Fresh'
    BY <2>3 DEF IInv, Fresh
  <2> QED BY <2>4, <2>5, <2>6, <2>7 DEF IInv, Tables
<1>2. CASE TrackSave(u)
  <2>1. turn[u].read \in Session
    BY <1>2 DEF TrackSave, IInv, Held
  <2>2. Tables' /\ \A r \in Ids : sessions'[r] # Absent => sessions[r] # Absent
    BY <1>0, <1>2, <2>1, SaveKeeps DEF TrackSave
  <2>3. turn' \in [Turns -> TurnJob] /\ Held'
    BY <1>2, <1>f, TurnMoves DEF TrackSave
  <2>4. TypeOK' /\ Fresh'
    BY <1>2, <2>2, <2>3 DEF TrackSave, Tables, IInv, TypeOK, TurnJob, Fresh
  <2> QED BY <2>2, <2>3, <2>4 DEF IInv, Tables
<1>3. CASE TrackFails(u)
  <2>1. turn' \in [Turns -> TurnJob] /\ Held'
    BY <1>3, <1>f, TurnMoves DEF TrackFails
  <2>2. Tables' /\ TypeOK' /\ Fresh'
    BY <1>3, <2>1, HasTables, Still DEF TrackFails, IInv, TypeOK, TurnJob, Fresh
  <2> QED BY <2>1, <2>2 DEF IInv, Tables
<1> QED BY <1>1, <1>2, <1>3 DEF TurnStep

LEMMA TaskInv == ASSUME IInv, NEW t \in Tasks, TaskStep(t) PROVE IInv'
<1> USE TablesAssumption
<1> DEFINE p == ParentOf[t]
<1>0. t \in Ids /\ p \in Ids /\ p \in Roots
  BY DEF Ids
<1>f. \A at \in {"done", "failed"} :
          /\ [at |-> at, cost |-> 0, read |-> Absent] \in TaskJob
          /\ [at |-> at, cost |-> 0, read |-> Absent].at \notin {"save", "create"}
  BY DEF TaskJob
<1>r. task[t] \in TaskJob
  BY DEF IInv, TypeOK, TaskJob
<1>1. CASE CreateTaskSession(t)
  <2> DEFINE job == [task[t] EXCEPT !.at = "run"]
  <2>1. job \in TaskJob /\ job.at = "run"
    BY <1>r DEF TaskJob
  <2>2. task' = [task EXCEPT ![t] = job] /\ UNCHANGED <<messages, turn, writer, deleter, view>>
    BY <1>1 DEF CreateTaskSession
  <2> HIDE DEF job
  <2>3. /\ task' \in [Tasks -> TaskJob] /\ Held'
        /\ \A x \in Tasks : task'[x].at = "create" => x # t /\ task[x].at = "create"
    BY <2>1, <2>2, TaskMoves
  <2>4. Tables'
    BY <1>0, <1>1, HasTables, InsertSessionKeeps DEF CreateTaskSession
  <2>5. used' = used \cup {t} /\ \A r \in Ids \ {t} : sessions'[r] = sessions[r]
    BY <1>1 DEF CreateTaskSession, InsertSession, IInv, TypeOK
  <2>6. TypeOK'
    BY <1>0, <2>2, <2>3, <2>4, <2>5 DEF Tables, IInv, TypeOK, TaskJob
  <2>7. Fresh'
    BY <1>0, <2>2, <2>3, <2>5 DEF IInv, Fresh
  <2> QED BY <2>3, <2>4, <2>6, <2>7 DEF IInv, Tables
<1>2. CASE TaskGetChild(t)
  <2> DEFINE job == [task[t] EXCEPT !.at = "getParent", !.cost = sessions[t].cost]
  <2>1. sessions[t].cost \in Nat
    BY <1>0, <1>2 DEF TaskGetChild, IInv, TypeOK, Session
  <2>2. job \in TaskJob /\ job.at = "getParent"
    BY <1>r, <2>1 DEF TaskJob
  <2>3. task' = [task EXCEPT ![t] = job] /\ UNCHANGED <<sessions, messages, used, turn, writer, deleter, view>>
    BY <1>2 DEF TaskGetChild, IInv, TypeOK
  <2> HIDE DEF job
  <2>4. /\ task' \in [Tasks -> TaskJob] /\ Held'
        /\ \A x \in Tasks : task'[x].at = "create" => x # t /\ task[x].at = "create"
    BY <2>2, <2>3, TaskMoves
  <2>5. Tables' /\ TypeOK' /\ Fresh'
    BY <2>3, <2>4, HasTables, Still DEF IInv, TypeOK, TaskJob, Fresh
  <2> QED BY <2>4, <2>5 DEF IInv, Tables
<1>3. CASE TaskGetParent(t)
  <2> DEFINE job == [task[t] EXCEPT !.at = "save", !.read = sessions[p]]
  <2>1. sessions[p] \in Session
    BY <1>0, <1>3 DEF TaskGetParent, IInv, TypeOK
  <2>2. job \in TaskJob /\ job.at = "save" /\ job.read \in Session
    BY <1>r, <2>1 DEF TaskJob
  <2>3. task' = [task EXCEPT ![t] = job] /\ UNCHANGED <<sessions, messages, used, turn, writer, deleter, view>>
    BY <1>3 DEF TaskGetParent, IInv, TypeOK
  <2> HIDE DEF job
  <2>4. /\ task' \in [Tasks -> TaskJob] /\ Held'
        /\ \A x \in Tasks : task'[x].at = "create" => x # t /\ task[x].at = "create"
    BY <2>2, <2>3, TaskMoves
  <2>5. Tables' /\ TypeOK' /\ Fresh'
    BY <2>3, <2>4, HasTables, Still DEF IInv, TypeOK, TaskJob, Fresh
  <2> QED BY <2>4, <2>5 DEF IInv, Tables
<1>4. CASE TaskSave(t)
  <2>1. task[t].read \in Session /\ task[t].cost \in Nat
    BY <1>4, <1>r DEF TaskSave, IInv, TaskJob, Held
  <2>2. Tables' /\ \A r \in Ids : sessions'[r] # Absent => sessions[r] # Absent
    BY <1>0, <1>4, <2>1, SaveKeeps DEF TaskSave
  <2>3. /\ task' \in [Tasks -> TaskJob] /\ Held'
        /\ \A x \in Tasks : task'[x].at = "create" => x # t /\ task[x].at = "create"
    BY <1>4, <1>f, TaskMoves DEF TaskSave
  <2>4. TypeOK' /\ Fresh'
    BY <1>4, <2>2, <2>3 DEF TaskSave, Tables, IInv, TypeOK, TaskJob, Fresh
  <2> QED BY <2>2, <2>3, <2>4 DEF IInv, Tables
<1>5. CASE TaskFails(t)
  <2>1. /\ task' \in [Tasks -> TaskJob] /\ Held'
        /\ \A x \in Tasks : task'[x].at = "create" => x # t /\ task[x].at = "create"
    BY <1>5, <1>f, TaskMoves DEF TaskFails
  <2>2. Tables' /\ TypeOK' /\ Fresh'
    BY <1>5, <2>1, HasTables, Still DEF TaskFails, IInv, TypeOK, TaskJob, Fresh
  <2> QED BY <2>1, <2>2 DEF IInv, Tables
<1> QED BY <1>1, <1>2, <1>3, <1>4, <1>5 DEF TaskStep

LEMMA WriterInv == ASSUME IInv, NEW m \in Messages, WriterStep(m) PROVE IInv'
<1> USE TablesAssumption
<1>r. writer[m] \in [rev : 0..MaxRev, announced : BOOLEAN]
  BY DEF IInv, TypeOK
<1>1. ASSUME NEW s \in Ids, CreateMessage(m, s) PROVE IInv'
  <2>1. messages[m] = Absent /\ InsertMessage(m, s)
    BY <1>1 DEF CreateMessage, IInv, Fresh
  <2>2. Tables'
    BY <2>1, HasTables, InsertMessageKeeps
  <2>3. \A r \in Ids : sessions'[r] # Absent => sessions[r] # Absent
    BY <2>1, HasTables, CountIs DEF InsertMessage
  <2>4. /\ writer' \in [Messages -> [rev : 0..MaxRev, announced : BOOLEAN]]
        /\ \A k \in Messages : writer'[k].rev = 0 => k # m /\ writer[k].rev = 0
    <3>1. 1 \in 1..MaxRev /\ FALSE \in BOOLEAN
      OBVIOUS
    <3>2. writer' = [writer EXCEPT ![m] = [rev |-> 1, announced |-> FALSE]]
      BY <1>1 DEF CreateMessage
    <3> QED BY <3>1, <3>2, WriterMoves
  <2>5. TypeOK' /\ Held'
    BY <1>1, <2>2, <2>4 DEF CreateMessage, Tables, IInv, TypeOK, Held
  <2>6. \A k \in Messages \ {m} : messages'[k] = messages[k]
    BY <2>1 DEF InsertMessage, IInv, TypeOK
  <2>7. Fresh'
    BY <1>1, <2>3, <2>4, <2>6 DEF CreateMessage, IInv, Fresh
  <2> QED BY <2>2, <2>5, <2>7 DEF IInv, Tables
<1>2. CASE Update(m)
  <2>1. writer[m].rev + 1 \in 1..MaxRev /\ writer[m].announced = TRUE
    BY <1>2, <1>r DEF Update
  <2>2. Tables' /\ \A k \in Messages : messages[k] = Absent => messages'[k] = Absent
    BY <1>2, <2>1, HasTables, UpdateMessageKeeps, Still DEF Update
  <2>3. \E b \in BOOLEAN : writer' = [writer EXCEPT ![m] = [rev |-> writer[m].rev + 1, announced |-> b]]
    BY <1>2, <1>r, <2>1 DEF Update, IInv, TypeOK
  <2>4. /\ writer' \in [Messages -> [rev : 0..MaxRev, announced : BOOLEAN]]
        /\ \A k \in Messages : writer'[k].rev = 0 => k # m /\ writer[k].rev = 0
    BY <2>1, <2>3, WriterMoves
  <2>5. TypeOK' /\ Held' /\ Fresh'
    BY <1>2, <2>2, <2>4 DEF Update, Tables, IInv, TypeOK, Held, Fresh
  <2> QED BY <2>2, <2>5 DEF IInv, Tables
<1>3. CASE Announce(m)
  <2>1. /\ writer' \in [Messages -> [rev : 0..MaxRev, announced : BOOLEAN]]
        /\ \A k \in Messages : writer'[k].rev = 0 => writer[k].rev = 0
    <3> DEFINE job == [writer[m] EXCEPT !.announced = TRUE]
    <3>1. job \in [rev : 0..MaxRev, announced : BOOLEAN] /\ job.rev = writer[m].rev
      BY <1>r
    <3>2. writer' = [writer EXCEPT ![m] = job]
      BY <1>3 DEF Announce
    <3> HIDE DEF job
    <3>3. writer'[m] = job /\ \A k \in Messages \ {m} : writer'[k] = writer[k]
      BY <3>2 DEF IInv, TypeOK
    <3> QED BY <3>1, <3>2, <3>3 DEF IInv, TypeOK
  <2>2. view' \in [Messages -> 0..MaxRev]
    BY <1>3, <1>r DEF Announce, IInv, TypeOK
  <2>3. Tables' /\ TypeOK' /\ Held' /\ Fresh'
    BY <1>3, <2>1, <2>2, HasTables, Still DEF Announce, IInv, TypeOK, Held, Fresh
  <2> QED BY <2>3 DEF IInv, Tables
<1> QED BY <1>1, <1>2, <1>3 DEF WriterStep

LEMMA DeleterInv == ASSUME IInv, NEW d \in Deleters, DeleterStep(d) PROVE IInv'
<1> USE TablesAssumption
<1>r. deleter[d] \in DeleteJob
  BY DEF IInv, TypeOK, DeleteJob
<1>i. Idle \in DeleteJob /\ Idle.at = "idle"
  BY DEF Idle, DeleteJob
\* Steps that only change what the deleter is at.
<1>q. ASSUME NEW job \in DeleteJob, Deleting(d, job),
             job.at = "session" => job.id \in Ids,
             job.at \in {"delete", "announce"} => job.id \in Messages,
             UNCHANGED <<sessions, messages, used, turn, task, writer, view>>
      PROVE  IInv'
  <2>1. deleter' \in [Deleters -> DeleteJob] /\ Held'
    BY <1>q, DeleterMoves
  <2>2. Tables' /\ TypeOK' /\ Fresh'
    BY <1>q, <2>1, HasTables, Still DEF IInv, TypeOK, DeleteJob, Fresh
  <2> QED BY <2>1, <2>2 DEF IInv, Tables
<1>1. ASSUME NEW s \in Ids, DeleteSession(d, s) PROVE IInv'
  <2> DEFINE job == [Idle EXCEPT !.at = "session", !.id = s]
  <2>1. job \in DeleteJob /\ job.at = "session" /\ job.id = s
    BY DEF Idle, DeleteJob
  <2>2. Deleting(d, job) /\ UNCHANGED <<sessions, messages, used, turn, task, writer, view>>
    BY <1>1 DEF DeleteSession
  <2> HIDE DEF job
  <2> QED BY <1>q, <2>1, <2>2
<1>2. ASSUME NEW todo \in SUBSET Messages, DeleteMessages(d, todo) PROVE IInv'
  <2> DEFINE job == [Idle EXCEPT !.at = "get", !.todo = todo]
  <2>1. job \in DeleteJob /\ job.at = "get"
    BY DEF Idle, DeleteJob
  <2>2. Deleting(d, job) /\ UNCHANGED <<sessions, messages, used, turn, task, writer, view>>
    BY <1>2 DEF DeleteMessages
  <2> HIDE DEF job
  <2> QED BY <1>q, <2>1, <2>2
<1>3. ASSUME NEW m \in Messages, GetMessage(d, m) PROVE IInv'
  <2>1. UNCHANGED <<sessions, messages, used, turn, task, writer, view>>
    BY <1>3 DEF GetMessage
  <2>2. CASE messages[m] = Absent
    <3>1. Deleting(d, Idle)
      BY <1>3, <2>2 DEF GetMessage
    <3> QED BY <1>i, <1>q, <2>1, <3>1
  <2>3. CASE messages[m] # Absent
    <3> DEFINE job == [deleter[d] EXCEPT !.at = "delete", !.id = m]
    <3>1. job \in DeleteJob /\ job.at = "delete" /\ job.id = m
      BY <1>r DEF DeleteJob
    <3>2. Deleting(d, job)
      BY <1>3, <2>3 DEF GetMessage
    <3> HIDE DEF job
    <3> QED BY <1>q, <2>1, <3>1, <3>2
  <2> QED BY <2>2, <2>3
<1>4. CASE DeleteSessionRow(d)
  <2>1. deleter[d].id \in Ids
    BY <1>4 DEF DeleteSessionRow, IInv, Held
  <2>2. Tables'
    BY <1>4, <2>1, HasTables, DropSessionKeeps DEF DeleteSessionRow
  <2>3. deleter' \in [Deleters -> DeleteJob] /\ Held'
    BY <1>4, <1>i, DeleterMoves DEF DeleteSessionRow
  <2>4. TypeOK'
    BY <1>4, <2>2, <2>3 DEF DeleteSessionRow, Tables, IInv, TypeOK, DeleteJob
  <2>5. Fresh'
    BY <1>4 DEF DeleteSessionRow, DropSession, IInv, TypeOK, Fresh
  <2> QED BY <2>2, <2>3, <2>4, <2>5 DEF IInv, Tables
<1>5. CASE DeleteMessage(d)
  <2> DEFINE job == [deleter[d] EXCEPT !.at = "announce"]
  <2>1. deleter[d].id \in Messages
    BY <1>5 DEF DeleteMessage, IInv, Held
  <2>2. job \in DeleteJob /\ job.at = "announce" /\ job.id = deleter[d].id
    BY <1>r DEF DeleteJob
  <2>3. Deleting(d, job) /\ UNCHANGED <<used, turn, task, writer, view>>
    BY <1>5 DEF DeleteMessage
  <2> HIDE DEF job
  <2>4. deleter' \in [Deleters -> DeleteJob] /\ Held'
    BY <2>1, <2>2, <2>3, DeleterMoves
  <2>5. /\ Tables'
        /\ \A s \in Ids : sessions'[s] # Absent <=> sessions[s] # Absent
        /\ \A k \in Messages : messages[k] = Absent => messages'[k] = Absent
    BY <1>5, <2>1, HasTables, DropMessageKeeps DEF DeleteMessage
  <2>6. TypeOK' /\ Fresh'
    BY <2>3, <2>4, <2>5 DEF Tables, IInv, TypeOK, DeleteJob, Fresh
  <2> QED BY <2>4, <2>5, <2>6 DEF IInv, Tables
<1>6. CASE AnnounceDeleted(d)
  <2>1. PICK job \in DeleteJob : Deleting(d, job) /\ job.at \in {"idle", "get"}
    <3> DEFINE left == deleter[d].todo \ {deleter[d].id}
    <3>1. left \in SUBSET Messages
      BY <1>r DEF DeleteJob
    <3> DEFINE job == [Idle EXCEPT !.at = "get", !.todo = left]
    <3>2. job \in DeleteJob /\ job.at = "get"
      BY <3>1 DEF Idle, DeleteJob
    <3>3. Deleting(d, IF left = {} THEN Idle ELSE job)
      BY <1>6 DEF AnnounceDeleted
    <3> HIDE DEF left, job
    <3> QED BY <1>i, <3>2, <3>3
  <2>2. deleter' \in [Deleters -> DeleteJob] /\ Held'
    BY <1>6, <2>1, DeleterMoves DEF AnnounceDeleted
  <2>3. view' \in [Messages -> 0..MaxRev]
    <3>1. 0 \in 0..MaxRev
      OBVIOUS
    <3> QED BY <1>6, <3>1 DEF AnnounceDeleted, IInv, TypeOK
  <2>4. Tables' /\ TypeOK' /\ Fresh'
    BY <1>6, <2>2, <2>3, HasTables, Still DEF AnnounceDeleted, IInv, TypeOK, DeleteJob, Fresh
  <2> QED BY <2>2, <2>4 DEF IInv, Tables
<1>7. \A s \in Ids : In(s) \in SUBSET Messages
  BY DEF In
<1> QED BY <1>1, <1>2, <1>3, <1>4, <1>5, <1>6, <1>7 DEF DeleterStep

-----------------------------------------------------------------------------
LEMMA Inductive == Spec => []IInv
<1>1. Init => IInv
  <2> SUFFICES ASSUME Init PROVE IInv
    OBVIOUS
  <2>1. TypeOK
    BY TablesAssumption DEF Init, Idle, TypeOK
  <2>2. Held /\ Fresh /\ NoOrphans /\ CountsMessages
    BY DEF Init, Idle, Held, Fresh, NoOrphans, CountsMessages
  <2> QED BY <2>1, <2>2 DEF IInv
<1>2. IInv /\ [Next]_vars => IInv'
  <2> SUFFICES ASSUME IInv, [Next]_vars PROVE IInv'
    OBVIOUS
  <2>1. CASE UNCHANGED vars
    BY <2>1 DEF vars, IInv, TypeOK, Held, Fresh, NoOrphans, CountsMessages, In
  <2> QED BY <2>1, CreateInv, TurnInv, TaskInv, WriterInv, DeleterInv DEF Next
<1> QED BY <1>1, <1>2, PTL DEF Spec

\* The tables, and what turns, tools, writers and deleters hold, keep their types.
THEOREM TypeCorrect == Spec => []TypeOK
<1>1. IInv => TypeOK
  BY DEF IInv
<1> QED BY <1>1, Inductive, PTL

\* message_count is the number of the session's messages: the triggers count
\* every row that comes and goes, and no statement of the services sets it.
THEOREM CountsAreRight == Spec => []CountsMessages
<1>1. IInv => CountsMessages
  BY DEF IInv
<1> QED BY <1>1, Inductive, PTL

\* No message is without its session: one is inserted only into a session that
\* is there, and goes with it.
THEOREM MessagesHaveSessions == Spec => []NoOrphans
<1>1. IInv => NoOrphans
  BY DEF IInv
<1> QED BY <1>1, Inductive, PTL

\* No turn or tool that saves the copy of a session brings a deleted one back.
THEOREM DeletedForGood == Spec => DeletedStaysDeleted
<1> DEFINE Kept == \A s \in used : sessions[s] = Absent => sessions'[s] = Absent
<1>1. IInv /\ [Next]_vars => [Kept]_vars
  <2> SUFFICES ASSUME IInv, Next PROVE Kept
    BY DEF vars
  <2>u. used \subseteq Ids
    BY DEF IInv, TypeOK
  <2>1. ASSUME NEW s \in Roots, CreateSession(s) PROVE Kept
    BY <2>u, <2>1 DEF CreateSession, InsertSession, IInv, TypeOK
  <2>2. ASSUME NEW u \in Turns, TurnStep(u) PROVE Kept
    BY <2>u, <2>2 DEF TurnStep, TrackGet, TrackSave, TrackFails, UpdateSession, IInv, TypeOK
  <2>3. ASSUME NEW t \in Tasks, TaskStep(t) PROVE Kept
    <3>1. CASE CreateTaskSession(t)
      BY <2>u, <3>1 DEF CreateTaskSession, InsertSession, IInv, TypeOK, Fresh
    <3>2. CASE TaskSave(t)
      BY <2>u, <3>2 DEF TaskSave, UpdateSession, IInv, TypeOK
    <3> QED BY <2>3, <3>1, <3>2 DEF TaskStep, TaskGetChild, TaskGetParent, TaskFails
  <2>4. ASSUME NEW m \in Messages, WriterStep(m) PROVE Kept
    <3>1. ASSUME NEW s \in Ids, CreateMessage(m, s) PROVE Kept
      BY <2>u, <3>1 DEF CreateMessage, InsertMessage, Count, IInv, TypeOK
    <3> QED BY <2>4, <3>1 DEF WriterStep, Update, Announce
  <2>5. ASSUME NEW d \in Deleters, DeleterStep(d) PROVE Kept
    <3>1. CASE DeleteSessionRow(d)
      BY <2>u, <3>1 DEF DeleteSessionRow, DropSession, IInv, TypeOK
    <3>2. CASE DeleteMessage(d)
      <4>1. deleter[d].id \in Messages
        BY <3>2 DEF DeleteMessage, IInv, Held
      <4> QED BY <2>u, <3>2, <4>1, HasTables, DropMessageKeeps DEF DeleteMessage
    <3> QED BY <2>5, <3>1, <3>2
          DEF DeleterStep, DeleteSession, DeleteMessages, GetMessage, AnnounceDeleted
  <2> QED BY <2>1, <2>2, <2>3, <2>4, <2>5 DEF Next
<1> QED BY <1>1, Inductive, PTL DEF Spec, DeletedStaysDeleted

-----------------------------------------------------------------------------
(* What a subscriber has of the messages.                                  *)

\* A stored message is as its writer announced it or is about to announce it;
\* a deleter that read a message got it from a writer, and announces a deletion
\* only of a message that is gone.
Seen ==
    /\ \A m \in Messages : messages[m] # Absent =>
          IF writer[m].announced THEN view[m] = messages[m].rev
                                 ELSE messages[m].rev = writer[m].rev
    /\ \A d \in Deleters : deleter[d].at \in {"delete", "announce"} =>
          writer[deleter[d].id].rev # 0
    /\ \A d \in Deleters : deleter[d].at = "announce" => messages[deleter[d].id] = Absent

\* Steps that leave each message as it is or drop it, and no writer or view.
LEMMA SeenAsBefore ==
    ASSUME Seen, UNCHANGED <<writer, view>>,
           \A m \in Messages : messages'[m] \in {messages[m], Absent},
           \A d \in Deleters : deleter[d].at \in {"delete", "announce"} => deleter[d].id \in Messages,
           \A d \in Deleters : deleter'[d].at \in {"delete", "announce"} =>
               /\ deleter'[d].id \in Messages
               /\ deleter'[d] = deleter[d] \/ writer[deleter'[d].id].rev # 0,
           \A d \in Deleters : deleter'[d].at = "announce" =>
               deleter'[d] = deleter[d] \/ messages'[deleter'[d].id] = Absent
    PROVE  Seen'
<1>1. \A m \in Messages : messages'[m] # Absent =>
          IF writer'[m].announced THEN view'[m] = messages'[m].rev
                                  ELSE messages'[m].rev = writer'[m].rev
  BY DEF Seen
<1>2. \A d \in Deleters : deleter'[d].at \in {"delete", "announce"} =>
          writer'[deleter'[d].id].rev # 0
  BY DEF Seen
<1>3. \A d \in Deleters : deleter'[d].at = "announce" => messages'[deleter'[d].id] = Absent
  BY DEF Seen
<1> QED BY <1>1, <1>2, <1>3 DEF Seen

LEMMA WriterSeen == ASSUME IInv, Seen, NEW m \in Messages, WriterStep(m) PROVE Seen'
<1> USE TablesAssumption
<1>0. /\ writer[m] \in [rev : 0..MaxRev, announced : BOOLEAN]
      /\ \A d \in Deleters : deleter[d].at \in {"delete", "announce"} => deleter[d].id \in Messages
  BY DEF IInv, TypeOK, Held
<1>1. ASSUME NEW s \in Ids, CreateMessage(m, s) PROVE Seen'
  <2> DEFINE row == [session |-> s, rev |-> 1]
  <2>1. row.rev = 1
    OBVIOUS
  <2>2. /\ messages' = [messages EXCEPT ![m] = row] /\ writer[m].rev = 0
        /\ writer' = [writer EXCEPT ![m] = [rev |-> 1, announced |-> FALSE]]
        /\ UNCHANGED <<deleter, view>>
    BY <1>1 DEF CreateMessage, InsertMessage
  <2> HIDE DEF row
  <2>3. /\ messages'[m] = row /\ writer'[m].rev = 1 /\ ~writer'[m].announced
        /\ \A k \in Messages \ {m} : messages'[k] = messages[k] /\ writer'[k] = writer[k]
    BY <2>2 DEF IInv, TypeOK
  <2>4. \A d \in Deleters : deleter[d].at \in {"delete", "announce"} => deleter[d].id # m
    BY <2>2 DEF Seen
  <2> QED BY <1>0, <2>1, <2>2, <2>3, <2>4 DEF Seen
<1>2. CASE Update(m)
  <2>1. CASE /\ UpdateMessage(m, writer[m].rev + 1)
             /\ writer' = [writer EXCEPT ![m].rev = @ + 1, ![m].announced = FALSE]
    <3>1. /\ writer'[m].rev = writer[m].rev + 1 /\ ~writer'[m].announced
          /\ \A k \in Messages \ {m} : writer'[k] = writer[k]
      BY <1>0, <2>1 DEF IInv, TypeOK
    <3>2. /\ messages[m] = Absent => messages'[m] = Absent
          /\ messages[m] # Absent => messages'[m].rev = writer[m].rev + 1
          /\ \A k \in Messages \ {m} : messages'[k] = messages[k]
      BY <2>1 DEF UpdateMessage, IInv, TypeOK, Message
    <3>3. writer[m].rev + 1 # 0
      BY <1>0
    <3>4. UNCHANGED <<deleter, view>>
      BY <1>2 DEF Update
    <3> QED BY <1>0, <3>1, <3>2, <3>3, <3>4 DEF Seen
  <2>2. CASE writer' = [writer EXCEPT ![m].rev = @ + 1] /\ UNCHANGED messages
    <3>1. /\ writer'[m].rev = writer[m].rev + 1 /\ writer'[m].announced
          /\ \A k \in Messages \ {m} : writer'[k] = writer[k]
      BY <1>0, <1>2, <2>2 DEF Update, IInv, TypeOK
    <3>2. writer[m].rev + 1 # 0 /\ writer[m].announced
      BY <1>0, <1>2 DEF Update
    <3>3. UNCHANGED <<deleter, view>>
      BY <1>2 DEF Update
    <3> QED BY <1>0, <2>2, <3>1, <3>2, <3>3 DEF Seen
  <2> QED BY <1>2, <2>1, <2>2 DEF Update
<1>3. CASE Announce(m)
  <2>1. /\ writer'[m].rev = writer[m].rev /\ writer'[m].announced /\ ~writer[m].announced
        /\ view'[m] = writer[m].rev
        /\ \A k \in Messages \ {m} : writer'[k] = writer[k] /\ view'[k] = view[k]
        /\ UNCHANGED <<messages, deleter>>
    BY <1>0, <1>3 DEF Announce, IInv, TypeOK
  <2> QED BY <1>0, <2>1 DEF Seen
<1> QED BY <1>1, <1>2, <1>3 DEF WriterStep

LEMMA DeleterSeen == ASSUME IInv, Seen, NEW d \in Deleters, DeleterStep(d) PROVE Seen'
<1> USE TablesAssumption
<1>0. /\ \A x \in Deleters : deleter[x].at \in {"delete", "announce"} => deleter[x].id \in Messages
      /\ deleter[d] \in DeleteJob
  BY DEF IInv, TypeOK, Held, DeleteJob
\* The deleter's next job, when it is not one that holds a message it read.
<1>q. ASSUME NEW job, Deleting(d, job), job.at \notin {"delete", "announce"},
             UNCHANGED <<writer, view>>, \A m \in Messages : messages'[m] \in {messages[m], Absent}
      PROVE  Seen'
  <2>1. deleter'[d] = job /\ \A x \in Deleters \ {d} : deleter'[x] = deleter[x]
    BY <1>q DEF Deleting, IInv, TypeOK
  <2>2. \A x \in Deleters : deleter'[x].at \in {"delete", "announce"} => deleter'[x] = deleter[x]
    BY <1>q, <2>1
  <2> QED BY <1>0, <1>q, <2>2, SeenAsBefore
<1>1. ASSUME NEW s \in Ids, DeleteSession(d, s) PROVE Seen'
  <2> DEFINE job == [Idle EXCEPT !.at = "session", !.id = s]
  <2>1. job.at = "session"
    BY DEF Idle
  <2>2. Deleting(d, job) /\ UNCHANGED <<messages, writer, view>>
    BY <1>1 DEF DeleteSession
  <2> HIDE DEF job
  <2> QED BY <1>q, <2>1, <2>2
<1>2. ASSUME NEW todo, DeleteMessages(d, todo) PROVE Seen'
  <2> DEFINE job == [Idle EXCEPT !.at = "get", !.todo = todo]
  <2>1. job.at = "get"
    BY DEF Idle
  <2>2. Deleting(d, job) /\ UNCHANGED <<messages, writer, view>>
    BY <1>2 DEF DeleteMessages
  <2> HIDE DEF job
  <2> QED BY <1>q, <2>1, <2>2
<1>i. Idle.at = "idle"
  BY DEF Idle
<1>3. ASSUME NEW m \in Messages, GetMessage(d, m) PROVE Seen'
  <2>1. UNCHANGED <<messages, writer, view>>
    BY <1>3 DEF GetMessage
  <2>2. CASE messages[m] = Absent
    <3>1. Deleting(d, Idle)
      BY <1>3, <2>2 DEF GetMessage
    <3> QED BY <1>i, <1>q, <2>1, <3>1
  <2>3. CASE messages[m] # Absent
    <3> DEFINE job == [deleter[d] EXCEPT !.at = "delete", !.id = m]
    <3>1. job.at = "delete" /\ job.id = m
      BY <1>0 DEF DeleteJob
    <3>2. Deleting(d, job)
      BY <1>3, <2>3 DEF GetMessage
    <3> HIDE DEF job
    <3>3. deleter'[d] = job /\ \A x \in Deleters \ {d} : deleter'[x] = deleter[x]
      BY <3>2 DEF Deleting, IInv, TypeOK
    <3>4. writer[m].rev # 0
      BY <2>3 DEF IInv, Fresh
    <3> QED BY <1>0, <2>1, <3>1, <3>3, <3>4, SeenAsBefore
  <2> QED BY <2>2, <2>3
<1>4. CASE DeleteSessionRow(d)
  <2>1. \A m \in Messages : messages'[m] \in {messages[m], Absent}
    BY <1>4 DEF DeleteSessionRow, DropSession
  <2> QED BY <1>4, <1>i, <1>q, <2>1 DEF DeleteSessionRow
<1>5. CASE DeleteMessage(d)
  <2> DEFINE job == [deleter[d] EXCEPT !.at = "announce"]
  <2>1. job.at = "announce" /\ job.id = deleter[d].id /\ deleter[d].at = "delete"
    BY <1>0, <1>5 DEF DeleteJob, DeleteMessage
  <2>2. Deleting(d, job) /\ UNCHANGED <<writer, view>> /\ DropMessage(deleter[d].id)
    BY <1>5 DEF DeleteMessage
  <2> HIDE DEF job
  <2>3. deleter'[d] = job /\ \A x \in Deleters \ {d} : deleter'[x] = deleter[x]
    BY <2>2 DEF Deleting, IInv, TypeOK
  <2>4. /\ messages'[deleter[d].id] = Absent
        /\ \A m \in Messages : messages'[m] \in {messages[m], Absent}
    BY <1>0, <2>1, <2>2 DEF DropMessage, IInv, TypeOK
  <2>5. writer[deleter[d].id].rev # 0
    BY <2>1 DEF Seen
  <2> QED BY <1>0, <2>1, <2>2, <2>3, <2>4, <2>5, SeenAsBefore
<1>6. CASE AnnounceDeleted(d)
  <2>1. PICK job : Deleting(d, job) /\ job.at \in {"idle", "get"}
    <3> DEFINE left == deleter[d].todo \ {deleter[d].id}
               next == [Idle EXCEPT !.at = "get", !.todo = left]
    <3>1. next.at = "get"
      BY DEF Idle
    <3>2. Deleting(d, IF left = {} THEN Idle ELSE next)
      BY <1>6 DEF AnnounceDeleted
    <3> HIDE DEF left, next
    <3> QED BY <1>i, <3>1, <3>2
  <2>2. deleter'[d] = job /\ \A x \in Deleters \ {d} : deleter'[x] = deleter[x]
    BY <2>1 DEF Deleting, IInv, TypeOK
  <2>3. \A x \in Deleters : deleter'[x].at \in {"delete", "announce"} => deleter'[x] = deleter[x]
    BY <2>1, <2>2
  <2>4. messages[deleter[d].id] = Absent /\ deleter[d].id \in Messages
    BY <1>0, <1>6 DEF AnnounceDeleted, Seen
  <2>5. /\ UNCHANGED <<messages, writer>>
        /\ \A m \in Messages : messages[m] # Absent => view'[m] = view[m]
    BY <1>6, <2>4 DEF AnnounceDeleted, IInv, TypeOK
  <2> QED BY <2>3, <2>5 DEF Seen
<1> QED BY <1>1, <1>2, <1>3, <1>4, <1>5, <1>6 DEF DeleterStep

\* A subscriber that keeps up has every stored message as it is stored, once its
\* writer announced what it did: a failed update is never shown, and no deletion
\* is announced of a message that is still there.
THEOREM ViewIsCurrent == Spec => []ViewFollows
<1>1. Init => Seen
  BY DEF Init, Idle, Seen
<1>2. IInv /\ Seen /\ [Next]_vars => Seen'
  <2> SUFFICES ASSUME IInv, Seen, [Next]_vars PROVE Seen'
    OBVIOUS
  <2>1. CASE UNCHANGED vars
    BY <2>1 DEF vars, Seen
  <2>2. CASE UNCHANGED <<messages, writer, deleter, view>>
    BY <2>2 DEF Seen
  <2>3. ASSUME NEW s \in Roots, CreateSession(s) PROVE Seen'
    BY <2>2, <2>3 DEF CreateSession, actors
  <2>4. ASSUME NEW u \in Turns, TurnStep(u) PROVE Seen'
    BY <2>2, <2>4 DEF TurnStep, TrackGet, TrackSave, TrackFails
  <2>5. ASSUME NEW t \in Tasks, TaskStep(t) PROVE Seen'
    BY <2>2, <2>5 DEF TaskStep, CreateTaskSession, TaskGetChild, TaskGetParent, TaskSave, TaskFails
  <2> QED BY <2>1, <2>3, <2>4, <2>5, WriterSeen, DeleterSeen DEF Next
<1>3. Seen => ViewFollows
  BY DEF Seen, ViewFollows
<1> QED BY <1>1, <1>2, <1>3, Inductive, PTL DEF Spec

-----------------------------------------------------------------------------
(* What the sessions cost.                                                 *)

\* The turns a session was charged for: its own, and those of its tasks whose
\* tools have added them.
Charged(s) ==
    {u \in Turns :
        /\ turn[u].at = "done"
        /\ SessionOfTurn[u] = s \/ \E t \in Tasks :
              t = SessionOfTurn[u] /\ ParentOf[t] = s /\ task[t].at = "done"}

\* No copy of a cost, in a row or held by a turn or a tool, is more than what
\* the session was charged for.
RowCosts  == \A s \in Ids : sessions[s] # Absent =>
                 sessions[s].cost <= Cardinality(Charged(s))
TurnCosts == \A u \in Turns : turn[u].at = "save" =>
                 turn[u].read.cost <= Cardinality(Charged(SessionOfTurn[u]))
TaskCosts == \A t \in Tasks :
    /\ task[t].at \in {"getParent", "save"} => task[t].cost <= Cardinality(Charged(t))
    /\ task[t].at = "save" => task[t].read.cost <= Cardinality(Charged(ParentOf[t]))

Costs == RowCosts /\ TurnCosts /\ TaskCosts

LEMMA ChargedFinite == \A s : IsFiniteSet(Charged(s)) /\ Cardinality(Charged(s)) \in Nat
<1> SUFFICES ASSUME NEW s PROVE IsFiniteSet(Charged(s)) /\ Cardinality(Charged(s)) \in Nat
  OBVIOUS
<1>1. Charged(s) \subseteq Turns
  BY DEF Charged
<1> QED BY <1>1, TablesAssumption, FS_Subset, FS_CardinalityType

\* The same of the next state, and: who is charged stays charged.
LEMMA ChargedGrows ==
    ASSUME \A u \in Turns : turn[u].at = "done" => turn'[u].at = "done",
           \A t \in Tasks : task[t].at = "done" => task'[t].at = "done"
    PROVE  \A s : /\ IsFiniteSet(Charged(s)') /\ Cardinality(Charged(s)') \in Nat
                  /\ Charged(s) \subseteq Charged(s)'
                  /\ \A n \in Nat : n <= Cardinality(Charged(s)) => n <= Cardinality(Charged(s)')
<1> SUFFICES ASSUME NEW s
             PROVE  /\ IsFiniteSet(Charged(s)') /\ Cardinality(Charged(s)') \in Nat
                    /\ Charged(s) \subseteq Charged(s)'
                    /\ \A n \in Nat : n <= Cardinality(Charged(s)) => n <= Cardinality(Charged(s)')
  OBVIOUS
<1>1. Charged(s)' \subseteq Turns /\ Charged(s) \subseteq Charged(s)'
  BY DEF Charged
<1>2. IsFiniteSet(Charged(s)') /\ Cardinality(Charged(s)') \in Nat
  BY <1>1, TablesAssumption, FS_Subset, FS_CardinalityType
<1>3. Cardinality(Charged(s)) <= Cardinality(Charged(s)') /\ Cardinality(Charged(s)) \in Nat
  BY <1>1, <1>2, FS_Subset, ChargedFinite
<1> QED BY <1>1, <1>2, <1>3

\* A step after which each copy is an old one or is accounted for.
LEMMA CostsAsBefore ==
    ASSUME IInv, Costs,
           \A u \in Turns : turn[u].at = "done" => turn'[u].at = "done",
           \A t \in Tasks : task[t].at = "done" => task'[t].at = "done",
           \A s \in Ids : sessions'[s] # Absent =>
               \/ sessions[s] # Absent /\ sessions'[s].cost = sessions[s].cost
               \/ sessions'[s].cost <= Cardinality(Charged(s)'),
           \A u \in Turns : turn'[u].at = "save" =>
               \/ turn'[u] = turn[u]
               \/ turn'[u].read.cost <= Cardinality(Charged(SessionOfTurn[u])'),
           \A t \in Tasks :
               \/ task'[t] = task[t]
               \/ /\ task'[t].at \in {"getParent", "save"} => task'[t].cost <= Cardinality(Charged(t)')
                  /\ task'[t].at = "save" =>
                        task'[t].read.cost <= Cardinality(Charged(ParentOf[t])')
    PROVE  Costs'
<1>0. \A s : \A n \in Nat : n <= Cardinality(Charged(s)) => n <= Cardinality(Charged(s)')
  BY ChargedGrows
<1>1. RowCosts'
  <2>1. \A s \in Ids : sessions[s] # Absent => sessions[s].cost \in Nat
    BY DEF IInv, TypeOK, Session
  <2> QED BY <1>0, <2>1 DEF Costs, RowCosts
<1>2. TurnCosts'
  <2>1. \A u \in Turns : turn[u].at = "save" => turn[u].read.cost \in Nat
    BY DEF IInv, Held, Session
  <2> QED BY <1>0, <2>1 DEF Costs, TurnCosts
<1>3. TaskCosts'
  <2>1. \A t \in Tasks : task[t].cost \in Nat /\ (task[t].at = "save" => task[t].read.cost \in Nat)
    BY DEF IInv, TypeOK, Held, Session
  <2> QED BY <1>0, <2>1 DEF Costs, TaskCosts
<1> QED BY <1>1, <1>2, <1>3 DEF Costs

\* What UpdateSession leaves in the rows.
LEMMA UpdatedRow ==
    ASSUME IInv, NEW s \in Ids, NEW row \in Session, NEW c \in Nat,
           UpdateSession(s, [row EXCEPT !.cost = @ + c])
    PROVE  /\ sessions'[s].cost = row.cost + c
           /\ \A r \in Ids \ {s} : sessions'[r] = sessions[r]
<1> DEFINE saved == [row EXCEPT !.cost = @ + c]
<1>1. saved.cost = row.cost + c
  BY DEF Session
<1>2. UpdateSession(s, saved)
  OBVIOUS
<1> HIDE DEF saved
<1>3. sessions[s] \in Session
  BY <1>2 DEF UpdateSession, IInv, TypeOK
<1> DEFINE new == [sessions[s] EXCEPT !.cost = saved.cost]
<1>4. new.cost = saved.cost
  BY <1>3 DEF Session
<1>5. sessions' = [sessions EXCEPT ![s] = new]
  BY <1>2 DEF UpdateSession
<1> HIDE DEF new
<1> QED BY <1>1, <1>4, <1>5 DEF IInv, TypeOK

LEMMA TurnCharges == ASSUME IInv, Costs, NEW u \in Turns, TurnStep(u) PROVE Costs'
<1> USE TablesAssumption
<1> DEFINE s == SessionOfTurn[u]
<1>0. s \in Ids
  OBVIOUS
<1>1. CASE TrackGet(u)
  <2>1. /\ turn'[u].at = "save" /\ turn'[u].read = sessions[s] /\ turn[u].at = "get"
        /\ \A x \in Turns \ {u} : turn'[x] = turn[x]
        /\ UNCHANGED <<sessions, task>> /\ sessions[s] # Absent
    BY <1>1 DEF TrackGet, IInv, TypeOK
  <2>2. sessions[s].cost \in Nat /\ sessions[s].cost <= Cardinality(Charged(s))
    BY <1>0, <2>1 DEF IInv, TypeOK, Session, Costs, RowCosts
  <2>3. /\ \A x \in Turns : turn[x].at = "done" => turn'[x].at = "done"
        /\ \A t \in Tasks : task[t].at = "done" => task'[t].at = "done"
    BY <2>1
  <2>4. turn'[u].read.cost <= Cardinality(Charged(s)')
    BY <2>1, <2>2, <2>3, ChargedGrows
  <2> QED BY <2>1, <2>3, <2>4, CostsAsBefore
<1>2. CASE TrackSave(u)
  <2>0. turn[u].read \in Session /\ UpdateSession(s, [turn[u].read EXCEPT !.cost = @ + 1])
    BY <1>2 DEF TrackSave, IInv, Held
  <2>1. /\ turn'[u].at = "done" /\ turn[u].at = "save"
        /\ \A x \in Turns \ {u} : turn'[x] = turn[x]
        /\ UNCHANGED task
    BY <1>2 DEF TrackSave, IInv, TypeOK
  <2>2. /\ sessions'[s].cost = turn[u].read.cost + 1
        /\ \A r \in Ids \ {s} : sessions'[r] = sessions[r]
    BY <1>0, <2>0, UpdatedRow
  <2>3. /\ \A x \in Turns : turn[x].at = "done" => turn'[x].at = "done"
        /\ \A t \in Tasks : task[t].at = "done" => task'[t].at = "done"
    BY <2>1
  <2>4. u \notin Charged(s) /\ u \in Charged(s)' /\ Charged(s) \subseteq Charged(s)'
    BY <2>1, <2>3, ChargedGrows DEF Charged
  <2>5. /\ IsFiniteSet(Charged(s)') /\ Cardinality(Charged(s)') \in Nat
        /\ IsFiniteSet(Charged(s)) /\ Cardinality(Charged(s)) \in Nat
    BY <2>3, ChargedGrows, ChargedFinite
  <2>6. Cardinality(Charged(s)) + 1 <= Cardinality(Charged(s)')
    <3> DEFINE old == Charged(s)
               all == Charged(s)'
    <3> HIDE DEF old, all
    <3>1. u \notin old /\ IsFiniteSet(old) /\ IsFiniteSet(all) /\ old \cup {u} \in SUBSET all
      BY <2>4, <2>5 DEF old, all
    <3>2. Cardinality(old \cup {u}) = Cardinality(old) + 1
      BY <3>1, FS_AddElement
    <3>3. Cardinality(old \cup {u}) <= Cardinality(all)
      BY <3>1, FS_Subset
    <3> QED BY <3>2, <3>3 DEF old, all
  <2>7. turn[u].read.cost \in Nat /\ turn[u].read.cost <= Cardinality(Charged(s))
    BY <2>0, <2>1 DEF Session, Costs, TurnCosts
  <2>8. sessions'[s].cost <= Cardinality(Charged(s)')
    BY <2>2, <2>5, <2>6, <2>7
  <2>9. UpdateSession(s, [turn[u].read EXCEPT !.cost = @ + 1]) => sessions[s] # Absent
    BY DEF UpdateSession
  <2> QED BY <2>1, <2>2, <2>3, <2>8, CostsAsBefore
<1>3. CASE TrackFails(u)
  <2>1. /\ turn'[u].at = "failed" /\ turn[u].at # "done"
        /\ \A x \in Turns \ {u} : turn'[x] = turn[x]
        /\ UNCHANGED <<sessions, task>>
    BY <1>3 DEF TrackFails, IInv, TypeOK
  <2> QED BY <2>1, CostsAsBefore
<1> QED BY <1>1, <1>2, <1>3 DEF TurnStep

LEMMA TaskCharges == ASSUME IInv, Costs, NEW t \in Tasks, TaskStep(t) PROVE Costs'
<1> USE TablesAssumption
<1> DEFINE p == ParentOf[t]
<1>0. t \in Ids /\ p \in Ids /\ p \in Roots /\ p # t
  BY DEF Ids
<1>r. task[t] \in TaskJob
  BY DEF IInv, TypeOK, TaskJob
<1>1. CASE CreateTaskSession(t)
  <2> DEFINE row == [parent |-> p, count |-> 0, cost |-> 0]
  <2>1. row.cost = 0
    OBVIOUS
  <2>2. sessions' = [sessions EXCEPT ![t] = row] /\ UNCHANGED turn /\ task[t].at = "create"
    BY <1>1 DEF CreateTaskSession, InsertSession
  <2> HIDE DEF row
  <2>3. /\ task'[t].at = "run" /\ \A x \in Tasks \ {t} : task'[x] = task[x]
        /\ sessions'[t].cost = 0 /\ \A x \in Ids \ {t} : sessions'[x] = sessions[x]
    BY <1>0, <1>1, <1>r, <2>1, <2>2 DEF CreateTaskSession, IInv, TypeOK, TaskJob
  <2>4. Cardinality(Charged(t)') \in Nat
    BY <2>2, <2>3, ChargedGrows
  <2> QED BY <2>2, <2>3, <2>4, CostsAsBefore
<1>2. CASE TaskGetChild(t)
  <2>1. /\ task'[t].at = "getParent" /\ task'[t].cost = sessions[t].cost
        /\ \A x \in Tasks \ {t} : task'[x] = task[x]
        /\ task[t].at = "run" /\ sessions[t] # Absent /\ UNCHANGED <<sessions, turn>>
    BY <1>2, <1>r DEF TaskGetChild, IInv, TypeOK, TaskJob
  <2>2. sessions[t].cost \in Nat /\ sessions[t].cost <= Cardinality(Charged(t))
    BY <1>0, <2>1 DEF IInv, TypeOK, Session, Costs, RowCosts
  <2>3. task'[t].cost <= Cardinality(Charged(t)')
    BY <2>1, <2>2, ChargedGrows
  <2> QED BY <2>1, <2>3, CostsAsBefore
<1>3. CASE TaskGetParent(t)
  <2>1. /\ task'[t].at = "save" /\ task'[t].cost = task[t].cost /\ task'[t].read = sessions[p]
        /\ \A x \in Tasks \ {t} : task'[x] = task[x]
        /\ task[t].at = "getParent" /\ sessions[p] # Absent /\ UNCHANGED <<sessions, turn>>
    BY <1>3, <1>r DEF TaskGetParent, IInv, TypeOK, TaskJob
  <2>2. /\ sessions[p].cost \in Nat /\ sessions[p].cost <= Cardinality(Charged(p))
        /\ task[t].cost \in Nat /\ task[t].cost <= Cardinality(Charged(t))
    BY <1>0, <1>r, <2>1 DEF IInv, TypeOK, Session, TaskJob, Costs, RowCosts, TaskCosts
  <2>3. /\ \A u \in Turns : turn[u].at = "done" => turn'[u].at = "done"
        /\ \A x \in Tasks : task[x].at = "done" => task'[x].at = "done"
    BY <2>1
  <2>4. /\ task'[t].cost <= Cardinality(Charged(t)')
        /\ task'[t].read.cost <= Cardinality(Charged(p)')
    BY <2>1, <2>2, <2>3, ChargedGrows
  <2> QED BY <2>1, <2>3, <2>4, CostsAsBefore
<1>4. CASE TaskSave(t)
  <2>0. /\ task[t].read \in Session /\ task[t].cost \in Nat /\ task[t].at = "save"
        /\ UpdateSession(p, [task[t].read EXCEPT !.cost = @ + task[t].cost])
    BY <1>4, <1>r DEF TaskSave, IInv, TaskJob, Held
  <2>1. /\ task'[t].at = "done" /\ \A x \in Tasks \ {t} : task'[x] = task[x]
        /\ UNCHANGED turn
    BY <1>4 DEF TaskSave, IInv, TypeOK
  <2>2. /\ sessions'[p].cost = task[t].read.cost + task[t].cost
        /\ \A r \in Ids \ {p} : sessions'[r] = sessions[r]
    BY <1>0, <2>0, UpdatedRow
  <2>3. /\ \A u \in Turns : turn[u].at = "done" => turn'[u].at = "done"
        /\ \A x \in Tasks : task[x].at = "done" => task'[x].at = "done"
    BY <2>1
  \* The sub-agent's turns were not charged to the parent before, and are now.
  <2>4. Charged(t) \cap Charged(p) = {} /\ Charged(t) \cup Charged(p) \subseteq Charged(p)'
    <3>1. \A u \in Charged(t) : turn[u].at = "done" /\ SessionOfTurn[u] = t
      BY <1>0 DEF Charged
    <3>2. Charged(t) \cap Charged(p) = {}
      BY <1>0, <2>0, <3>1 DEF Charged
    <3>3. Charged(p) \subseteq Charged(p)'
      BY <2>3, ChargedGrows
    <3>4. Charged(t) \subseteq Charged(p)'
      BY <2>1, <3>1 DEF Charged
    <3> QED BY <3>2, <3>3, <3>4
  <2>5. /\ IsFiniteSet(Charged(p)') /\ Cardinality(Charged(p)') \in Nat
        /\ IsFiniteSet(Charged(p)) /\ Cardinality(Charged(p)) \in Nat
        /\ IsFiniteSet(Charged(t)) /\ Cardinality(Charged(t)) \in Nat
    BY <2>3, ChargedGrows, ChargedFinite
  <2>6. Cardinality(Charged(p)) + Cardinality(Charged(t)) <= Cardinality(Charged(p)')
    <3> DEFINE own == Charged(t)
               old == Charged(p)
               all == Charged(p)'
    <3> HIDE DEF own, old, all
    <3>1. /\ IsFiniteSet(own) /\ IsFiniteSet(old) /\ IsFiniteSet(all)
          /\ own \cap old = {} /\ own \cup old \in SUBSET all
          /\ Cardinality(own) \in Nat /\ Cardinality(old) \in Nat
      BY <2>4, <2>5 DEF own, old, all
    <3>2. Cardinality(own \cup old) = Cardinality(own) + Cardinality(old)
      <4>1. Cardinality(own \cup old) = Cardinality(own) + Cardinality(old) - Cardinality(own \cap old)
        BY <3>1, FS_Union
      <4>2. Cardinality(own \cap old) = 0
        BY <3>1, FS_EmptySet
      <4> QED BY <3>1, <4>1, <4>2
    <3>3. Cardinality(own \cup old) <= Cardinality(all)
      BY <3>1, FS_Subset
    <3> QED BY <3>1, <3>2, <3>3 DEF own, old, all
  <2>7. /\ task[t].read.cost \in Nat /\ task[t].read.cost <= Cardinality(Charged(p))
        /\ task[t].cost <= Cardinality(Charged(t))
    BY <2>0 DEF Session, Costs, TaskCosts
  <2>8. sessions'[p].cost <= Cardinality(Charged(p)')
    BY <2>0, <2>2, <2>5, <2>6, <2>7
  <2> QED BY <2>1, <2>2, <2>3, <2>8, CostsAsBefore
<1>5. CASE TaskFails(t)
  <2>1. /\ task'[t].at = "failed" /\ task[t].at # "done"
        /\ \A x \in Tasks \ {t} : task'[x] = task[x]
        /\ UNCHANGED <<sessions, turn>>
    BY <1>5 DEF TaskFails, IInv, TypeOK
  <2> QED BY <2>1, CostsAsBefore
<1> QED BY <1>1, <1>2, <1>3, <1>4, <1>5 DEF TaskStep

\* The trigger leaves the cost alone.
LEMMA CountKeepsCost ==
    ASSUME IInv, NEW s \in Ids, NEW n \in Int, Count(s, n)
    PROVE  \A r \in Ids : sessions'[r] # Absent =>
               sessions[r] # Absent /\ sessions'[r].cost = sessions[r].cost
<1>1. CASE sessions[s] = Absent
  BY <1>1 DEF Count
<1>2. CASE sessions[s] # Absent
  <2> DEFINE new == [sessions[s] EXCEPT !.count = @ + n]
  <2>1. new.cost = sessions[s].cost
    BY <1>2 DEF IInv, TypeOK, Session
  <2>2. sessions' = [sessions EXCEPT ![s] = new]
    BY <1>2 DEF Count
  <2> HIDE DEF new
  <2> QED BY <1>2, <2>1, <2>2 DEF IInv, TypeOK
<1> QED BY <1>1, <1>2

\* A session costs no more than the turns charged to it and to those of its
\* tasks whose tools are done: turns and tools that read and save at the same
\* time may lose a charge, but none is counted twice.
THEOREM NothingChargedTwice == Spec => []CostNeverTooHigh
<1> USE TablesAssumption
<1>1. Init => Costs
  BY DEF Init, Costs, RowCosts, TurnCosts, TaskCosts
<1>2. IInv /\ Costs /\ [Next]_vars => Costs'
  <2> SUFFICES ASSUME IInv, Costs, [Next]_vars PROVE Costs'
    OBVIOUS
  \* Steps that charge nobody.
  <2>q. ASSUME UNCHANGED <<turn, task>>,
               \A r \in Ids : sessions'[r] # Absent =>
                   sessions[r] # Absent /\ sessions'[r].cost = sessions[r].cost
        PROVE  Costs'
    BY <2>q, CostsAsBefore
  <2>1. CASE UNCHANGED vars
    BY <2>1, <2>q DEF vars
  <2>2. ASSUME NEW s \in Roots, CreateSession(s) PROVE Costs'
    <3> DEFINE row == [parent |-> Absent, count |-> 0, cost |-> 0]
    <3>1. row.cost = 0 /\ s \in Ids
      BY DEF Ids
    <3>2. sessions' = [sessions EXCEPT ![s] = row] /\ UNCHANGED <<turn, task>>
      BY <2>2 DEF CreateSession, InsertSession, actors
    <3> HIDE DEF row
    <3>3. sessions'[s].cost = 0 /\ \A x \in Ids \ {s} : sessions'[x] = sessions[x]
      BY <3>1, <3>2 DEF IInv, TypeOK
    <3>4. Cardinality(Charged(s)') \in Nat
      BY <3>2, ChargedGrows
    <3> QED BY <3>2, <3>3, <3>4, CostsAsBefore
  <2>3. ASSUME NEW m \in Messages, WriterStep(m) PROVE Costs'
    <3>1. ASSUME NEW s \in Ids, CreateMessage(m, s) PROVE Costs'
      BY <2>q, <3>1, CountKeepsCost DEF CreateMessage, InsertMessage
    <3> QED BY <2>3, <2>q, <3>1 DEF WriterStep, Update, Announce
  <2>4. ASSUME NEW d \in Deleters, DeleterStep(d) PROVE Costs'
    <3>1. CASE DeleteSessionRow(d)
      <4>1. \A r \in Ids : sessions'[r] # Absent => sessions'[r] = sessions[r]
        BY <3>1 DEF DeleteSessionRow, DropSession, IInv, TypeOK
      <4> QED BY <2>q, <3>1, <4>1 DEF DeleteSessionRow
    <3>2. CASE DeleteMessage(d)
      <4>1. deleter[d].id \in Messages /\ DropMessage(deleter[d].id) /\ UNCHANGED <<turn, task>>
        BY <3>2 DEF DeleteMessage, IInv, Held
      <4>2. CASE messages[deleter[d].id] = Absent
        BY <2>q, <4>1, <4>2 DEF DropMessage
      <4>3. CASE messages[deleter[d].id] # Absent
        <5>1. messages[deleter[d].id].session \in Ids
          BY <4>1, <4>3 DEF IInv, TypeOK, Message
        <5>2. Count(messages[deleter[d].id].session, -1)
          BY <4>1, <4>3 DEF DropMessage
        <5> QED BY <2>q, <4>1, <5>1, <5>2, CountKeepsCost
      <4> QED BY <4>2, <4>3
    <3> QED BY <2>4, <2>q, <3>1, <3>2
          DEF DeleterStep, DeleteSession, DeleteMessages, GetMessage, AnnounceDeleted
  <2> QED BY <2>1, <2>2, <2>3, <2>4, TurnCharges, TaskCharges DEF Next
<1>3. Costs => CostNeverTooHigh
  BY DEF Costs, RowCosts, Charged, CostNeverTooHigh
<1> QED BY <1>1, <1>2, <1>3, Inductive, PTL DEF Spec
=============================================================================
