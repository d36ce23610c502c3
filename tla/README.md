# Verification of gentica

gentica is a Go library and a chat program that let a language model work with tools. A caller
gives an agent a prompt for a session; the agent stores it, streams the model's answer, runs the
tools the model asks for, feeds their results back, and goes on until the model is done. Prompts
that arrive meanwhile wait in a queue; anything may be cancelled at any time; every change of the
store is announced to subscribers.

This directory holds TLA+ models of that code, TLC configurations that check them on small
instances, and proofs that TLAPS checks. All definitions are read off the Go source; `PROJECT.json`
names for each the lines it stands for, and the definitions without an entry are properties,
abbreviations and the variants described under [Mutants](#mutants).

## 1. The system

| Component | Code | State | Operations |
|---|---|---|---|
| Event broker | `pubsub/broker.go` | subscriber map, count, `done`, one buffered channel per subscriber | `Subscribe` and its goroutine, `Publish`, `Shutdown`, `GetSubscriberCount` |
| Agent, request life cycle | `llm/agent/agent.go` | `activeRequests`, `promptQueue`, `state`, one `genCtx` and one events channel per run | `Run` and its goroutine, `Cancel`, `CancelAll`, `ClearQueue`, `IsBusy`, `IsSessionBusy`, `GetState` |
| Agent, generation | `llm/agent/agent.go` | the run's `msgHistory` and assistant message, the provider's stream, the tool results | `processGeneration`, `streamAndHandleEvents`, `processEvent`, `finishMessage`, `TrackUsage` |
| Agent tool | `llm/agent/agent-tool.go` | the sub-agent's session | runs an agent, waits for its result, charges its cost to the parent session |
| Stores | `session`, `message`, `db` | SQLite tables `sessions` and `messages` with triggers and foreign keys | `Create`, `Save`, `Update`, `Delete`, `List`, `DeleteSessionMessages`, with their events |
| MCP clients | `llm/agent/mcp-tools.go` | maps of clients and of server states | start of all clients, tool calls with ping and renewal, closing |
| File tools | `llm/tools/{view,write,edit,multiedit,file}.go` | files, and records of reads and writes | one read-modify-write per call; a page of lines |
| Search tools | `llm/tools/{glob,grep,ls,rg}.go` | what a call has found so far | ripgrep or a walk, braces, sorting, limits, the tree of `ls` |
| Network and shell tools | `llm/tools/{bash,fetch,download,sourcegraph,safe}.go` | the downloaded file | one request or command per call |
| Configuration | `config` | the loaded configuration, the user's data file, a cached list of providers | `Load` with its merge, providers and default models; `UpdatePreferredModel`, `SetProviderAPIKey`, `SetConfigField`; the provider cache and its background update |
| Chat program | `chat-new` | a global chat history, a registry of functions | `SendChatMessageWithTools` and its recursion, `ClearChatHistory` |
| Design documents | `docs` | – | notes on a role-playing engine that is not in this code |

How they interact. The agent calls the message and session services, which run SQL statements one
by one and then publish on their broker; it publishes its own results on a broker of its own. A run
is a goroutine; `Run`, `Cancel`, `CancelAll` and further runs of the same session act on the shared
maps under three separate mutexes. Tools run in goroutines that a cancelled run leaves behind. The
agent tool starts a whole agent inside a tool call and reads its events channel. MCP tools go
through the client maps, which renewals and the shutdown change under them. The chat program uses the
same tools through an adapter, one after the other, and no agent. Every start of a program reads and
may write two files that other processes use too, the data file of the configuration and the cache
of providers.

What is hard, and what makes each component correct:

* **Broker.** Two parties may close a channel, the count must match the map, a shutdown must be
  final, and a subscriber must see a subsequence of each publisher's events. `Publish` sends
  outside the lock, so it can meet a closed channel and panic.
* **Requests.** Check and registration are two critical sections; a run deletes an entry that may
  be another's; the idle test and the write of the state are apart; a panic skips the cleanup.
  Still no entry and no "processing" may outlive the runs, prompts must be neither lost from sight,
  doubled nor reordered, and a cancelled run must end.
* **Generation.** Every way out of a turn (cancellation in the stream, before a tool, in a tool;
  errors of provider and store; a stream without an end) must leave messages that are finished and
  tool calls that are answered, and a history that agrees with the store.
* **Stores.** Sessions are read and saved whole by overlapping turns, and deleted while runs work in
  them; triggers, cascades and events must still agree.
* **MCP clients.** Several goroutines start clients, several calls renew one, any of them fails.
* **File tools.** No lock between read and write, a write that first truncates, replacing
  algorithms that must agree with each other and with the file's line endings; a page of a file
  with a note that must be right about the rest.
* **Search tools.** Walks that stop early, results that are sorted after that, limits that are checked
  in several places, files that disappear meanwhile, two implementations of one search.
* **Configuration.** A list of providers from the network, a file or both; files merged field by
  field whose parts were written for another list; a data file rewritten whole for each field.
* **Chat program.** One history, appended to by whoever is under way; every call needs its result.

Section 8 says what of this is not modelled.

## 2. Modules

```
PromptLedger <--refines-- AgentRuns <--refines, step by step-- Generation <-- GenerationProofs
                             |
                       AgentRunsProofs            SessionStore <-- SessionStoreProofs
                                                  McpClients <-- McpClientsProofs
EventStream  <--refines-- Broker                  Chat <-- ChatProofs           Search
                             |
                       BrokerProofs
TextEdit, TextView <--extends-- FileTools <-- FileToolsProofs
ProviderCache <--extends-- Configuration <-- ConfigurationProofs
```

Each `MC<module>` extends its module with the small sets its `.cfg` files use.

| Module | What it models |
|---|---|
| `PromptLedger` | Abstract: a prompt is accepted once, then recorded once in the log of its session or dropped for good. |
| `AgentRuns` | The request life cycle. One action is one critical section, one channel operation or one call of the message store. |
| `AgentRunsProofs` | Type correctness, the registry, the state field, the order of drained prompts, and that `AgentRuns` implements `PromptLedger`: for all calls and sessions. |
| `Generation` | One run from the inside: the rows of its session, its copies of them, the provider's stream, the tool loop. |
| `GenerationProofs` | Answered tool calls, an honest history, finished messages, the mark of a cancellation, and that `Generation` implements `AgentRuns` step by step: for any prompts, tools, stored sessions and bounds. |
| `EventStream` | Abstract: what a subscriber is promised. |
| `Broker` | Subscribe, Publish, Shutdown and the goroutines of subscriptions. |
| `BrokerProofs` | The count, the single close, the finality of a shutdown, and that `Broker` implements `EventStream`: for all subscribers, publishers and shutdowns. |
| `SessionStore` | The two tables with their statements, triggers and foreign keys, and the services, turns, sub-agents and users over them. |
| `SessionStoreProofs` | Counts, no orphans, deletions that last, what subscribers see, no charge counted twice: for all sessions, messages, turns, tools and deleters. |
| `McpClients` | Start, use, renewal and closing of MCP clients. |
| `McpClientsProofs` | Offered tools have a client, and calls an initialized one: for all servers and tool calls. |
| `TextEdit` | How edit and multiedit change a text; no state. |
| `TextView` | What view shows of a text, and the note it adds; no state. |
| `FileTools` | Calls of the four file tools on one file. |
| `FileToolsProofs` | Creations that touch nothing, multiedit as a series of edits, files that hold what was asked for, pages of `view` that are right: for any number of calls, requests and texts. |
| `ProviderCache` | How a start gets the list of providers: the cache file, the fetch, the update in the background. |
| `Configuration` | Starts that load the configuration over `ProviderCache`, and the user's changes of the data file. |
| `ConfigurationProofs` | Selected models that exist, changes that survive, and a cached list that is enough: for any processes, starts, files, surroundings and changes. |
| `Search` | One call of `glob`, `grep` or `ls` on a tree whose files may disappear. |
| `Chat` | Requests of the chat program on their common history. |
| `ChatProofs` | Each result of the history belongs to one call before it, and what is sent answers every call: for any requests and functions. |

### AgentRuns and the code

A call of `Run` stands for its prompt. `pc[c]` first walks through `Run` (`RunCheck`, then `Enqueue`
or `Register` and `SetProcessing`), then through the goroutine: `Start` (the first user message), the
loop, one turn as a single choice (`TurnToolUse`, `TurnEnd`, `TurnStop`, `TurnFails`), the two drains
with their different treatment of empty prompts, and the tail `Cleanup`, `CheckIdle`, `SetIdle`,
`CancelAndPublish`, `Deliver` or `DropResult`. `PanicCreating` and `PanicStreaming` are a publish of
the message service that met a closed channel: the row is written, the recover handler
(`DeliverPanic`) is all that follows. `active`, `queue` and `state` are `activeRequests`,
`promptQueue` and `a.state`; `cancelled[c]` says that `genCtx` is done, `recv[c]` is the reader's end
of the events channel. `CancelAll` is a test, a snapshot, one `Cancel` per session and a wait that
a timeout may end.

### Generation and the code

`rows` is the session's part of the messages table, a row's index its id; `hist` is `msgHistory` as
pairs of an id and a copy; `msg` is the assistant message in memory, whose zero value has id 0 and so
updates no row. A message is its role, prompt, tool calls, tool results and finish reason; text
deltas change nothing that is modelled. Updates whose error the code ignores may not happen
(`UpdateOrNot`). Every failure but the context's sets `broken`, so that properties can say what holds
without such failures. `StepsAreTurns` maps each step to a step of `AgentRuns` or to a stutter: the
stream, the tool loop and the storing of results are inside what `AgentRuns` calls one turn.

### Broker and the code

`chan[s]` is the channel of a subscription, `buf[s]` what lies in it, `watch[s]` the goroutine that
waits for its context. `Publish` copies the subscribers (`todo`) and `Send` meets them one by one. A
close or a send on a closed channel is recorded in `panics` and ends whoever did it.

### SessionStore and the code

A statement is one step, with its trigger and cascade: `InsertMessage` counts the session up,
`DropMessage` down, `DropSession` takes the messages along, `UpdateSession` sets the cost and neither
the count nor the parent. The services run several statements. A turn's `TrackUsage` is `TrackGet`
and `TrackSave`; the agent tool is `CreateTaskSession`, `TaskGetChild`, `TaskGetParent`, `TaskSave`. A
cost is a number of charges, a message's parts a revision number. `view` is what a subscriber that
keeps up has, from the events. Foreign keys are taken as enforced on every connection:
`db/connect.go` sets them with one statement on a pool, and whether a second connection has them
depends on the driver.

### McpClients and the code

A client is named by who creates it: the goroutine of a server or a renewing call. `boot[n]` is the
goroutine of `doGetMCPTools` (with its recover handler), `call[c]` a tool call in `runTool` and
`getOrRenewClient`, `gone` the calls whose context is done, `closing` the loop of `CloseMCPClients`. Each
map operation is a step, because the maps lock for one operation only. A call of the client library
succeeds, fails or, while its context lasts, does not return.

### FileTools and the code

A call begins (`Begin`), looks (`Stat`), reads and computes (`Read`, `ReadView`, `ReadSame`), then `Open`
truncates, `Put` writes from the start of the file over what is there, and `Record` notes it. Each step may
fail as the code lets it: a `write` whose `os.Stat` fails goes on as if there were no file. Calls with
`serial` set follow each other, as those of one run do; the others overlap, as those of several runs do, or
one that a cancelled run left behind. `TextEdit` writes Go's `strings` functions by what they do: `Taken` is
the set of occurrences `Count` counts and `Replace` replaces, left to right without overlap; `Places` are
all occurrences, whose ends are `Index` and `LastIndex`. `TextView` follows `readTextFile`, with the line
that the scan takes and does not count; `ScanLines` goes from one line end to the next, by a recursive
function on the ends of the lines.

### Configuration and the code

A file is a function from paths to values; merging (`Overlay`) overrides a value and joins the arrays named
`models`, which is what `jsons.Merge` does to them. A start (`step[l]`) reads the files (`Start`), asks for
the list of providers, which is `ProviderCache`'s part, and then `Configure` computes the providers that are
kept (`configureProviders`: those known ones that resolve, then the user's own) and the two selected models
(`configureSelectedModels`). An empty field overrides nothing (`Given`). Without a provider (`Unconfigured`)
the models stay what the files say. A fallback is a job to store a preference, done by the same
`SetConfigField` steps as a change of the user: `Get` reads the whole data file, `OpenData` truncates it,
`PutData` writes the text with the one field set. `SetModel` and `SetKey` are `UpdatePreferredModel`, which
takes any of `Preferences`, and `SetProviderAPIKey`. What the shell resolves is a set of strings of the
surroundings (`site.resolves`).

In `ProviderCache` each process asks once (`sync.Once`: who comes second waits, `Follow`); a fresh file
is used and updated in the background, an old or missing one is fetched again, and a failing fetch
falls back to a file of any age. The write is `os.WriteFile`, truncate and write, and a process may end
between the two.

### Search and the code

An entry is a path of the tree with its attributes; what a pattern matches is an attribute, too.
`WalkGlob`, `WalkRegex` and `WalkList` take one entry a step, in the order of the walk, so that a file may
disappear (`Unlink`) at any point before it is looked at; they skip hidden and ignored entries as the
code does and stop where it does. `Ripgrep` stands for the child process, `RipgrepFails` for the fall
back to the walk. `GlobOnce` and `NextPattern` are the two ways of `globFiles`, without and with braces.
`Finish` sorts, cuts and flags.

### Chat and the code

`sent[r]` is the copy of the history that a request sends, `todo[r]` the calls of the answer it still
has to run. Each access to the history under its lock is a step, and so two requests interleave
between them. The functions succeed or fail; the adapter turns a tool's error into a failure.

## 3. What the runs check

| Run | Instance | Shows |
|---|---|---|
| `AgentRuns_main` | three calls of one session, one prompt empty; without `CancelAll` | `TypeOK`; `RegistryOwner`, `ProcessingHasRun`: entries and state always have a run behind them. `DrainsInOrder`: a run records prompts in the order they were accepted. `ImplementsLedger`: refinement of `PromptLedger`. |
| `AgentRuns_live` | two calls with readers, `CancelAll`, a cancelling parent | `CancelledRunEnds`, `WaiterAnswered` |
| `AgentRuns_lost` | the same | a finding, see below |
| `Broker_streams` | two subscribers, two publishers with two events and one, buffer of one, one `Shutdown` | `TypeOK`, `CountMatches`, `ClosedOnce`, `ShutdownIsFinal`, `ImplementsStream` (refinement of `EventStream`), `SubscriberReleased` |
| `Generation_turns` | up to two tool calls a message, one to an unknown tool, two queued prompts, one empty; a new session, one with a summary, or one with a call of a cut-short stream | `ToolMessagesComplete`, `HistoryMatchesStore`, `CallsAnswered`, `FinishedOnReturn`, `CancellationRecorded`, `CancelledReturns`, and `StepsAreTurns` against `AgentRuns` |
| `Generation_history` | the same, a new session | a finding |
| `SessionStore_tables` | a session, a task session, three turns, two messages, a deleting user | `CountsMessages`, `NoOrphans`, `CostNeverTooHigh`, `ViewFollows`, `DeletedStaysDeleted` |
| `McpClients_calls` | three servers, one disabled, two calls to one | `OfferedAreCallable`, `CallsInitialized`, `ToolsHandedOut`, `CallsEnd` (a call ends, or waits for its server as long as its caller does) |
| `FileTools_calls` | two calls: every edit on every short text, both line endings, all pairs of ten requests, every short page of every short text, in order and overlapping | `FileIsMeant` (against reference definitions of each tool), `EditsAgree` (multiedit accepts nothing edit refuses, with the same text), `CreationsRefused`, `ViewTells` (the page that was asked for, and a note right to one line) |
| `Configuration_starts` | two starts in one process or two, eight surroundings, two lists of providers, one change of the user: a key, also an empty one, or a model, also one that is not there | `SelectedModelsExist` (whatever the files say, a start that finds a provider ends with models that are there, and only the user's choice takes one away), `ChangesSurvive` (what is stored stays until something replaces it), `StartsWithoutNetwork` (a readable file of any age is enough) |
| `Search_results` | calls of the three tools on a tree of nine entries, every limit that matters, one file disappearing | `Complete` (no flag: every file is there; a flag: the list is full and there are more files, or with ripgrep more lines), `NewestFirst` |
| `Chat_requests` | two requests with up to two calls each of a known, an unknown and a nameless function, one clearing | `Conversation` (what is sent answers every call, in order), `ResultsFollowCalls` (even when requests overlap) |

Two runs check a type invariant; all of those that are stated are proved, but the ones of the abstract
modules, which are there for the reader.
Deadlock is not checked but in `Search_results`: in the other models the work comes to an end (each
call, prompt, turn, message, request and event happens once), and then nothing more has to happen.
Where something must not stop early, a liveness property says so.

### Findings

Each is a run that TLC finds violated; `PROJECT.json` quotes the line it contradicts.

1. `AgentRuns_lost`: `cancel()` comes before the `select` that delivers the result and also listens
   to that context. A run that answered can drop its answer; the agent tool then reports "no
   response" although the sub-agent had one.
2. `Generation_history`: after an end of turn with queued prompts the answer is not appended to
   `msgHistory`; the provider is asked with two user messages in a row and never sees its own answer.

### Behaviour the properties leave room for

The properties state what the code does promise. Met while modelling, and left out of them; where
a comment or a document of the repository says otherwise, it is quoted here, and no run shows it by
itself:

* Agent: a run that registers between the idle test and the write of the state (`agent.go:282-283`) is
  reported idle while it works, so the property is `ProcessingHasRun` and not its converse. The goroutine
  of a tool has no recover (`agent.go:493`): a panic in a tool ends the process.
* Generation: a stream that is cancelled, or breaks, after a tool call began leaves a stored message with
  calls, the finish reason "canceled" or "error" and no tool message (`agent.go:437-447`). The next
  run of the session reads it back (`agent.go:310-322`) and sends it so, for ever after; providers
  refuse calls without results. `CallsAnswered` says that these are the only ones: such calls are `CutShort`,
  from before the run's prompt, and a run whose store works leaves no others.
* Broker: two concurrent `Shutdown`s both find `done` open, and the second close panics
  (`broker.go:33-37`); the model can have several, the run has one.
* Stores: a cost may be lost by overlapping saves, so the property is `CostNeverTooHigh`; an update of a
  deleted message is announced, so `ViewFollows` speaks of stored ones.
* MCP clients: a client that a renewal replaced is never closed (`mcp-tools.go:166`), although
  `CloseMCPClients` "closes all MCP clients". A renewal and the call of a tool have no timeout of their
  own (`mcp-tools.go:122`, `160`): a silent server holds the call until its run is cancelled.
* File tools: two overlapping writes to a file may lose one or mix, so `FileIsMeant` covers calls in order
  and overlaps in which one call writes. A file of mixed line endings has every ending made CRLF by its
  first multiedit, and an edit of such a file that brings a CRLF leaves two carriage returns: `FileIsMeant`
  takes that for what is meant. `edit.go:73` says that edit fails "if old_string matches multiple locations
  and replace_all is false", but `strings.Count` (`edit.go:316`) counts "aa" once in "aaa": edit accepts and
  replaces the first place. `EditMeans` allows the first place, and only if every other one overlaps it;
  multiedit refuses. `TOOLS_SUMMARY.md:37` calls edit "原子操作，失败则不修改文件" (atomic, a failure does not modify the
  file), and `TOOLS_SUMMARY.md:48` and `multiedit.go:56` call the edits of multiedit atomic, "either all
  succeed or none are applied". So it is while the edits are computed: one that is refused leaves the file
  alone, which `FileIsMeant` shows. The write is `os.WriteFile`, which truncates first: when it fails, the
  file holds a beginning of the new text or nothing, which `PartsOf` allows and the run reaches. The records
  of `file.go` are written and never read, whatever `write.go:44` says. The note of `view` is one line
  short, missing when exactly one line remains, and missing when the page ends with empty lines: `ViewTells`
  says what is left.
* Configuration: a start without a usable provider keeps the models the files name, whether there are such
  models or not (`load.go:82-85`), and `UpdatePreferredModel` stores what it is given without a look
  (`config.go:346-352`), so `SelectedModelsExist` speaks of starts that find a provider and of what others
  than the user take away; an empty key that was stored is none for the next start (`load.go:140`), though
  it is the provider's key until then (`config.go:382-386`). A start whose preference cannot be used
  overwrites it in the data file, also when the reason was the project it was started in, and where files
  share a preference by halves the next start can select something else again; a list of providers that
  cannot be saved fails the start; two processes that write at once, or one that ends after truncating, lose
  settings, which `ChangesSurvive` excludes; a key for a known provider that was not configured uses its
  built-in address until the next start; a provider whose identifier has a dot is stored under a split path.
* Search: the tool says "Results are limited to 100 files" (`grep.go:123`) and "Found matches in %d files"
  (`grep.go:223`). The walk finds one line a file, and so it is; with ripgrep the limit, the flag and that
  number count matching lines (`grep.go:271`): one file with two matching lines and a limit of one is
  "truncated" though no file is left out, and the list may have fewer files than the limit. `Complete` has
  the unit of each (`Counted`) and says in files what holds for both: without the flag every file that
  matches is there. A walk that stopped early lists the newest of what it had seen, not the newest there
  are; the first ignore pattern that matches decides in the walks, the last one in ripgrep; nothing below a
  hidden directory is found, because the test looks at the whole path; braces in the wrong order make
  `globFiles` and the expansion call each other without end (`glob.go:149`).
* Chat: a copy of the history taken while another request runs its calls is not a conversation a
  provider accepts; a call without a name is never answered; the rounds of one request have no limit.

### Mutants

A definition under a comment that begins "Variant" is not used by any specification. It is the
definition after it with a plausible bug, and the property paired with it in `PROJECT.json` fails
when it takes that one's place: a check that each property depends on the code.

## 4. Bounds

* Calls: three of one session are the fewest with a run, one that slipped past the check and one
  that waits; a session of its own shares only the state field with these, and the proofs cover any
  number. Two are enough for the channel properties, which concern a run and its reader.
* `NoSweep` leaves `CancelAll` to the run with two calls: it takes the same `Cancel` steps one by one.
* `bufferSize = 1` with two events of a publisher makes a full buffer; two subscribers tell a
  snapshot from the current set.
* `MaxToolTurns = 1` and lists of up to two calls: cancellation before, between and after the tools,
  and a second turn whose history holds the first. `MaxQueueing = 3` lets prompts arrive while there
  are fewer than three rows, which reaches both drains. A session starts empty or summarised.
* `MaxRev = 2`: a message is created and updated once. Two turns of one session overlap; the third is
  the sub-agent's.
* Texts of up to four letters with patterns of up to two: overlapping, adjacent and repeated
  occurrences all appear. Pages of zero (the default), one and two lines of texts with up to six
  lines; `MaxReadSize = 5` so that a file can grow beyond it.
* Two starts are the fewest of which one reads what the other stored. The second list of providers has
  another order, a model and a provider less, and defaults that are not models. `Narrow` splits the
  instance: with the first surroundings the cache takes all its ways and the user changes nothing, with
  the others the cache is fresh and the user makes `MaxChanges = 1` change; what follows a disturbed write
  is not explored, since `ChangesSurvive` says nothing of it.
* The tree has hidden, ignored and nested entries and a tie in the times; one removal is enough to separate
  finding from looking. The limits of the code (100, 1000) are a parameter of the call, small enough for
  early exits, cuts and exact fits.
* `Preferences` has a model of both lists, one that goes, one of the user's own and one of no provider; `Keys`
  a key and the empty one.
* `MaxCalls = 2` and `MaxRounds = 1`: a result between two calls, and a second question after them.
* Symmetry is used in runs without liveness only, for calls or rows that no constant tells apart.

## 5. Fairness

* `AgentRuns`: weak fairness of each goroutine's steps. The Go scheduler runs what can run; the store
  answers; the provider ends its stream, which `TurnFails` stands for when the context is done. A
  reader of a closed channel gets the zero value. No fairness for callers: nobody has to read,
  cancel or clear. A panic whose caller went away stays at its send
  for ever, with its goroutine (`agent.go:261`), and `CancelledRunEnds` says so. A `Run` that only queues
  its prompt returns no channel (`agent.go:243-248`), and who reads that waits for ever; the one reader
  that does not look, `agent-tool.go:66-70`, asks in a task session of its own, which nobody else runs
  in, so that no reader of the model waits there.
* `Generation`: weak fairness of the run; none for tools, which may never return.
* `Broker`: weak fairness of the subscription's goroutine and of a `Shutdown` that began.
* `McpClients`: weak fairness of each goroutine of the start, whose library calls have a context with a
  timeout (`mcp-tools.go:307`), and of a call where it does not wait for its server or has the ping's
  timeout (`:152`). A renewal's `Initialize` and `CallTool` have the context of the caller (`:122`, `:160`):
  they are fair once that is done (`c \in gone`), and before that a server may never answer, so `CallsEnd`
  reads `P ~> (done \/ []waits)`. That `NewClient` and `Close` return is assumed; no context bounds them.
  Nobody has to call a tool, to cancel or to shut down.

## 6. What is proved

`AgentRunsProofs`, from the four assumptions of `AgentRuns` on its constants (each call has a
session, and so on), for any sets of calls and sessions:

* `TypeCorrect`: `Spec => []TypeOK`
* `RegistryOwned`: `Spec => []RegistryOwner`
* `ProcessingJustified`: `Spec => []ProcessingHasRun`
* `SettlesIdle`: `Spec => []QuiescentIdle`
* `LedgerImplemented`: `Spec => ImplementsLedger`
* `PromptsInOrder`: `Spec => DrainsInOrder`

For the first four the invariant is `IInv == TypeOK /\ PanicIsFinal /\ RegistryOwner /\ ProcessingHasRun`.
`ProcessingHasRun` alone is not inductive: a run that finds the agent busy at its idle check leaves
"processing" behind, and must know that the entry it saw belongs to a run which will clear it. That is
`RegistryOwner`. That one in turn excuses runs that panicked, so a panicked run must never move into
another phase: `PanicIsFinal`. The proof has one lemma per shape of step: `QuietStep` (a call moves on,
the registry and the state stay), `StillStep` (nothing the invariant looks at moves but entries that
vanish), then `Register`, `SetProcessing`, and the three steps of the tail by themselves.
`SettlesIdle` follows from the invariant without a further induction.

The refinement of `PromptLedger` rests on `PlaceInv`: a prompt is in one place at a time, with the call that
brought it, in one queue, in one batch or in the history (`QueuedOnce`, `BatchedOnce`, `BatchApart`), its
session is that of the place, and only a run in a drain has a batch. Without it a step that records the first
prompt of a batch could record what is recorded already. The abstract state is a function of places, so every
step is shown to move one prompt on, to give some up, or to leave all where they are. The order adds
`SaidOnce` (no prompt is in a history twice) and follows the line of a run, what it recorded, its batch and
its queue one after the other: steps take from the front of that line or add behind it.

`BrokerProofs`, from the assumptions of `Broker`, for any subscribers, publishers and shutdowns,
the sets being infinite or not:

* `CountCorrect`: `Spec => []CountMatches`
* `NeverClosedTwice`: `Spec => []ClosedOnce`
* `FinalShutdown`: `Spec => []ShutdownIsFinal`
* `BrokerTyped`: `Spec => []TypeOK`
* `StreamsImplemented`: `Spec => ImplementsStream`

The invariant of the first three says that the subscribers are exactly the open channels, that they are
finitely many and counted, that while `done` is open a waiting goroutine's channel is subscribed (so that
the goroutine may close it), that a shutdown past its signal has `done` closed, and that after a sweep
nobody is subscribed. The last holds because `Subscribe` and the goroutine test `done` under the lock. The
refinement of `EventStream` maps a stream to what was read and what is still buffered; it needs `Published`:
a stream has only events that were published, and not yet the one that is being sent, as long as its
subscriber waits for it. Otherwise a send could repeat an event or overtake one.

`GenerationProofs`, from the assumptions of `Generation`, for any prompts, tools, stored sessions and bounds:

* `RunTyped`: `Spec => []TypeOK`
* `ToolsAnswered`: `StoredComplete /\ Spec => []ToolMessagesComplete`
* `HistoryAgrees`: `Spec => []HistoryMatchesStore`
* `CallsFollowed`: `StoredAnswered /\ Spec => []CallsAnswered`
* `ReturnsFinished`: `StoredFinished /\ Spec => []FinishedOnReturn`
* `CancellationKept`: `Spec => []CancellationRecorded`
* `TurnsImplemented`: `Spec => StepsAreTurns`

`TurnInv` says where the turn is: the row of its message is the last one, or the last but one once the tool
message is stored; nothing in the history has its id yet; the row says what the message in memory says,
except after an update that the store did not take; and the slots before the index of the tool loop are
filled. None of the properties is inductive without it, since all of them speak of rows and copies that a
later update of that one row could change. `CallsFollowed` adds that calls without results are either from
before the run's prompt and `CutShort` (`OpenIsOld`) or of the turn under way, whose message is in no copy
yet; its conclusion has the hypothesis for the next run, that of an unbroken one (`AllAnswered(rows)`), so
that it goes on over any number of runs. Three theorems have a hypothesis about the sessions a run may find
stored, that these have the property: an earlier run whose store failed can leave a session without it.
`MCGeneration` assumes the same of its sessions, as `StoredInOrder`, and TLC evaluates it.

`TurnsImplemented` is the refinement of `AgentRuns`, with `TurnInv` as its invariant. The mapping says in
which phase the run is, who is registered, queued and in the batch, and that the history of `AgentRuns` is
the prompts among the rows (`Said`). Each action of the run is a step of the loop, or inside a turn, in
which nothing of this moves. `Said` is a recursive function on the rows; `Recursion` shows that there is
such a function, and `SaidAgrees` that it looks at the prompts only, so that it grows with the row of a
prompt (`SaidUser`) and with no other, and an update of the turn's message leaves it alone (`SaidKept`). The
assumption that nobody is named "none" is part of `RunAssumption`: it is what the mapping calls a session
without an owner.

`SessionStoreProofs`, from `TablesAssumption` (turns and messages are finitely many, a missing row is
no row), for any sessions, messages, turns, tools and deleters:

* `TypeCorrect`: `Spec => []TypeOK`
* `CountsAreRight`: `Spec => []CountsMessages`
* `MessagesHaveSessions`: `Spec => []NoOrphans`
* `DeletedForGood`: `Spec => DeletedStaysDeleted`
* `ViewIsCurrent`: `Spec => []ViewFollows`
* `NothingChargedTwice`: `Spec => []CostNeverTooHigh`

The statements are dealt with first: one lemma for each says that it keeps `Tables`, which is the types of
the two tables, `NoOrphans` and `CountsMessages` together. They need each other: a session that is inserted
has no messages only because none is an orphan. Then each step of an actor is one of these statements and
a move of the actor. What the actors add to the invariant is `Held` (who is about to save holds a row, who is
about to delete holds an id) and `Fresh` (a row's id was used; a task not yet created, a message not yet
written have none), without which an insertion could hit a row that is there.

`ViewIsCurrent` adds `Seen`: between the statement and its announcement the row has what the writer is about
to announce, and whoever announces a deletion does it of a message that is gone. `NothingChargedTwice` adds
`Costs`: no copy of a cost, be it in a row or in the hands of a turn or a tool, exceeds the number of turns
that were charged to the session (`Charged`, a set that only grows); a lost update may make it less.

`McpClientsProofs`, from `McpAssumption`, for any servers and tool calls:

* `TypeCorrect`: `Spec => []TypeOK`
* `OfferedHaveClients`: `Spec => []OfferedAreCallable`
* `ClientsInitialized`: `Spec => []CallsInitialized`

The invariant adds `Unmade` (who has not created its client has none: so creating it never undoes an
initialization), `Made` (every client in the map, in the hands of a call or on the list to be closed was
initialized) and `Listed` (from the moment a client is set until its tools are offered the map has one).

`ChatProofs`, from `ChatAssumption`, for any requests and functions, however the requests overlap:

* `TypeCorrect`: `Spec => []TypeOK`
* `ResultsInOrder`: `Spec => []ResultsFollowCalls`
* `ConversationsAreWhole`: `Spec => []Conversation`

The invariant is `IInv == TypeOK /\ Pending /\ Earlier /\ ResultsFollowCalls`. `Pending`: the calls a
request has still to run are its own, of an earlier round than its next, different from each other, without
a result, and, while nothing was cleared, in the history. `Earlier`: no result is for a round that is still
to come, so that the calls of the next answer are new. `ConversationsAreWhole` adds `Talk`: as long as
requests follow each other, the history is `Whole` (every answer has its results right behind it) or
`Partial` (but for the last answer, of whose calls those still to run have none), depending on what the
request under way has to do.

`ConfigurationProofs`, from `CacheAssumption`, for any processes, starts,
surroundings, files, lists of providers and changes:

* `FileIsEnough`: `Spec => StartsWithoutNetwork`
* `SelectionsExist`: `Spec => SelectedModelsExist`
* `ChangesAreKept`: `MarksAreNoTexts /\ Spec => ChangesSurvive`

`FileIsEnough` needs `Led`: who is in the loading belongs to the process it loads for. `SelectionsExist`
rests on `Chosen`: Load runs until a start is ready or fails, and while it stores fallbacks, what it has
selected is there and what it stores are models (a key could make a provider of nothing). Each step then
either ends the loading with models that are there, or leaves the models of the providers alone, or is the
user's choice. Configuring is dealt with by lemmas about `configureSelectedModels`, a default and a fallback
for each of the two types, and a key that the user sets by one that it takes no model away.

`ChangesAreKept` has the invariant `Storage /\ (~hurt => Unhurt)`. `Storage`: what is stored are fields, a
model of one of the types or a key of a provider, and so are the jobs of those who write. `Unhurt`: as long
as no two wrote at once and none ended halfway, a writer is alone, and what was stored is in the text it is
about to write, in the file when nobody writes it, and in the configuration that a start has read. The steps
rest on lemmas about paths: setting one field keeps each other one, since the paths of two fields begin with
one another only when they are the same, and a merge keeps what the later file has nothing of. The
hypothesis says that the three marks of a file (none, one without a field, one cut short) are not the text
of any file; they are constants, which a set theory without types could take for functions. TLC gives them
model values, of which it holds, but cannot go through all texts to see it.

`FileToolsProofs`, from `TextsAssumption` and `JobsAssumption` (requests have the types of the tools'
parameters), for any number of calls, any requests and any text, in order or overlapping:

* `TypeCorrect`: `Spec => []TypeOK`
* `FilesAreKept`: `Spec => []CreationsRefused`
* `MultiEditIsEdits`: `Spec => []EditsAgree`
* `FilesAreMeant`: `Spec => []FileIsMeant`
* `ViewIsRight`: `Spec => []ViewTells`

The first needs that a call which has opened the file finds one to write to, the second that a file which
was there is there for good (`Refusing`). For the third, `Computed` says that what a call is to write was
made from what it found, by edits that were looked at; the rest is about texts and induction over them. The
induction theorems of the library take an operator and cannot be used, but the least element of a set of
numbers follows from `WFMin`, which takes none; from that `Upwards` (a set that has 0 and with each number
the next one) and `Recursion` (a function exists that goes from each value to the next), and with these what
`FlattenSeq`, `Taken` and `ApplyEdits` are. The heart is `SpliceDiffers`: putting something else in the
place of non-overlapping occurrences changes the text, since something longer makes it longer, something
shorter shorter, and something as long leaves the first place where it was. So `applyEditToContent`, which
does not look whether anything changed, accepts nothing that `replaceContent` refuses for that reason.

`FilesAreMeant` has two halves. The first is about texts: what the tools compute by Go's functions is what
the reference definitions say, which read the text from its end (`AllReplaced`) or place by place
(`EditMeans`): splicing at the taken places is replacing all, at the only place it is replacing one, a list
of edits goes through the same texts in both, and taking off and putting back the carriage returns is `Unix`
and `Windows`. The second is about calls. `InOrder` has calls that follow each other wait for those before,
and `FileKept` says, while calls are in order or only one of them wrote, that the file is one that the
requests so far may leave (`Left`) whenever nobody writes, that who writes is about to leave such a file,
and that between truncating and writing the file is empty. `LeftBy` is a function on the calls; the lemmas
say that it changes with the answer of the call that just ended and with no other.

`ViewIsRight` needs little of the calls (`Viewed`: view opens nothing, and what it shows is a text) and much
of texts. A text is cut behind a line feed: its lines are those of the first part and then those of the
second, and the same is so of `Rest`, the text behind so many lines. By induction over the number of lines
(`Stretch`, `LinesAre`) any stretch of the lines that `ScanLines` yields, with a line feed behind each, is
where it should be in the text with Unix endings. What is left is arithmetic of offset, limit and number of
lines, with the line that the scan takes at the limit and the reader does not count.

## 7. What is only model-checked

* All liveness (`CancelledRunEnds`, `WaiterAnswered`, `CancelledReturns`, `SubscriberReleased`,
  `ToolsHandedOut`, `CallsEnd`): it rests on fairness, which is out of the prover's reach.
* `Complete` and `NewestFirst` of `Search`: `expandBraces` calls itself in two places and on other patterns,
  and is written as a RECURSIVE operator, with which the prover has no SMT backend.

All other properties of the passing runs are theorems.

## 8. What is not modelled, and why

* The provider, the MCP library, SQLite's engine, Go's runtime: external, by what the code relies on.
* The `files` table: no code writes it.
* The data race on a message's parts between the run and subscribers (`message.go:82`): messages are
  values here.
* Downloads, shell commands and web requests: one request or command per call, no state.
* How names, patterns and lines are matched, the syntax of ignore files, ripgrep itself: attributes of
  the entries in `Search`. Offsets below zero, cut lines and images in `view`.
* The places of the configuration files, JSON, the shell's variables (`resolve.go`), the tables of
  options, language servers and agents. What a function of the chat program does, and its terminal.
* Message content beyond finish reasons, tool calls and results.
* Formatting, logging, paths, terminal input and output, design documents.

## 9. Plan

Done, in this order: `AgentRuns` with `PromptLedger` and its proofs; `Broker` with `EventStream` and
its proofs; `Generation` over `AgentRuns`; `SessionStore`; `McpClients`; `TextEdit` and `FileTools`; then
`ProviderCache` and `Configuration`, `Search`, `Chat`, and `TextView` with the pages of `FileTools`;
and the proofs about `SessionStore`, `McpClients` and `Chat`; then the refinements of `PromptLedger` and
`EventStream`, and the proofs about `Generation`, `Configuration` and `FileTools`; last, that `Generation`
implements `AgentRuns`, that files are what was asked for, that changes survive and that pages are right.

Next:

1. `MessageContent`: parts, tool calls, finish, and what a round trip through the database keeps.
2. `Resolve`: the variables and commands of `resolve.go`, in which order and with which errors.
3. `Download`: the size limit at its boundary and what a failed download leaves.

Theorems next: those of `Search`, for which the expansion of braces has to become a recursive function on
the length of patterns; that a conversation of `Chat` and one of `Generation` have the same shape, which
would let the two share their lemmas; and for `MessageContent` that reading back what was written gives the
same parts.
