# Verification of the agent harness

TLA+ models of the parts of `src/crates` that keep state across calls,
processes and crashes; TLC configurations that check them on small instances;
and TLAPS proofs of the properties that matter most for every value of the
constants. Paths below are relative to `src/crates` unless they start with
`src/`.

Contents: 1 the system, 2 the modules and the code, 3 the runs, 4 the bounds,
5 fairness and deadlock, 6 the proofs, 7 only model-checked, 8 disagreements
between the code and its documentation, 9 not modelled, 10 plan,
11 further hazards.

## 1. The system

`ah-contracts` defines traits and data types, `ah-hub` the plugin kernel, every
`ah-plugins-*` crate implements one or more contracts, and `ah-app` assembles
them: a profile names the plugins, `plugin_catalog` builds them, `mount_all`
mounts them in dependency order. A request then goes

    application runtime --> task controller --> (executor) agent loop
            |                                        |    \-- tools, rails, model
            |--> workflow engine                     |
            \--> session log <-----------------------/

and teams, queues and stream channels connect several such agents. Calls
between plugins are ordinary (async) method calls through the hub's registry;
what they share is the session file on disk, the controller's maps behind
mutexes, the team board, and events on the hub's bus.

| Component | State | Operations | What is hard | What makes it correct |
|---|---|---|---|---|
| Task controller | maps `tasks`, `working` (session to task), `parent_to_children`, `child_to_parent`, each behind its own mutex; optional snapshot file | create, update_status, run_task, cancel, retry, remove, link_parent, set_task_error, persist, restore | run_task decides on a copy and acts after its locks are released; two writes per outcome; snapshot taken under one mutex and written under another; crash between any two steps | slot map and statuses agree; one active task per session; final statuses stay; a failed task has its error; what is on disk restores; the hierarchy is a forest |
| Session log | one JSONL file per session and one per checkpoint | append, claim_tool_call, read, checkpoint, restore, fork | several processes, flock on a file that may have been renamed away, torn last line | events numbered without gaps, acknowledged events survive, append-only up to a restore |
| Agent loop | nothing but the session log; claims and leases in it | recover, append user, stream, execute tools, retry | a run dies between the effect and its record; overlapping runs | non-idempotent tools run once, dialogue legal, one executor and one result per call |
| Workflow engine | outputs per node, checkpoint file | run, run_checkpointed, stream, question | crash between a node and its line; reuse of an older input's outputs; two runs on one file | resumption gives what an uninterrupted run gives; what was streamed is what is reused |
| Message queue | topic log, cursor file per consumer, next sequence number | publish, consume | number taken before the line is written; cursor read and written apart; a cursor file cut short; a late answer | a consumer sees each message of the log once, in order; a question gets its own answer and ends |
| Team board | tasks with dependencies, claims, reviews | create, depend, claim, complete, submit, vote, settle, run_task | the SQLite board reads, decides and writes apart; failure after a claim; the wrong task claimed | one claim per task; dependencies done first; the board never blocks itself; verdicts follow votes |
| Swarm flow | phase journal, budget | run phases | journalled budget exhaustion | a repeated run gives the same results, within the budget |
| Stream channel | bounded queue, closed and cancelled flags | emit, close, consume | flag set before the end frame is sent; check and send apart; nobody reads | frames in order, a stream that returned Ok is complete, streams and readers end |
| Team runtime pool | gate counters and tickets, active and paused background runs | admit, consume_done, close_and_drain, reset, register, pause, resume | reset with tickets out; a woken closer finds another gate; a launch that deregisters late | a drained gate is empty and draining ends; no run is lost or doubled by a pause |
| Agent control | requested control per session | request, poll, clear | a run that ends clears the next one's request | a request reaches a run |
| Plugin kernel | registry, effects | register, mount, mount_all, unmount | every look-up and every registration is locked apart; a group that fails half-way | a group is mounted exactly when it can be; nothing outlives its effect |
| Application runtime | none of its own | invoke | controller changed, then session append fails | command and record agree |
| Callback chain, Pregel, model backup, checkpointer, external members, MCP client | see `PROJECT.json` | | rollback, supersteps, bounded channels, pipes | see section 9 and section 11 |

`PROJECT.json` lists all components, with every crate in one of them, and under
"hazards" the places in the code that a unit test hardly reaches, each with the
properties that cover it. Section 11 has those beyond that list.

## 2. The modules and the code

### Task controller (`ah-plugins-controller/src/lib.rs`)

`TaskTable` has the shared vocabulary: the statuses, the transition table and
one operator per critical section (`CreateTask`, `ApplyStatus`, `RetryTask`,
`SetTaskError`, `RemoveTask`). `status`, `session` and `errors` are the fields
of the entries of `tasks` that decide anything, `slot` is the map `working`.
`update_status` holds both mutexes, so a status and its slot change in one step.

`TaskController` interleaves clients with concurrent `run_task` calls. The
latter are split exactly where the code releases its locks: `RunRead` (copy of
the task), `RunAdmit` (conflict check and executor lookup), `RunStart` (enter
working), the await of the executor, `RunSucceed` or `RunFail` (outcome through
`update_status`, whose error is dropped), and `RunRecordError` (the error
message, in a critical section of its own). `RunStart` may also change the
status and then fail to save it: the call returns the error and nobody is left
to write the task's outcome, which `unsaved` remembers. `SessionSlots` is the abstract
promise: a session's set of active tasks goes from empty to one task and back.

`TaskStore` builds on `TaskTable` too, with `persist` after each change:
`Collect` copies the tasks, `OpenLock` takes the store's mutex and creates the
lock file, `Replace` writes and renames (or fails), `Unlock` removes the lock
file. `Crash` loses memory and keeps the disk, `Restart` runs
`with_snapshot_store`. A snapshot also carries `indexed`, the slot map at the
time of the copy: it is not in the file and only states what a restore should
give back. `raced` remembers whether a change fell into another thread's
persist; no action reads it. The store is composed with `TaskHierarchy`
(`Tree == INSTANCE TaskHierarchy`): a thread may be in a `link_parent` call
(`BeginLink`, `ContinueLink`), creations and removals act on table and tree in
one step, and a copy holds the parents the tasks name. `Restart` validates both
what concerns more than one task: one working task per session, and every named
parent present (`Restorable`). It rebuilds the two indexes of the tree from the
tasks, and a snapshot that fails the validation keeps the process down.
`tangled` is the tree's own history of what overlapped a `link_parent`.

`TaskHierarchy` has the four maps of the hierarchy and `link_parent` in its
critical sections: `Link` (both tasks exist), `Walk` (cycle check),
`Unlink` (previous parent), `Index` (`child_to_parent`), `Adopt`
(`parent_to_children`), `SetField` (the task). A walk that enters a cycle never
ends: place `"spin"`, with the mutex of `child_to_parent` held.

### Session log (`ah-plugins-session-log/src/lib.rs`)

`SessionFile` has files by inode, the path of the session, a named checkpoint,
an flock per file and the processes: `Begin` opens by path, `Load` waits for
the flock, reads and repairs, `Write`/`WriteFails` append the line and release,
`Checkpoint` copies by path, `Restore` renames a copy over the path, `Crash`
anywhere. A file is its complete lines and a tail: none, a `"stub"` too short to
be recognised as a torn record, or a `"partial"` record. `AppendOnlyLog` is the
abstract promise: a log that grows by one event or goes back to its checkpoint.
Appending a claim goes through the same steps as any other append.

### Agent loop (`ah-plugins-agent-loop/src/lib.rs`)

`AgentLoop` has the session's log as the sequence of events a later run reads,
the claims whose lease is running, and one program counter per run of
`run_in_session`: recovery (`Scan`, `Claim`, `ClaimRefused`, `RecoverUnknown`,
`RecoverExecute`, `RecoverResult`), the user event, and iterations (`Request`,
`StreamDelta`, `RetryModel`, `Answer`, `AppendAssistant`, `Invoke`, `RetryTool`,
`AppendResult`, `NextIteration`). Interrupts, cancellation, deadlines, failed
appends and process death all end a run without an event that a later run
reads: one step `Stop`, possible at any place. Call ids are fresh for each
stream, and the calls of a response are settled in any order (the code takes
them in the order of their ids or positions). `AgentLoop` uses the session log
as an atomic append, which is what `SessionFile` shows of one that is not
restored under a running operation.

### Workflow engine (`ah-plugins-workflow/src/lib.rs`)

`WorkflowResult` is the abstract promise and the vocabulary: a workflow is a set
of nodes, its start nodes, an end node or none, and a sequence of edges with
optional conditions; one uninterrupted run settles node after node, each after
its predecessors. A node computes any value; a start node hands on its input.
A value carries what it was computed from, which is what makes a mixture of two
executions visible.

`WorkflowRun` has the four entry points (`run`, `stream`, and both with a
checkpoint): `BeginCheckpointed` loads the file, which nobody locks, `Open`
writes the header into an empty one, `Plan` is `topo_order` and the check for a
start node (`run_checkpointed` lacks it), and then each node is skipped, reused
or executed; an executed node's line goes out as `WritePart`, `WriteRest`,
`WriteNewline`, because `writeln!` is more than one write and another run may
write in between. `Emit` tells the sink and then keeps the output. `Stop` is any
error, cancellation or the process's death. What the file's last line looks like
is in `tail`: a whole record without its newline still counts as a line. A
condition whose first path segment is unknown looks at the root of all outputs;
the models use conditions on known nodes only.

### Message queue and questions (`ah-plugins-queue/src/lib.rs`, `ah-plugins-workflow/src/lib.rs`)

`MessageQueue` is one channel of a `FileQueue`. publish takes its number under
the mutex (`PublishNumber`) and writes record and newline after it
(`PublishText`, `PublishNewline`). consume reads the whole log (`ConsumeRead`),
picks the first message from the cursor on (`ConsumePick`), moves the cursor in
memory (`ConsumeMove`) and rewrites the cursor file, which is empty in between
(`ConsumeTruncate`, `ConsumeStore`). `QueueCrash` and `QueueRestart` lose and
rebuild what is in memory: the next number follows the last line that parses.

`Questioner` puts the workflow's question nodes on it: a node asks, polls the
answer channel until a message comes or its deadline has passed, and takes the
first message as its answer. Whoever answers may do so at any time, also after
the node has given up.

### Team board (`ah-plugins-teams/src/lib.rs`, `sqlite.rs`)

`TeamBoard` has both boards, told apart by `durable`. The board in memory holds
its mutex for a whole operation, so an operation is one step. The SQLite board
reads the table (`Load`) and later writes columns of one row; operations of two
processes overlap there, and `raced` remembers it. The two also differ in which
task is claimed, in who may vote, and in what counts as a second vote: a
rejecting vote is stored with a prefix under which the second one is not found.
So a member may reject again and again there, with no overlap at all, and
`ReviewSound` bounds only the approvals of a member to one.
A member counts under id and under name on the board in memory, which the model
does not have: there one person with two names has two votes. `Create` makes
pending tasks, as every caller in the repository does; `add_task` itself would take
a row with any status, votes and result.

`TeamRuns` adds `run_task`: claim (`RunClaims`), the wrong task completed as
skipped (`RunSkips`), the subagent's work outside every lock (`Worked`),
completion (`RunReports`, `RunRefused`), and, for a process of the SQLite board,
`Crash`.

### Stream channel (`ah-plugins-stream/src/lib.rs`, `ah-plugins-workflow/src/lib.rs`)

`StreamChannel` has the provider's task and its bounded channel, the streaming
workflow with one model node, the emitter's bounded queue and `stream_output`.
emit looks at the closed flag (`Emit`) and waits for room afterwards
(`SendFrame`, `SendTimeout`); close looks at the flag (`CloseStream`), sets it
(`MarkClosed`) and sends the end frame (`SendEnd`, `SendEndTimeout`). All
streams of a program share one emitter, and the cancelled flag is never cleared.

### Plugin kernel (`ah-hub/src/registry.rs`, `context.rs`)

`PluginKernel` chooses what every plugin provides and injects, and then mounts
single plugins and groups from several callers. `Search` is the depth-first
search of `mount_all` with the stack of its calls made explicit, so that no
recursive operator is needed; `Visit` is one call. A plugin is taken up
(`TakeUp`), every key it injects is looked up (`LookUpNeed`), then every key it
provides (`LookUpOffer`), and only then does it register its keys
(`RegisterKey`): one lock and one step for each key, as in the code, so that
other callers come in between. A plugin may fail with some of its keys registered
(`ApplyFails`); what it held itself is dropped first, then the effects of the
plugins before it. Effects are dropped one by one (`Undo`), and an effect removes
its key whoever is registered under it. The effects of a call are a set: the
order in which the rest of them goes is left open. `contested` remembers the keys
that two calls were offering at once. `Fits` says in first-order terms what the search is for:
every nonempty part of the group has a member that depends on nothing in it.

### Team runtime pool (`ah-contracts/src/team_pool.rs`)

`InteractGate` has the gate, its tickets and the closers that sleep on its
condition variable: `Recheck` is a woken closer that has the mutex again,
`WakeSpuriously` a wake-up for no reason, `Reset` the next cycle. A ticket
carries the gate's id but not the cycle: after a reset it is `"stale"` and still
accepted. `BackgroundRuns` has the controller of background runs: `Register`,
`Finish` and `Deregister` are the launched thread, `Pause` aborts and remembers,
`Resume` launches again. A relaunch registers from a thread of its own: a
launcher that registered in the same thread would wait for the mutex that
resume holds. `TeamPool` composes the two; they share nothing but the team.

### Conventions

The modules `...Proofs` hold the theorems; `MC...` add the symmetry sets and
state constraints. Variables called history in a module's declaration are read
by no action; they let a property name what it exempts. Operators under a comment "Faulty variant" are mutations of
the operator after them, the way a mistake in that code would read; they take
no part in any specification, and each one breaks the property
`PROJECT.json` names for it.

## 3. The runs

| Run | What it checks | What it shows |
|---|---|---|
| `controller` | `SlotConsistent` `FailedHasError` `WorkingIsExecuted` `FinalStays` `ImplementsSlots` `WorkingEnds` | Under every interleaving of two run_task calls with pauses, resumptions, cancels, retries, removals and recreations the two maps agree, a session has at most one active task, outcomes that come late change nothing, a failed task has its error or is about to get it, and a working task has a call that will write its outcome and leaves working, unless its entry into working could not be saved. |
| `store` | `SnapshotRestorable` `StoreSound` `RestartKeepsWorkingSlots` | Wherever the process dies, the file has one working task per session, and the next start accepts it unless a removal or another link fell into a link_parent, which may save a task whose parent is gone; without overlapping persists a call that returned Ok is on disk, also when saves fail or a stale lock file makes all of them fail. |
| `hierarchy` | `SerialForest` `IndexesAgree` | While link_parent calls do not overlap each other, nothing that happens between their critical sections closes a cycle; while nothing overlaps them, the indexes and the tasks tell one tree. |
| `session_file` | `AckedInLog` `CheckpointWhole` `ImplementsLog` `RefusedIsFrozen` | Processes that append, crash, repair, checkpoint and restore keep the numbering, lose nothing acknowledged unless a restore replaced the file under an open operation, together implement an append-only log with rollback, and never change a file that is refused. |
| `agent_loop` | `NonIdempotentOnce` `LegalDialogue` `SettledOnce` `UnannouncedIsLeftover` | Three runs that stop, overlap, retry and recover never start a non-idempotent tool twice; without overlap the dialogue stays legal; a call has one executor and one result unless it was taken from a live one; a tool runs before its announcement only as a leftover. |
| `workflow_run` | `ResumedRunConsistent` `CheckpointSound` `ToldIsRecorded` `ImplementsOneRun` | Three runs of conditional workflows that stop and resume anywhere on one checkpoint behave together as one uninterrupted run, reuse what was streamed, and are refused only after a cut line or an overlap. |
| `message_queue` | `LogWithOffset` `AckedReadable` `AnswerMatches` `QuestionEnds` | Across crashes, restarts and failed writes the channel is a log with an offset while publishers and consumers take turns; every question ends, answered or not, also when the channel cannot be read or others' answers keep coming. |
| `team_board` | `WorkInOrder` `SomethingClaimable` `ReportedIsRecorded` `ReviewSound` | On both boards, with failing subagents, wrong claims and dying processes, a task is claimed once, after what it depends on, and a verdict follows the votes; nobody approves twice, even when operations of two processes overlap; a reported result stays, and its task is under review, done or failed. |
| `stream_channel` | `OutputFaithful` `StreamEnds` `ReaderEnds` | Frames arrive in order and without gaps; a stream that returned Ok was read completely unless another one shared the emitter; streams and providers end whatever happens, and the reader does unless the end frame was given up. |
| `plugin_kernel` | `RefusedUnlessFits` `RegistrySound` `NothingLeft` | For every way three plugins can provide and inject two keys, the search of mount_all accepts exactly the groups that can be mounted; two callers that mount, fail and unmount leave nothing behind and do not take each other's services, except under a key both were offering at once. |
| `team_pool` | `GateSound` `RunsAccounted` `DrainEnds` | A closer that returns has an empty gate, and it returns; background runs survive pauses and resumptions exactly once, whichever thread is late. |
| `controller_double_run` | `WorkingSessionRejectsRun` (violated) | See section 8. |

Some of these are conjunctions of named parts, each defined and explained above
them in the module:

| Property | Parts |
|---|---|
| `StoreSound` | `TypeOK`, `SerialIsDurable` |
| `SettledOnce` | `OneExecutor`, `OneResult` |
| `CheckpointSound` | `TypeOK`, `OneLinePerNode`, `StaysLoadable` |
| `LogWithOffset` | `TypeOK`, `DeliveredInOrder`, `NothingSkipped` |
| `WorkInOrder` | `ClaimedOnce`, `DependenciesDone` |
| `ReviewSound` | `TypeOK`, `VerdictFollowsVotes`, `ApprovesOnce` |
| `OutputFaithful` | `TypeOK`, `InOrder`, `OkIsComplete` |
| `RegistrySound` | `TypeOK`, `HeldIsRegistered` |
| `GateSound` | `TypeOK`, `CountMatches`, `DrainIsQuiet` |
| `RunsAccounted` | `NoneLost`, `NotTwice`, `AtWorkIsRegistered` |

What is proved and follows from a property of the run, or only supports one, is
left to the prover: the type invariants of the controller, the hierarchy, the
session file and the agent loop, `OneActivePerSession`, `OneWriter`, `OneWorkingPerSession` and `Contiguous` (section 6). The auxiliary
invariants of the proof modules are no properties of a run either.

Many properties name an exception, in a variable such as `raced`, `tangled`,
`unsaved`, `stranded`, `stolen`, `mixed`, `shared`, `contested`, `spoiled` or
`mistaken`. These are not
simplifications of the models, which go on after the exception; they are the
places where the code's promise ends, and each is a hazard in `PROJECT.json`.

## 4. The bounds

- `controller`: two tasks, two sessions, two run_task calls, no symmetry (the
  run has a liveness property). A conflict needs two tasks in one session, a
  move between sessions needs two sessions (a removed id is recreated in the
  other), a race needs two calls. `InitialStatuses` and `ClientStatuses` are
  what the repository's callers use; the proofs need only that clients do not
  ask for working and do not create active tasks (`CallerAssumption`).
- `store`: two tasks of one session, two threads, `MaxOps` = 5 changes and links
  over all lives of the process: enough for create, work, wait and finish of one
  task with the other thread's persist, a crash and a change after it in
  between, and for two tasks, a link, the removal of its parent inside it and the
  restart that is refused.
- `hierarchy`: three tasks (a cycle of two with a walker from outside, a
  relink from one parent to another), two linkers.
- `session_file`: two processes, three appends, three files, so that two
  restores can replace the path under an open append and a torn line can be met
  by another process and after a restore.
- `agent_loop`: three runs (one that stops, one that recovers, one that
  overlaps), two calls of which one is idempotent, two iterations, one model and
  one tool retry; `MaxLog` cuts behaviours at six events, which holds a user
  event, deltas, an announcement, results of a recovery and the next user event.
- `workflow_run`: four workflows of up to four nodes (two branches that exclude
  each other and join, a condition on a node that need not come first, a cycle,
  a missing end node), two inputs and values, three runs (one that stops, one
  that resumes and stops, one that ends). `Bounds` follows plain runs alone,
  since they share nothing, and files used at once or for different jobs with
  two runs. `Modes` uses one mode of each kind; the streamed one has all steps.
- `message_queue`: two publishers, two consumers, two questions, `MaxSeq` = 4
  numbers (failed publishes use them up).
- `team_board`: two callers, two tasks, two members; `MaxVotes` two on one task
  and one on the other. `OverlapOnOneTask` follows overlapping operations of
  two processes on one task, where all their effects on a row happen.
- `stream_channel`: two streams, two readers, one chunk (so two frames and the
  end frame for a queue of two), a channel of one, two attempts of a send.
- `plugin_kernel`: three plugins, two keys, two callers, at most `MaxDeclared` =
  5 declarations in all, up to a renaming of the keys: cycles of two and three
  plugins, doubled providers and missing keys are all among them, and a plugin with
  two keys can be overtaken between its look-ups.
- `team_pool`: three members, one closer, two tasks with two launches alive at
  once. `Launches` is a bound: a resume waits until a launch of the task is gone.
- Symmetry is declared over tasks, threads, linkers, processes, runs or callers
  where no `CHOOSE` that could tell them apart reaches a property and no
  liveness is checked. `RestoredSlot` chooses a working task of a session;
  `Restorable` makes it the only one. Calls of `AgentLoop` are not symmetric.

## 5. Fairness and deadlock

Fairness is assumed only for what a runtime or the clock does by itself, never
for clients, users or readers that may stay away:

- `controller`: `WF` on the steps of each started `run_task`: a future is polled
  until it is done, and an executor is assumed to return, with success or
  failure. `WorkingEnds` does not rely on anybody cancelling anything; a task
  whose entry into working could not be saved is exempt until a call runs it.
- `message_queue`: `WF` on a waiting node's polls and on its deadline. Nobody
  has to answer, and the process need not come back after a crash.
- `stream_channel`: `WF` on the tasks of streams and providers (a send times
  out, a provider sends or ends) and on a reader that holds a nonempty queue.
  Readers need not come, and their own timeout may be far away.
- `team_pool`: `WF` on handing back a ticket (the guard of an admitted member
  does it) and on a woken closer's turn with the mutex. It may be woken for no
  reason and others may come first.

The other modules state safety only. Deadlock is checked in `controller`,
`store`, `session_file`, `plugin_kernel` and `team_pool`. It is not in
`hierarchy`, where a closed cycle does block all callers (section 8), nor in
`agent_loop`, `workflow_run`, `message_queue`, `team_board` and
`stream_channel`, whose runs, questions, tasks and streams are finitely many.

## 6. The proofs

All are for arbitrary sets of tasks, sessions, callers, members, processes,
workflows and calls, and for arbitrary bounds. They rest on the named
assumptions of the modules: the absent value is none of the others, bounds are
natural numbers, `Idempotent` is a set of calls, tasks of a board are numbered
(the order in which it scans them), members are finitely many
(`GateAssumption`, for the count of tickets), a workflow is one that
deserialises (`RunAssumption`: start nodes, end node and edges are of its
nodes), a question is not the absent value (`NodeAssumption`), and clients do as
`CallerAssumption` says. TLC evaluates all of
them in the passing runs.

- **`TaskControllerProofs`**: `Typing`, `SlotsAgree`, `OneActive`,
  `NoOrphanWorking`, `FinalNeverChanges`, `FailureIsRecorded`, `Refinement`. The
  invariant is `TypeOK`, `SlotConsistent` and `WorkingIsExecuted` together.
  A working task is in the hands of a call that is past `RunStart`, or is one of
  `unsaved`. `SlotConsistent` is what makes "one active task per session" inductive: two
  active tasks of a session would both own its slot. `ApplyStatusKeeps` shows it
  once for any accepted transition, and each action is then an instance.
  `FailedHasError` is inductive beside it; it needs that callers never create
  or make failed tasks, which the theorem assumes of its constants. The
  refinement maps a session to its set of active tasks and shows that every step
  changes at most one of them, from or to empty.
- **`TaskStoreProofs`**: `AlwaysRestorable`, `OneWorking`, `SingleWriter`,
  `RestartGivesBackSlots`, `AcknowledgedSurvives`. The
  invariant says that the table has one working task per session *and* agrees
  with the slots (`TableInv`), that every copy, in a thread or on disk, has one
  too (`CopiesInv`), and that places agree with mutex and lock file (`WriterInv`).
  Consistency after a restart needs the weaker `TableInv`, because a restored
  slot map lacks the waiting tasks (section 8). Beside it, `SlotInv` keeps for
  every copy that its slots were owned when it was taken, so that any copy a
  restart meets gives them back; `DurableInv` follows a change to the disk:
  without overlap one thread persists, its copy is the table, and as soon as no
  thread is inside, the file is the table or somebody was told that it is not.
  For the parents the invariants of the tree are used through `TP == INSTANCE
  TaskHierarchyProofs`: each step of the store is one of the tree or leaves it
  alone (`TreeInv`), and as long as nothing is `tangled` the parents named by the
  tasks and by every copy are present (`ParentsInv`).
- **`TaskHierarchyProofs`**: `TypeInvariance`, `SerialLinksForest`, `MapsAgree`.
  Beyond
  `Acyclic` the invariant carries what the walk established: between `Walk` and
  `Index` the child is not among the new parent's ancestors (`WalkedInv`), and
  only one linker is inside (`OneLinker`). `CutKeeps` shows that a removal cannot
  create ancestors, `EdgeKeeps` that an edge to a non-descendant closes no cycle.
  No recursion is used: ancestors are the smallest closed set. `MapsAgree` needs
  `MovingInv`, which says section by section which of the three maps already has
  the new parent of the task a call is moving. `NextType`, `NextRaced` and
  `NextMaps` say of one step what the theorems say of a behaviour, for the store.
- **`SessionFileProofs`**: `Typing`, `AlwaysContiguous`, `AckedSurvives`,
  `CheckpointsAreWhole`, `RefusedStays`, `Refinement`. A numbered
  line is only safe to write if nobody else has written since it was numbered:
  `WriterInv` says that a process about to write holds the flock of its file and
  its line carries the next number, `OpenInv` that opened files exist and that a
  restore has a checkpoint. The refinement needs both: a process that writes an
  unlinked file stutters. `FileInv` adds that nobody is on another file than the
  path's unless a restore stranded it (`FollowInv`), and that a checkpoint in
  progress holds the flock of a repaired file (`CopyInv`).
- **`AgentLoopProofs`**: `Typing`, `NeverTwice`, `DialogueStaysLegal`,
  `StartedIsNamed`, `CallsSettledOnce`.
  `NonIdempotentOnce` alone is not inductive: `StartedOnce` adds, for every
  non-idempotent call, that it is unstarted as long as the log does not know it,
  and that at most one run holds it, which has it in the log and has not started
  it before it executes it. `DialogueInv` says that without overlap only one run
  is active and that, past its scan, every call announced and unanswered in the
  log is on its list; the user event and the next request find that list empty.
  `ListInv` says where in the log a run's list comes from at each place of the
  loop; `ServedOnce` that a call nobody took from another run is in one run's
  hands, without a result, and leased if a recovery has it.
- **`WorkflowRunProofs`**: `CheckpointIsSound`, `ToldStaysRecorded`,
  `ResumptionIsConsistent`, `RunsStartAsOne`, `RunsImplementOne`. `BaseInv`
  places every run: what it holds to write is the line of a node whose
  predecessors it has passed. `FileInv` is about the file: while no two runs
  overlap, one run uses it, every node in it is loaded, passed or in that run's
  hand, and what follows the last line is that run's unfinished one;
  `WholeInv` adds, while no line was cut, that nothing else is behind the last
  line. `ExecutionInv` is about values: `Partial` says that a set of passed
  nodes and their outputs are part of *one* execution of the workflow on its
  input. `PartialExtends` adds a node to one, and `PartsAgree` shows that what a
  run computes and what it loaded agree; both need `Localness`, that conditions
  look at nodes that come before. The state of the single run is what the file
  records: `SettleSteps` shows that the write that completes a line is its next
  step, and every other step leaves it alone.
- **`TeamRunsProofs`**: `WorkIsOrdered`, `BoardNeverBlocks`, `ReportsStay`,
  `ReviewsAreSound`. `ViewInv` reduces the SQLite board to the one in memory:
  without overlap, what an operation has read is the board. `SerialOperation`
  then sorts every operation's effect on its row into five kinds (`Adds`,
  `Waits`, `Begins`, `Hands`, `Judges`), and the invariants are shown for these
  alone. Acyclicity of the dependencies is stated without paths: any set of
  tasks has one that waits for none of them; a new dependency is added only on a
  task that is not reached from it (`UpstreamClosed`). `ReportsStay` says that,
  while no operations overlapped, the row of a reported task holds the result of
  the report and the task is never worked on again: done where it has no reviewers,
  in review, done or failed where it has.
- **`SharedPartsProofs`**, pool: `GateIsSound`, `RunsAreAccounted`. The count of
  the gate is not the number of tickets in general (a stale ticket still takes
  one off); the invariant is that it never exceeds those of the cycle
  (`Counted`), equals them until a stale ticket was returned, and that a closer
  whose closing still stands finds the gate closed (`ClosedIsKept`). For the
  runs, `HandleIsOnly` says that the registered handle is that of the only launch
  at work, so that aborting it stops the task.
- **`SharedPartsProofs`**, queue: `DeliveryIsALog`, `AcknowledgedIsReadable`,
  `AnswersReachTheirQuestion`. While threads take turns, the numbers of the lines
  that parse grow along the log and the next one is above them (`LogInv`, also
  after a restart, which recovers it from the last line that parses), and all
  that was delivered lies below the cursor and below the cursor file
  (`OrderInv`). That nothing readable is passed over needs more: what a consumer
  has read is still there unless it became unreadable (`SeenInv`), and the log
  has already come to the cursor (`Reached`), so that a line that is appended
  later is never behind it (`BehindStays`). `CleanLog` says that an unfinished
  line is the one a publisher is about to terminate. For the answers, a message
  is in the log or in some thread's hands (`Carried`), each question has at most
  one (`OnceInv`), and those of settled questions lie below the cursor
  (`SettledBelow`), so the first message from it on can only be for the one open
  question. Publishers may overlap there.
- **`SharedPartsProofs`**, stream: `OutputIsFaithful`. That the next frame of a
  stream continues it needs to know the last one: `Tops` says that the last frame
  of each stream in the queue, and in what the queue's holder has collected
  together with it, is the last that stream has sent (`FrameOrderInv`).
  `NextFrame` and `StretchConsecutive` are the two facts about sequences behind
  the order. For completeness, `SoloInv` says that until streams share the
  emitter only one has been started and is the one that closes it, so that a
  close that finds the flag set, and skips the end frame, is never its own;
  `CompleteInv` that all it has sent waits in the queue or with its holder
  (`Whole`) until a reader has it all.
- **`SharedPartsProofs`**, kernel: `RefusalIsRight`, `RegistryIsSound`,
  `NothingIsLeft`. The proof has two halves. The first is about the search alone.
  `SearchInv` holds of every state of it: the order has the members that are
  done, each after those it needs (`OrderSound`); the stack has one return for
  each member that is being visited, all that such a member still needs stands
  above its return, and what stands right above it, it needs (`StackSound`). A
  visit of a member that is being visited therefore closes a cycle
  (`GrayIsCycle`), and an empty stack leaves an order of the whole group
  (`OrderIsAcyclic`). That the search ends is shown without induction: of the
  searches that would end badly take one with the fewest white members and, among
  those, the shortest stack; its next visit has fewer of the one or a shorter
  other (`VisitShrinks`). `VisitingExists` gives the recursive function of
  `Search` a value before its end is known. `SearchFinds` sums this up. The
  second half is about the calls: what a call still has to mount is `Ready` when
  it is to succeed and `Stuck` when it is to be refused, each step keeps that, and
  what an undisturbed call has looked up stays so (`LookedInv`). For the registry,
  `KeyInv` says of each key that is not contested that at most one call offers it
  (`OfferedOnce`), that it is free from that call's look-up to its registration
  (`AwaitedFree`), and that what an effect holds is there (`HeldThere`); a key
  stops being contested when nobody offers or holds it, and then all three hold
  for want of anything to hold them for (`ContestedStep`).

The four parts of `SharedPartsProofs` share nothing; they stand together because
each has few theorems.

## 7. Only model-checked

- `WorkingEnds`, `QuestionEnds`, `StreamEnds`, `ReaderEnds` and `DrainEnds`:
  liveness under fairness, and anything about enabledness, is out of the prover's
  reach.

All invariants and action properties of the passing runs are theorems. The
models declare no recursive operator; the one recursive definition, `Search`, is
a function.

## 8. Disagreements between the code and its documentation

One is a run of its own, `controller_double_run`: `WorkingSessionRejectsRun`
states what the contract says, that a session with a working task rejects a new
execution, and TLC finds two calls that read the same submitted task and both
execute it: the own slot passes the check and a repeated working status is an
accepted no-op. `PROJECT.json` quotes the lines.

The others were found while modelling and are settled. They have no run; the
passing run states what the code does guarantee instead, and its model contains
the behaviour.

| Documented | The code | What holds instead |
|---|---|---|
| retry_task clears the last error | a retry between the two writes of a failed run is followed by the old run's error message | `FailedHasError` |
| snapshot writes are serialised and saved automatically | the copy is taken under another mutex than the write, so the older copy may be written last, both calls returning Ok | `SerialIsDurable` |
| the saved tasks are restored on start | a parent that is removed while a task is being linked to it is still written into the task, and a snapshot that names a missing parent is refused as a whole | `SnapshotRestorable` |
| the restore includes the slot index | the slot of a task that waits for input is not rebuilt | `RestartKeepsWorkingSlots` |
| link_parent prevents cycles | two concurrent links pass the check and close one together; a later walk then keeps the mutex for ever | `SerialForest` |
| a torn last record of a session is discarded | one torn before its first key is shown is an error in every later operation | `RefusedIsFrozen` |
| the Assistant event is on disk before the tool is executed (`ah-contracts/src/session.rs:33`) | a call known only from the deltas of a broken or retried stream is executed by the next run's recovery | `UnannouncedIsLeftover` |
| swarm phases run their tasks in parallel | `futures_join_all` awaits one after the other | not modelled |

## 9. Not modelled

Operations left out of modelled components, which is why their status is
"partly":

- Controller: `run_pending_concurrent` (an order of `run_task` calls), executor
  registration, intent recognition, `filter_tasks`. Session log: path lookups,
  `fork` (a checkpoint to another path), event broadcast after the append.
  Agent loop: prompts, context assembly, callbacks, model choice.
- Workflow: what a node computes; loop, parallel and sub-workflow nodes are one
  execution of one node. Queue: `backlog` and `channels` only read; the Redis and
  Pulsar back ends are requests to servers. Team board: `update_task` changes
  wording only; messages and status events go to the transports. Stream:
  `AsyncStreamQueue::send` and `close` are used by tests only. Kernel: the event
  bus and the selection of plugins by a profile. Team pool: the map from team
  name to entry, behind one mutex.

Components without a module, with the reason for each in `PROJECT.json`:

- *Agent control*, *model backup* and *rails* are seen by the loop as a run that
  stops, a model attempt that fails and a retry that is allowed. `AgentLoop` has
  all of these at every place, so that its properties of the log hold whatever
  controls, backups and rails do. Which run a request reaches is a question of
  its own, which those properties do not need.
- *Application runtime*, *swarm flow*, *callback chain* and *Pregel* are
  sequential: one task makes one call after the other, and what can go wrong
  (section 11) shows in two calls in sequence, without a model.
- *Providers*, *transports*, *MCP*, *external members*, the *checkpointer*,
  *tools* and *system operations* are governed by servers, pipes and programs
  whose behaviour the source does not determine. The models only distinguish
  what the code distinguishes (idempotent or not, success or failure, answered
  or not).
- Components whose operations are functions of their input (rendering,
  templates, security checks, tokenizers, retrieval ranking, evaluation) or
  sequential pipelines (evolution, training): nothing interleaves in them and
  tests reach what they do.

## 10. Plan

The project keeps to a dozen runs, one for each question; the components above
are modelled as far as that allows, and every safety and action property they
check is proved. The components of section 9 would need runs of their own; agent
control and the swarm flow keep state between calls and come first.

## 11. Further hazards

`PROJECT.json` lists the hazards that the properties cover and one of the agent
control that none does. The list below holds the others met while reading the
code; no property is about them, unless the entry says so.

- Task controller and session log
  - `ah-plugins-controller/src/lib.rs:136`: Writing or renaming the snapshot
    fails after the table has changed; the caller must be told, since memory and
    disk now differ.
  - `ah-plugins-session-log/src/lib.rs:374`: The sync fails after the line was
    written: the append reports an error although the event is in the log.
  - `ah-plugins-session-log/src/lib.rs:380`: The event is broadcast after the
    flock is released, so subscribers may see two events of one session in the
    opposite order of their numbers.
  - `ah-plugins-session-log/src/lib.rs:453`: events() turns an I/O or decoding
    error into an empty log, so a conversation rebuilt from it silently loses
    its history.

- Agent loop and team pool
  - `ah-plugins-agent-loop/src/lib.rs:463`: A run that ends clears the interrupt
    and checkpoint controls of its session, also a request meant for the run
    that follows.
  - `ah-contracts/src/team_pool.rs:282`: resume calls the relaunch closures under
    the state mutex; a closure that registers its run itself would wait for that
    mutex for ever. The model launches a thread that registers later.

- Workflow engine
  - `ah-plugins-workflow/src/lib.rs:607`: The order of ready nodes follows a
    HashMap; a condition on the output of a node that is not an ancestor is true
    or false depending on that order. The properties of `WorkflowResult` that
    compare runs are stated for local conditions for this reason.

- Team board and swarm flow
  - `ah-plugins-teams/src/lib.rs:580`: Another member completes or submits the
    task while its subagent runs; the result of the run is then refused and
    lost. `TeamRuns` has the interleaving; the properties say what the board
    keeps, not what becomes of the refused result.
  - `ah-plugins-teams/src/lib.rs:321`: A dependency that failed review never
    becomes done, so its dependents wait for ever.
  - `ah-plugins-teams/src/lib.rs:333`: Status events are emitted after the board
    is unlocked: observers may see two changes of one task in the wrong order.
  - `ah-plugins-teams/src/swarm.rs:144`: A run that exhausted its budget is
    journaled and returned for ever to later calls with a larger budget.

- Plugin kernel, callbacks, Pregel engine, application runtime
  - `ah-hub/src/event_bus.rs:225`: Events are dispatched from a snapshot of the
    listeners; a listener removed meanwhile is still called after its plugin is
    gone.
  - `ah-plugins-runner/src/lib.rs:180`: A callback that exhausts its retries
    returns an error without rolling back the callbacks before it, unlike every
    other failure.
  - `ah-plugins-pregel/src/lib.rs:164`: A node that fails discards the updates
    of the nodes that already executed in its superstep, although their effects
    happened.
  - `ah-plugins-application/src/lib.rs:267`: A resume command sets the task to
    submitted and then runs it in a second call; another runner may take it in
    between, and the command then reports a failure.
  - `ah-plugins-application/src/lib.rs:284`: The command has changed the
    controller before its session event is appended; when the append fails the
    caller is told that the command failed.

- Models, external programs, storage
  - `ah-plugins-model-backup/src/lib.rs:85`: The chunks of an attempt go through
    a channel that is read only after the provider's stream call has returned;
    a longer answer fills the channel, and each side then waits for the other.
  - `ah-plugins-external/src/lib.rs:171`: A turn that times out leaves the late
    lines of the program in the queue, and the next turn takes them, completion
    marker included, as its own answer.
  - `ah-plugins-external/src/lib.rs:156`: A failed write loses the program's
    input handle while it is still counted as running: every later turn reports
    that it was not started.
  - `ah-plugins-mcp/src/client.rs:156`: shutdown marks itself as done before its
    first request; when that fails, a second shutdown returns Ok and the server
    keeps running.
  - `ah-plugins-external/src/client.rs:277`: The inbox marks messages as read
    before they are rendered and handed over; an error or a dropped call in
    between loses them.
  - `ah-plugins-sharing/src/lib.rs:529`: The pending experiences are removed
    before the upload; after a rejected or failed upload nothing is left to try
    again.
  - `ah-plugins-checkpointer/src/lib.rs:399`: The type and the value of a state
    are two keys that expire and are refreshed separately; when one is gone the
    state counts as absent and the run starts over.
