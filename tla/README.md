# Verification of the ArcDesk kernel

ArcDesk is a coding agent: a Go kernel (`src/internal`) with a terminal frontend,
a desktop shell, an editor protocol, an HTTP frontend and a mobile relay. This
directory holds TLA+ models of the parts of it where several actors share state, the
TLC configurations that check them, and TLAPS proofs about them.

    tlasany Jobs.tla                                   parse
    tlc -workers 2 -config MCJobs.cfg MCJobs.tla       model-check
    tlapm JobsProofs.tla                               check the proofs

Every definition is translated from the source; `PROJECT.json` ("map") gives the
lines each one stands for. Definitions marked "Mutant" or "the variant that ..." are
wrong on purpose: each replaces a definition of the model the way a plausible bug
would, and shows that the property it is paired with notices.

## 1. The system

### 1.1 How the parts interact

A frontend (`internal/cli`, `internal/serve`, `internal/acp`, the desktop tabs, the
chat channels) owns a `control.Controller` per conversation and only sends it
commands: Send, Cancel, Approve, AnswerQuestion, SetMode, Rewind, NewSession, and so
on. The controller runs at most one turn at a time on a goroutine. A turn opens a
checkpoint, composes the input (memory notes and notes about finished background
jobs are folded in), runs the agent loop, and at its end snapshots the session.

The agent loop streams an answer from a provider, executes the tool calls in it
(read-only ones in parallel, the others one after another) and repeats until the
model gives a final answer that the readiness checks accept. With two models a
coordinator has a planner write phases first. Before a writer runs, a hook records the
file it is about to change in the turn's checkpoint, and the permission policy may ask
for approval. Approval calls back into the controller, which emits a prompt event and
blocks the call until the frontend answers. Tools can start background jobs and
background sub-agents, which outlive the turn and share the approval bridge with it;
tools of MCP servers go over connections that several conversations share. While all
this goes on the log may be compacted.

Shared state and its locks: `Controller.mu` (turn, modes, pending prompts,
numbering), `promptMu` (one prompt at a time), `jobs.Manager.mu` and a mutex per job,
`checkpoint.Store.mu`, `plugin.Host.mu`, a mutex per lazy spawn and per connection,
in `acp` the mutexes of the connection's writes, of its pending requests and of the
sessions, the workspace pool's and each of its entries' mutex, and in the desktop
`App.mu` for the tabs and `sessionLeaseMu` for the leases. `agent.Session.Messages` has
no lock: it belongs to whoever runs the turn or holds the controller idle.

### 1.2 Components

| component | state | operations | hard behaviours | what makes it correct | module |
|---|---|---|---|---|---|
| Background jobs (`jobs`) | job table, per-job status, buffer and result, completion notes | Start, Output, Kill, Wait, DrainCompletedNote, Close | Kill decides in two steps, goroutines end at any moment, waits race with drains | each completion told once and truly, before the job counts as done; stopped jobs end | Jobs, JobContract |
| Turn gate, plan flow, approval bridge (`control/controller.go`, `control/harness_turn.go`, `harness/fsm.go`) | running turn and its cancel function, modes, grants, pending prompts, FSM phase | Send, Cancel, Approve, AnswerQuestion, SetMode, SetBypass, SetPlanMode; requestApproval and Ask | many callers queue for one prompt; replies sent after unlock; modes in two places | one turn, one prompt, one reply; a plan runs only on its own yes; cancel ends the turn | TurnGate |
| Checkpoints and rewind (`checkpoint`, `control/controller.go`) | checkpoints in memory and on disk, numbering, log boundaries | Begin, Snapshot, RestoreCode, Rewind, summarizeAt, rebindCheckpoints | sequences of rewinds, crashes, failing restores, stale boundaries | a restore is exact; a rewind cuts where the turn began; live turns keep their checkpoint | Checkpoints |
| Agent loop, evidence ledger, planner phases, coordinator (`agent`, `evidence`, `planner`) | batch, receipts, rounds, refusals, phases | Run, executeBatch, executeOne, sign-offs, finalReadinessFailure | parallel batches, receipts in order, bounded refusals | nothing is accepted on a stale receipt; batches and refusals end | AgentLoop |
| MCP plugins (`plugin`, `boot/workspace_kit.go`) | spawn state, connections, registries, pipes | Execute, spawn, Add, Remove, call, Close | lazy spawn races, connects beside disconnects, one pipe | one handshake per spawn, every process in somebody's hands, calls return | PluginHost |
| Session timeline and compaction (`control`, `agent/session.go`, `save.go`, `compact.go`) | log, session file, path, archive, latch | Snapshot, NewSession, Resume, SwitchBranch, Branch, Compact, maybeCompact | a turn, a /compact and a command at once, crashes | nothing said is lost; one conversation per file | SessionLog |
| Tool pairing (`provider/provider.go`) | none | SanitizeToolPairing | logs cut short in a batch | each call sent has one result | ToolPairing |
| ACP agent (`acp`) | connection, sessions, pending requests | new, load, prompt, cancel, request_permission, teardown | requests in both directions, cancels that overtake, end of input | no request waits for ever, nothing is left open | AcpConn |
| Desktop tabs (`desktop/tabs.go`, `app.go`, `settings_app.go`), workspace runtime (`desktop/workspace_runtime.go`) | tabs, controllers, leases, session files, shared kit | open, build, close, trash, rebuild, new and resumed sessions, delete, autosave | builds in the background beside everything else, two locks | one writer per session, kit shared and closed once | DesktopTabs, WorkspacePool |
| Sub-agents (`agent/task.go`) | nested agents | Execute | approvals from the background | as for the turn gate | (TurnGate, Jobs) |
| Task DAG (`taskdag`) | nodes, dependencies, states | Load, Start, Complete | reloads | a node starts after its dependencies | - |
| Permission policy (`permission`) | rules | Decide | precedence | deny wins over ask over allow | - |
| Failure memory, knowledge (`failuremem`, `knowledge`) | a JSON file | Record, Recall | two processes, whole-file rewrites | no lost record | - |
| HTTP frontend (`serve`), relay and mobile (`relay`, `desktop/mobile_relay_client.go`) | subscribers, sockets | subscribe, publish, reconnect | slow and returning clients | the end of a turn is seen | - |
| Runtime hub (`runtime`), provider clients (`provider`), hooks, tools, channels | | | | | - |

The remaining directories (code indexes, memory and skills, configuration, UI,
packaging) are data transformation or assembly with no protocol between actors;
`PROJECT.json` lists each with the reason, and section 6 says more about those that a
reader might expect here. Its "hazards" list says, line by line, what is hard to test
in this code, and which property is there for it.

## 2. What is modelled

Each module is of one component; its header says what is left out. Variables carry the
names of the fields they stand for where there is one; a variable commented "history" is
read by properties only, and "bound" marks a constant that caps a counter.

### 2.1 Background jobs: `Jobs`, `JobContract`, `JobsProofs`

One action per critical section or channel operation of `jobs.go`. A job's goroutine
is a sequence of stages: registered (Start), running (Launch), returned (Return),
marked (the status is set under `j.mu`, over the one that Kill may have put there), noted
(recordCompletion), closed (`close(j.done)`). Kill is two actions, the flip of the
status and the later call of cancel; Wait is the select with its three outcomes;
Drain takes all notes; Close cancels the root context. `completed` is the queue of
notes as a bag, `told` a history of what was drained. What Output and the waits tell the
model is the status they read, so what they told is taken back where the status is
rewritten: ReportsAreFinal is about that step.

Abstracted: output text (a count of writes), ids and labels, notices, `StartedAt`,
and Running, which is a read. A result text is only set or not set.

`JobContract` is what the rest of the kernel relies on, without locks or goroutines: a
started job gets one verdict, the verdict is announced once, and only then is the job
over. `Jobs` refines it; the mapping takes the status as a verdict only from Mark
on, because the early flip of Kill is not one yet: it is what Kill's caller
sees at once, while the run still goes on.

### 2.2 Turn gate: `TurnGate`, `TurnGateProofs`

The turn's goroutine is a program counter per turn (`TurnPc`) through runGuarded and
runTurnWithRaw: auto-plan scoring, the hooks' verdict, the run, the plan gate, the
execution of an accepted plan with `autoApprove`, the deferred closing of the window,
the release of the gate and the TurnDone event. The foreground agent's run is a
batch of calls (`Stream`) that must all have returned before the next batch or the
end. A caller of the bridge goes through calm, queued (for `promptMu`), waiting (for a
reply); Recheck is the second look at bypass, auto-approval and grants after the
mutex was taken. A frontend call that takes prompts off the maps (Approve, SetMode,
SetBypass) moves them to `sending`, and Deliver is the later channel send, since
the code sends after it unlocked. The two places of plan mode (`c.planMode` and
`executor.planMode`) are set by separate actions, as in the code.

Abstracted: what is asked (a member of `Keys`), the policy that decides whether to ask,
hook programs (a choice to block), memory, todo seeding and notices. What a turn does
to the session and files is the subject of `Checkpoints`.

### 2.3 Checkpoints and rewind: `Checkpoints`, `CheckpointsProofs`

The workspace is a function from files to contents, the log a sequence of messages (a
message is the number of the turn that added it, `Summary` a compacted region). Begin
is beginCheckpoint with Store.Begin; Edit is the pre-edit hook (Snapshot) and the
tool's write; AutoCompact, CompactNow and Summarize restructure the log; End is
the deferred save of the session. A rewind has its scopes (code, conversation, both)
and its failures: some files may refuse to be restored, a turn may have no boundary.
Crash stops the program anywhere and resumes the saved session (rebindCheckpoints);
Reopen is a switch of branch away and back.

Two checkpoints with the same number can be in the store at once, and `all()` sorts
them with `sort.Slice`, which promises no order among equals: the content written
back is a choice among them (`Earliest`). `begun` is a history of the workspace and
log at the start of each turn that no rewind undid; `reused` and `restructured` are
history flags that say which of the store's promises can still be expected.

Abstracted: file encodings and the path guard. Taken to succeed: persisting a
checkpoint and saving the session. Outside the code's promise and the model: changes
made by bash, move_file or an editor, which the pre-edit hook never sees, and
sub-agents' edits. One action at a time: a rewind beside a running turn is not
modelled (section 6).

### 2.4 The agent's turn: `AgentLoop`, `AgentLoopProofs`

The rounds of `Agent.Run`: the model answers (Accept, Refuse, Exhaust, or its stream
fails) or asks for a batch of calls; EndBatch puts the results in the log and begins
the next round, up to `maxSteps`. Within a batch MayBegin is partitionToolCalls with
the parallel and serial parts of executeBatch: BeginCall and EndCall of the readers of
one part interleave, BlockCall is every refusal of executeOne. EndCall appends the
receipt (evidence.Ledger.Record) and does what the planner's tools do to the phases.
The queries of the ledger (LatestWriter, HasSuccessfulCommandAfter, Missing,
TodoIsBacked) are those of `evidence.go`, as operators on the sequence of receipts;
StepIsBacked is complete_step's look at each evidence item it is given. A command is a
check or, as CommandSatisfiesCheck has it, a line that contains one (`loose`): both leave
a receipt that satisfies the check. With two models RunPlanned and PlannerFails are Coordinator.Run.

`passed` and `failing` are the truth the receipts are about: which commands have really
run to a success or a failure since the last write. They are histories that the code
does not have, and what the properties compare its verdicts with.

Abstracted: the model's words, the results' texts, the guards that only add text to
them, token counts; the verdicts of the permission gate, hooks and guardian are a
choice. A task list has one item.

### 2.5 MCP servers: `PluginHost`, `PluginHostProofs`

One server as the sessions of a workspace use it. Open is boot's LazyToolset (with or
without a cached schema, with or without a background spawn), Register its caller's
registration of the placeholders, Publish and PublishFailure the end of spawn under its
lock. Host.Add is a small machine of its own (`add`): the look for an existing
connection, the handshake with no lock held (Dialing), the entry into the host's lists;
a lazySpawn and the user's connect both run it. A call looks its tool up in the
registry (LookUp), may meet a placeholder, a connect stub or the tool itself, may run
the first spawn itself, waits for the connection's lock (TakePipe) and for an answer.
Disconnect is Host.Remove and the closing after it; Close and Closed are Host.Close, which
takes the connections there are and closes them later with no lock held. A server may fail,
answer, hang, die.

Abstracted: what a server offers (one tool), prompts and resources, HTTP transports,
the cache's files.

### 2.6 The conversation and its files: `SessionLog`, `ToolPairing`, `SessionLogProofs`

Three goroutines work on the log: a turn (prompt, answers with calls, results, the
compaction between rounds, the save at its end), a /compact beside it, and a command
(NewSession, Resume, SwitchBranch, Branch) that sets session and path in two steps; a
Branch writes the copy of the log before it is loaded as the session.
Fold is compact: it reads the log, asks for a summary, archives, and replaces the log by
what it computed from the log it had read. SetSession puts another `Session` in the
executor's place: a compaction under way has read the one that is put away, also when
the new one holds the same messages (`lost`). A snapshot reads log and path and writes
later. A crash keeps the files and loses the rest. `Held` says that the frontend holds
commands back while a turn runs; `stale` records that something was replaced on the
strength of an older log, which the terminal's /compact beside a turn can still cause.

`ToolPairing` is SanitizeToolPairing as operators on sequences of messages; every
request is built through it.

Abstracted: the text of messages, token estimates (whether a pass is due and where the
tail begins are choices), branch metadata.

### 2.7 The editor protocol: `AcpConn`, `AcpConnProofs`

The connection with requests in both directions: frames on `wire`, the reader
(Conn.Serve) that starts a goroutine per frame, a handler per request (new, load,
prompt, cancel), a goroutine per permission that asks the client and approves in the
controller, and the end of the input: cancel, await the handlers, fail what is
pending, tear down. The reader resolves answers itself; `sends` counts what goes to a
request's channel, which holds one.

Abstracted: the updates streamed during a turn, malformed frames, unknown methods. A
patient client has one prompt and one load of a session in flight; an impatient one is
allowed by the model and excluded by the constant `Patient`.

### 2.8 The desktop: `WorkspacePool`, `DesktopTabs`, `DesktopTabsProofs`

`WorkspacePool` is workspace_runtime.go: a map entry with a reference count and a kit,
looked up under the pool's lock and used under its own (Acquire and Enter; the look-up
and Leave of a release; Invalidate and Invalidated), a preparer and its waiters.

`DesktopTabs` extends it: its holders are the controllers of the tabs. The background
build is a sequence of steps (kit, boot, claim of a session file, load or fresh,
install); CloseTab, TrashTopic, NewSession, ResumeSession, the rebuilds of SetModel and
of a configuration change, DeleteSession, RestoreSession and the autosave loop run
beside it, cut where the code lets go of its lock. Turns begin and end on a controller at
any moment: CloseTab and the rebuilds do not wait for them, and a turn goes on, and may
save, after its controller is closed. Each snapshot may fail; LastSnapshot is the one whose
error is dropped before a close. A lease is an entry of
`sessionLeases`. Every step of the tabs is a step of the pool or leaves it alone, which
is proved (TabsUseThePool): the pool's results are results about the tabs.

`crossed` records the tabs on which a build, a rebuild and an end overlapped, or a turn
began before a rebuilt controller had its path; `moved` those that a command moved to
a file they did not claim; `unsaved` those whose last snapshot failed or saw a turn cut;
`cut` the controllers closed then. The code prevents none of them, and loses its promises
(section 3.1); the properties are about the rest.

## 3. What is checked

| run | question | result |
|---|---|---|
| jobs | do notes and results stay true under every interleaving of goroutines, Output, Kill, Wait, Drain and Close, and is a status rewritten only where a run overtakes its Kill; does the table implement `JobContract`; do killed and closed jobs end, and do waits return | holds |
| jobs_kill | does a job that was reported killed stay killed | violated |
| turngate_prompts | with a foreground call, a plan gate and a background agent competing: one prompt at a time, one reply each, none lost, none left under bypass | holds |
| turngate_turns | over two turns: is Cancel wired to the running turn only, does auto-approval end with the plan's execution, does each plan need its own yes and run in the execute phase | holds |
| turngate_liveness | does a cancelled turn reach TurnDone, and does bypass release waiting calls, without any answer from the user | holds, with no background agent |
| checkpoints_timeline | three turns of edits, rewinds, compactions, crashes: exact restores, kept checkpoints, right boundaries, until a number is reused (and, for boundaries, the log is restructured) | holds |
| checkpoints_reuse | is a restore exact after a number was reused | violated |
| agent_loop | did a command that satisfies each check of an accepted answer succeed after the last write, is a turn undone for a real failure only, do only readers overlap, do sign-offs follow their evidence, do batches, refusals and turns with a limit end | holds |
| plugin_host | with background spawns, first calls, connects, disconnects and the host's close racing: one handshake per spawn, each process in somebody's hands until Host.Close is over, tools that lead somewhere, calls that return | holds |
| session | with a turn, a /compact, commands and a crash: is what is sent paired, is nothing said lost, does a crash cost one turn at most, does a file keep one conversation | holds |
| acp | do permissions stay the client's, can the running turn always be cancelled, does Serve return and leave nothing open | holds |
| desktop_tabs | two tabs, their turns, builds, ends, rebuilds, moves, deletions and autosaves: one writer per file, turns lost only where a snapshot failed or a close cut them, nothing left behind, the kit shared, open and waited for | holds |

### 3.1 Where the code and its comments disagree

Two runs check a statement of a comment and find it violated (the sentences are quoted in
`PROJECT.json`, "findings"):

- `checkpoints_reuse`: a conversation rewind sets the numbering back (controller.go:1082)
  and leaves the undone checkpoints in the store. The next turn takes a number the store
  already has, and RestoreCode may write back the abandoned turn's content.
- `jobs_kill`: Kill flips the status (jobs.go:216) and cancels the context after it has
  let go of the lock (222). A run that returns in between is not cancelled yet, and its
  goroutine writes done or failed (132-138) over the killed that Kill's caller, Output (197) or
  a wait that timed out has reported. The note, queued later, has the final status.

The other disagreements met while modelling are in the model as the code has them, and
the passing properties carry the condition under which they hold. Paths are those of
the component.

- *A cancelled turn can wait for another prompt* (controller.go:2252, against 823-824).
  promptMu is taken with a plain Lock that does not look at the context. A turn whose
  call queues behind a background agent's prompt stays in flight after Cancel.
- *The plan window answers for other turns' agents* (controller.go:2019, against 507
  and 126-128). autoApprove is a flag of the controller, and a background agent that
  inherited the interactive gate in an earlier turn is allowed by it.
- *Boundaries after a compaction* (compact.go:228, against 96-97). Compaction replaces
  the middle of the log and keeps the boundaries; a later rewind cuts elsewhere, or
  reports a rewind that it did not do (`restructured`).
- *Turns that are not saved* (controller.go:1424, against 1377-1379). The end of a turn
  compares message counts. A turn in which the log was compacted to no more messages
  than it began with is not saved (`skipped`).
- *A phase left open* (agent.go:688, against controller.go:444-447). Phases outlive the
  turn that loaded them. In plan mode a turn with one open cannot complete it, is
  refused until it is exhausted, and never gets to ask the user.
- *A check in the background* (evidence.go:118). The receipt of a command started in the
  background counts as a passed check once the command was started. The constant
  `Background` switches it; the run has FALSE and the theorem assumes it.
- *Success of a line is not success of the check* (commands.go:9-104, evidence.go:119). A
  receipt satisfies a check if the command line contains the check or a narrower run of it:
  `go test ./... || true`, `go test ./...; echo done` and a single package of it do, so that
  an accepted answer need not have had the check pass. AnswerRanItsChecks claims the
  command's success and no more.
- *Rounds without a limit* (agent.go:503-505, 590). With maxSteps 0 a model that goes on asking
  for tools keeps the turn going. TurnReturns claims the end of each batch and request, and
  the return of a turn with a limit.
- *A connection behind Host.Close* (plugin.go:353-364, "terminates all plugin connections").
  Close takes the connections there are; an Add in flight enters its own afterwards
  (616-618), and nobody closes that process unless the user disconnects the server. Its
  context is the application's (PluginCtx), so it stays till the application ends.
- *A handshake that hangs* (lazy.go:188, against stdio_cancel_test.go:12-16). The first
  call runs the handshake on the session's context: cancelling the call does not end it.
- *Why an editor's turn ended* (service.go:261 and 269, against 239-242). The reason is
  read off a context that the same function has cancelled: each turn that ends without
  an answer is reported as cancelled.
- *Sessions without a lease* (desktop/app.go:1077, against the comment of the leases, 82-83).
  A tab that starts a new session or resumes one writes it without a lease (`moved`).
- *Builds that nobody stops* (desktop/tabs.go:611). CloseTab during a build leaks the
  controller, its kit and its lease; SetModel during a build leaves a live controller
  overwritten; TrashTopic releases neither lease nor kit; DeleteSession does not see a file
  that a tab has claimed and not been given its controller for; a turn that begins before a
  rebuilt controller has a path may not be saved (`crossed`).
- *Closed under a turn* (desktop/tabs.go:614-617, settings_app.go:473-478, app.go:2937, 3051).
  CloseTab asks the turn to stop and waits for nothing; rebuild does not look for one, and
  SetModel and SetEffort look before a turn can begin behind them. Each drops the error of
  the last snapshot, as ResumeSession does (app.go:1077), and closes the controller. The
  turn runs on and saves at its end (controller.go:1423), on a closed controller: after
  CloseTab without a lease, after a rebuild into the file the new controller writes too,
  so that each overwrites the other's turns, and after TrashTopic into a file that was just
  moved away. A turn that compacted the log is not saved by itself (`unsaved`, `cut`).
- *The pool's two locks* (desktop/workspace_runtime.go:47). An entry can be deleted under
  a holder that has looked it up (`orphaned`); an invalidation closes the kit under
  those that hold it (`invalidated`).

### 3.2 Bounds

- Jobs: one bash and one task job, one waiter, one write. The two kinds differ in what
  they return and stream; a second job of a kind only meets the first in Wait's target
  set.
- TurnGate: one foreground call and one background agent beside the plan gate are three
  competitors for one mutex; two prompts let one be answered while another queues;
  two turns let a flag, grant or agent of the first reach the second. At `MaxTurns` and
  `MaxPrompts` no turn is sent and no prompt is shown. The liveness run has two parallel
  calls, so one queues behind another.
- Checkpoints: three turns reach a reuse of a number followed by a further turn, a
  resume in between, and a rewind over two turns. One block of messages per turn is
  added between compactions. Two contents and the absent one tell "before", "after" and
  "someone else's" apart. Files and contents are interchangeable, hence the symmetry;
  no liveness is checked under it.
- AgentLoop: one file, one check, a line that contains it, and three calls are a write, its
  check and a sign-off (that cites both), or a check made stale by a write; batches of two
  have a reader beside a reader, a writer or a sign-off; two refusals exhaust a turn, two
  turns let phases and plan mode reach the next; a limit of one round, or none. `MaxCalls`
  bounds the turns without a limit only, and no property speaks of their return.
- PluginHost: one session, whose user also connects and disconnects, has two Adds for one
  server; two calls meet at the placeholder, its lock and the pipe; two connections and
  two commands (connects, disconnects, the close) let a new connection follow a
  disconnected or a closed one.
- SessionLog: four messages and answers with two calls leave room for an exchange and what
  is said before or after it; two files, three commands (compactions included), since
  a /compact can outlive the session it has read through two of them, and one crash. Sessions whose provider names its calls, and commands that are held back; both
  are constants.
- AcpConn: four requests of one session are a load or new, two prompts and a cancel; two
  permissions; the input may end at any point.
- DesktopTabs: two tabs compete for a file; three controllers let a tab be rebuilt or built
  while the other has one; two entries of the pool, three files (the one that is there,
  and one named by each tab), two commands or turns: one turn cut by one close, or two turns
  about one autosave. A change of the configuration, an invalidation with a rebuild, counts
  as two, so that builds run beside it and other commands do not. Tabs and controllers are interchangeable.
- Deadlock is checked for Jobs, TurnGate and Checkpoints. The others stop at their bounds
  (commands, calls, messages or files used up), and their cfgs say so.

### 3.3 Fairness

- Jobs: weak fairness of Launch, Mark, RecordCompletion, CloseDone and KillCancel
  (steps of a goroutine that wait for nobody), of a run's return once its context
  is cancelled (`exec.CommandContext` kills the process and WaitDelay bounds the
  wait; a sub-agent's stream ends with its context), and of a wait whose channel is
  closed or whose timer fired. Nothing obliges a command to finish by itself or a caller
  to call.
- TurnGate: weak fairness of the turn goroutine's own steps, of deliveries and of calls
  that have an answer or a cancelled context; strong fairness of taking promptMu, since
  a Go mutex hands itself to a starved waiter; a cancelled run returns once its
  batch has. The user never has to answer, cancel or switch a mode.
- AgentLoop: weak fairness of the model (a request ends, by an answer, by calls, an error or
  its context) and of the tools (each has a timeout or ends with its context). What the
  model says is its choice, so it may insist for ever on what the host refuses.
- PluginHost: weak fairness of goroutines that can run (Host.Close's included), strong fairness of a
  connection's lock, and a server that neither hangs in a handshake nor in an answer. Nothing is
  assumed of the user.
- AcpConn: weak fairness of the reader, the handlers and the permission goroutines; a turn
  ends when it was cancelled. Nothing is assumed of the client, and an uncancelled turn may
  go on for ever.
- Checkpoints, SessionLog and the desktop have safety properties only.

## 4. What is proved

For every value of the constants, from the assumptions named in each module and nothing
else. In each module the properties are not inductive by themselves, and an invariant
`IInv` of named parts is.

**JobsProofs.** That a note is queued once and tells the truth depends on where the
goroutine is, since it queues only between Mark and CloseDone, and on Kill leaving a
terminal status alone. `IInv` adds StatusFollowsStage, NotedByStage, FlipIsKills
(a terminal status before the verdict is Kill's, whose cancel is called or due) and
ResultAfterMark. Theorems: TypeCorrect, NotesAreTrueAndOnce, NoteIsQueuedBeforeDone,
ReportsFinal (an action property), and TableKeepsContract (the refinement of
`JobContract`).

**TurnGateProofs.** Four parts that lean on one another in one direction: RoomLeft (each
call that queues has a number left for its prompt), Prompting (a prompt is pending,
taken by a mode switch, or answered, in one of these once, and belongs to the holder of
promptMu), InFlight (one turn, a window that is its, a phase that fits) and Planned.
Theorems: TypeCorrect, OnePrompt, BypassClears, AnsweredOnce, OneTurn, WindowEnds,
PlansRunApproved.

**CheckpointsProofs.** All the properties rest on facts about turn numbers that the code
nowhere states:

- StoreInv: one file per number, the active checkpoint is on disk, memory and disk have
  the same numbers, and until a reuse the same checkpoints;
- NumberInv: the numbers on disk and below cpTurn fill an initial segment without a
  gap, so that NextTurn after a crash cannot skip or repeat a live turn;
- RunInv: a running turn has the active checkpoint and the newest number;
- LogInv, BoundOnDisk, BoundsGrow: the log and the session file both extend the start
  of every live turn, a boundary in memory is that of a checkpoint on disk, and later
  turns began no earlier in the log.

Every step is shown to be of one of five kinds (FiveKinds), and each part of `IInv` is
preserved by each. RestoreExact: a new turn has recorded nothing and is newer than the
rest; an edit records what it changes unless the file was recorded before, in which
case the older record is what a restore of any earlier turn uses; a restore of a turn
writes back what a restore of an earlier live turn would. The delicate case of LogInv is
End without a save: then the log is no longer than the turn's start, which it extends,
so it is that start, and the file has it. Theorems: TypeCorrect, LiveTurnsKeep,
RestoreExact, BoundaryCuts.

**AgentLoopProofs.** InOrder (calls begin in the order of the batch, and whatever overlaps
is a run of parallel readers), Passed (a receipt of a success after the last write is of
a command that succeeded since), Failed (the latest command's receipt does not hide a
failure), Accepted (an accepted answer had its receipts). Theorems: TypeCorrect,
ReadersOverlap, SignOffsStand, FailuresAreUndone, and AnswersRanTheirChecks, which assumes
`~Background`: without it the property is false (section 3.1). It says that a command which
satisfies each check succeeded, not that the check passed.

**PluginHostProofs.** Wired, Handshake (a handshake is run by the spawn's Add while it is in
flight), Processes (each process is the host's, an Add's about to enter it, or a
disconnection's about to close it), Gone (what Host.Close has taken is dead once it is over), Locks (a lock is held by a call that uses it) and
Linked (until a disconnection, whatever has a connection has one of the host's).
Theorems: TypeCorrect, SpawnsOnce, ProcessesAreHeld, LocksAreInUse, ReadyToolsLead.

**AcpConnProofs.** Wired, OneResult, Allowed, Answers, InTurn, Registered, Running and
NothingLeft: a session is registered once, by the call that built its controller; a
handler that runs has what it looked up; and a patient client's prompts of a session
follow one another. Theorems: TypeCorrect, OneResultEach, RanAllowed, OpenForTurns,
CancelReaches, AllClosed.

**SessionLogProofs.** `IInv` has four parts that always hold: Typed (calls have ids of their
own wherever they got to, if the provider gives any); Phases (where the turn, its
compaction and its snapshot are); Cut (a compaction's region ends in front of an
exchange, inside the log it read, and is archived); Alone (with commands held back, what
runs beside what). As long as nothing was overwritten (`Held` and not `stale`) it adds InOrder (in the
log, in the files and in whatever a snapshot, fold or command carries, a result stands
behind its calls), ReadBefore (what was read before the turn has nothing of the turn),
OneEach (every copy of a conversation belongs to the file it is meant for) and Kept
(what the log has and its file has not is the turn's, or a snapshot is under way).
Theorems: TypeCorrect, ResultsFollow, PromptsAtRisk, OneConversation, the action
property DroppedKept, and SentPaired. The last is a theorem about SanitizeToolPairing
and any log: what each message puts into the request is in order by itself, putting such
pieces behind each other keeps the order (PairedParts), and where the log is in order
already, the pieces up to a message make up the log up to the end of its results
(SentAsIs). FlattenSeq is a recursive definition; FlattenSteps names its values prefix
by prefix, by taking the first prefix at which they would differ (Least), since the
library's induction cannot be used. The attempt corrected the model: it compared only the contents of
the logs to see whether a compaction had been overtaken, and OneConversation failed
when a /compact outlived its session through two commands that left an equal log.

**DesktopTabsProofs.** First the pool: Placed, OnePreparer, Counted (the map's entry counts
those that hold its kit, by cardinality) and Shared give PoolTypeCorrect,
PoolSharesTheKit and PoolWakesWaiters. TabsUseThePool: each step of the tabs is one of
the pool or a stutter, so that TabsShareTheKit and TabsWakeWaiters follow.
LiveHaveTheirKit needs that each live controller is a holder with the kit (Kept): it is
made by one build or rebuild and released by whoever closes it.

The promises of the tabs are proved together, as Ties: a controller belongs to one build,
one rebuild or one tab (Apart), is no holder yet to come (Taken), has neither a turn
nor a path before it is the tab's (Clean); a build and a rebuild hold the lease of the
path they bring (Leased); names in use were given out (Named); where nothing
overlapped, one thing at a time is done on a tab (Still), an unsaved turn has a path
to be saved at (Saves), and every live controller is in a tab's or a build's hands
(Seen). The snapshot before a close leaves nothing of its controller unsaved, or the
controller is cut (LastSnapshotSettles); a turn that still runs on a closed one is cut too. Theorems: LeasesHeld, TurnsSaved, NothingLeft.

Only model-checked: all liveness properties (liveness under fairness is out of the
prover's reach) and the two violations. Every invariant and action property of the runs is a
theorem.

## 5. Plan

Built in this order: Jobs, TurnGate and Checkpoints; then AgentLoop, PluginHost,
SessionLog with ToolPairing, AcpConn, WorkspacePool and DesktopTabs, with a proof module
for each component; WorkspacePool's proofs are with those of DesktopTabs. What would come next:

1. UndoHistory, an abstract specification of rewind (a stack of moments), with
   Checkpoints shown to implement it while no number is reused.
2. A composition of TurnGate with a one-file Checkpoints for the two hazards between
   them that no property covers (section 6).
3. Algorithms against reference definitions: permission precedence, the task DAG's
   readiness, the fold regions of compaction.

## 6. Not modelled

- *Rewind beside a turn* (controller.go:1060 and 387). Rewind reads `running` under the
  lock and works without it; the gate opens before the rollback of an exhausted turn. The
  gate is TurnGate's and the files Checkpoints'; their product is past TLC's reach.
- *Relay and mobile pairing.* The desktop never learns the session ids the relay makes,
  so requirePairedSession refuses every relayed message: there is no working exchange
  to model. A message for a desktop whose queue is full is refused
  (relay/server.go:341).
- *HTTP fan-out.* A subscriber that is slow loses events, as the comment says; nothing
  promises it the end of a turn.
- *Failure memory and knowledge.* Two processes that share the file rewrite it as a whole
  and lose each other's records; there is no lock to model.
- *The scheduler* (desktop/scheduler.go:93). A tick works on a copy of the tasks and writes
  it back, over an edit made meanwhile.
- *Notes drained for nothing* (controller.go:459). Compose drains the notes of finished jobs
  before a hook can block the prompt.
- *Rewinding to turn 0* (controller.go:1397). The empty log is not written, so a crash after it
  brings the conversation back.
- *A checkpoint that cannot be persisted* (checkpoint.go:196) is only logged: rewind works
  until the program restarts.
- *Plan mode in two places* (controller.go:1866), set in two steps by two goroutines:
  TurnGate has both and no property relates them, since the code promises nothing.
- *NewSession beside a running turn* (controller.go:1002): it does not look. SessionLog has it
  with `Held` FALSE, for which the code's promises are not claimed.
- *What the session files of the desktop hold*: DesktopTabs knows whether a turn was saved,
  not by whom it was overwritten later (section 3.1, closed under a turn). The end of the
  application (desktop/app.go:283-290) closes the tabs as CloseTab does, and is left out, as
  is a turn sent to a controller by a caller that looked it up before it was replaced.
- *connectedTools* (plugin.go:645): Remove does not take the tools of the connection out of
  the list, so that a later reuse may give tools of a closed one. PluginHost has the list
  (`listed`), and ReadyToolsAreConnected stops at the first disconnection.
- *Receipts of writes* (evidence.go:569): only six tools leave one, so that bash can change
  files after a check. AgentLoop's writer is one of those tools.
- *The stuck latch of auto-compaction* (compact.go:108): passes that fold nothing count.
  SessionLog has the latch as it is; no property of when it closes.
- *Sub-agents* run AgentLoop with a ledger and a session of their own; TurnGate has their
  approvals and Jobs their job.
- *Terminal frontend, desktop views, tools, hooks, providers, indexes, memory,
  configuration*: presentation, data transformation, platform calls or network streams.
  They make up most of the source's lines. Where a model meets them, what they do is a
  choice.
