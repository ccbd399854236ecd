# pi-toolset in TLA+

pi-toolset is a set of extensions of the pi coding agent. `pi-agents` delegates
work to child agents and keeps each delegation as a durable *run*; `pi-lsp` runs
language servers, `pi-format` runs formatters, and `pi-remote` gives a session a
workspace over ssh. This directory models the parts whose correctness depends on
order: who owns a run, a lock or a session, what a crash leaves on disk, and
what happens when callbacks, time-outs and callers meet.

## 1. The system

| Component | State | Operations | Interacts with |
|---|---|---|---|
| Run store, claims (`run/run-store.ts`) | ticket directories, `owner.json`, `terminal.json`, `record.owner` | `claimRun`, `releaseRun`, `abandonRun`, the ticket scan | other processes through the file system; resume, coordinator |
| Run store, transaction lock | one lock directory, `owner.json`, `owner.previous`, the two intents, tombstones | acquire, take over, recover a takeover, release | other processes; every locked call of the store |
| Run store, durable updates | `run.json`, the rollback copy, the transaction marker | `updateRunStrict`, `updateRun`, recovery, `loadRun` | the lock; power losses |
| Run store, event log and listing | `events.jsonl`, the run directories | append, list, create | readers in other processes |
| Session leases (`run/session-lease.ts`) | a store of leases and a chain of tails per session key | `acquireSessionLease`, release, `awaitSessionLease` | resume, the pi and Grok executions |
| Run coordinator (`run/run-coordinator.ts`) | the record of a run in memory, its units and attempts, queued writes | start, transition, settle, abort | store, persistence, tool |
| Persistence (`run/run-persistence.ts`, `shared/update-coalescer.ts`, `shared/effect-runtime.ts`) | pending write, write in flight, keyed queues | schedule, flush, close | coordinator, store |
| Resume (`run/resume.ts`) | the claim, the units to start again | plan, claim, seed | store, leases |
| Background runs (`execution/background.ts`) | the registry of jobs, the limit | launch, settle, notify, cancel, cancel all, wait for idle | tool, session, persistence |
| Chains and parallel units (`execution/chain.ts`, `tool.ts`, `worktree.ts`) | results per step, the pool, worktrees, the abort signal | run, fan out, fail fast, resume | execution, coordinator, git |
| pi children (`runtime/pi-rpc`) | child process, pending requests, partial records | request, prompt, abort, dispose | interactive agent, leases |
| Grok (`runtime/grok-acp`) | child process, stages, turns, the transcript | run, prompt, cancel, load, dispose | leases, agent view |
| Interactive agent (`interactive/`) | turns, the queue of messages, the transport | send, steer, abort, hand over, dispose | relay, leases |
| Artifacts (`run/artifact-store.ts`) | files and their records | publish, read | run directory |
| Language servers (`pi-lsp`) | instances, open documents and versions, pending requests | start, open, change, request, stop | edit hooks, child processes |
| Diagnostics (`pi-lsp`) | what is pending and what was delivered | publish, invalidate, drain, clean | language servers, the session |
| Formatter (`pi-format`) | settings, the choice of formatters | format after edit, format tool, toggles | edit hooks |
| Remote (`pi-remote`) | the connection and the current workspace | connect, run, disconnect | ssh |

What is hard in this code, and what the models are for:

* **Processes that share only files.** Claims and the transaction lock are built
  from `rename`, `link` and `unlink`; a process may die between any two calls,
  and its pid may be given away.
* **Crashes and power losses.** A strict update promises that exactly one record
  is current after any interruption, with calls that may fail and directory
  changes that may be lost or reordered until an `fsync`.
* **Promises.** Leases, queues, time-outs and aborts interleave at every `await`.
* **Fail closed.** Where the code cannot know (a process that may still live, a
  release that failed) it must refuse rather than guess.

PROJECT.json lists every component with its status, the hazards with their
lines, and the source lines each definition stands for.

## 2. The modules

| Module | Models | Checked by | Proofs |
|---|---|---|---|
| `ExclusiveUse` | a resource that one client uses at a time: the abstract specification | `INSTANCE`d by the next three | |
| `RunClaims` | ownership of a run | `MCLocks` | `LocksProofs` |
| `TxLock` | the transaction lock of a run directory | `MCLocks`, `MCTxLock` | `LocksProofs` |
| `SessionLease` | the lease of a session | `MCLocks` | `LocksProofs` |
| `StrictTx` | durable updates of run.json under that lock | `MCRun` | `StoreProofs` |
| `Artifacts` | the file of a large result, and the record that names it | `MCRun` | `StoreProofs` |
| `RunRecovery` | one run across processes: claimed, ended, left, marked, resumed | `MCRun` | `StoreProofs` |
| `RunCoordinator` | the coordinator of a run, its lanes, crash and resumption | `MCRun` | `RunCoordinatorProofs` |
| `Workflow` | chains, parallel units, their worktrees, their resumptions | `MCWorkflow` | `WorkflowProofs` |
| `Background` | foreground calls and background jobs, notices, shutdown | `MCHost` | `HostProofs` |
| `InteractiveAgent` | an endpoint of the interactive registry and its child | `MCInteractiveAgent` | `InteractiveAgentProofs` |
| `RpcTransport` | the pipe to a pi child | `MCEndpoints` | `EndpointProofs` |
| `RecordProjector` | the parser of its records | `MCEndpoints` | |
| `RpcExecution` | a unit that runs in an interactive endpoint | `MCEndpoints` | `EndpointProofs` |
| `GrokAcp` | one run over ACP | `MCEndpoints` | `EndpointProofs` |
| `GrokTransport` | the open connection of the agent view to Grok | `MCEndpoints` | `EndpointProofs` |
| `GrokTranscript` | the messages that a Grok session becomes | `MCEndpoints` | `EndpointProofs` |
| `LanguageServer` | a language server, its client and one file | `MCLanguageServer` | `LanguageServerProofs` |
| `Diagnostics` | what servers publish and the agent is told | `MCHost` | `HostProofs` |
| `EditHooks` | what follows an edit: formatter, language server, switches | `MCHost` | `HostProofs` |
| `Remote` | the SSH mode | `MCHost` | `HostProofs` |

The layers rest on each other by their promises. `StrictTx` takes the lock as
exclusive, which `TxLock` implements. `RunCoordinator` takes a call of the store
as one step that may fail, which `StrictTx` refines to renames and fsyncs.
`Workflow` takes a write of the coordinator as one step. `RunRecovery` takes a
claim as `RunClaims` shows it, and `Artifacts` and `RunRecovery` take an update
of run.json as `StrictTx` shows it. `RpcExecution` sees the endpoint that
`InteractiveAgent` models in detail; `GrokAcp` and `InteractiveAgent` take the
lease of `SessionLease`, and `InteractiveAgent` a transport that `RpcTransport`
or `GrokTransport` models.

`MCLocks`, `MCRun`, `MCHost` and `MCEndpoints` each check several modules that
share no state: a behaviour is one of `system`, the other parts stay in their
first state, so states add up and do not multiply.

Names follow the code. A definition named `X_Y` is `X` as a plausible bug would
have it; a comment above it names the bug. No specification uses these
definitions. They show that the property named with them would catch the bug.

### RunClaims

*State.* `owner[t]` and `terminal[t]` are `claims/<t>/owner.json` and
`terminal.json`; `recOwner` is `record.owner` of run.json; `pc`, `my` and `scan`
are the progress of a call of `claimRun`. *Actions.* `publishUniqueTicket`
(listing, then the rename that may find the number taken), the scan of
`lowestEligibleTicket` one ticket at a time with `abandonRun` of dead ones, the
update of the record, the withdrawal after a failure, `releaseRun`, and the
death of an instance. *Abstractions.* A directory is visible with its owner file
since it is renamed into place complete. A call is made once; a bound, since
tickets never return. In the run each claim is made by an instance of its own;
the theorems are about any `InstanceOf`.

### TxLock

*State.* Directories are named after the process that published them: `fixed`
is the one under the lock's name, `tomb[p]` one that `p` moved away; per
directory `owner.json`, `owner.previous` and the two intents. *Actions.* One per
system call of `tryAcquireTxLockOnce`, `tryStealStaleLock`,
`recoverDeadStealIntent`, `assistOwnerRelease` and `releaseTxLock`; check and
unlink inside one helper are one step, since the helper re-reads by the name it
unlinks. *Abstractions.* The candidate directory before its rename is private
and left out; inodes and pids are not used twice (the code compares start times
on Linux; elsewhere it cannot). The deadline of a waiting call expires only
while somebody else is active. A process makes one acquisition.

### StrictTx

*State.* `dir` is what the three names show, `disk` the directories a power loss
may leave, `pc` and `from` where the call that has the lock is, `reader` and
`got` the loads without the lock; `allowed` what callers were told. *Actions.*
One per rename, unlink and `fsyncRunDir` of `updateRunStrict`, `updateRun`,
`recoverStrictTransactionLocked` and `cleanupTxPhase`, each of which may fail or
be the last; `Load` and its two probes. *Abstractions.* A record is its version;
checks of identity, mode and digest compare versions; reads do not fail. A
failed fsync leaves the changes pending. On a file system that does not keep the
order of directory changes only power losses are considered.

### SessionLease

*State.* The lease in the store, the tail of the key's queue, and per call its
predecessor, what it waits for, and the state of its own lease. *Actions.*
`acquireSessionLease` between two awaits, release with and without certainty,
`awaitSessionLease`. *Abstractions.* One key: keys share nothing. A restart
clears the store, and nothing else is kept.

### RunCoordinator

*State.* `runJson` and `live`, the record in run.json and in memory; `todo`, the
calls in the store's queue for this run; `durable`, the coordinator's queue of
durable writes; per unit where its lane is; history of what was told to
children. *Actions.* `startUnit`, the session stamp, the prompt, its
establishment, `persistContinuationDelivery`, `finishUnit` and its event,
`expandFanout`, `persist` with its timer, `finalizeRun` with the barrier before
it, `Crash`, and the resumption with its choice of units. A call of the store
with what follows it at once is one step. A call that fails may or may not have
changed run.json. *Abstractions.* A unit keeps its attempt, session, status,
history and deliveries; results, details and identities are dropped; cancelled,
interrupted and skipped are folded into failed and queued. The claim of a
resumption is that of RunClaims. Grok's ACP session ids and interactive bindings
are left out, and so is `flushNow`, which nothing calls.

### LanguageServer

*State.* `inst` and `client` are the closures of instance.ts and client.ts;
`process[g]` is the g-th process spawned with its connection and the content it
was told; `starter` is where the one shared `doStart` is, `closer` the calls of
`client.stop` in progress; `opened` is the manager's bookkeeping, `wire` the
notifications handed to the connection. *Actions.* The steps of start-up and of
a stop, exit, close and write events, and each call of the edit hook
(`syncFileChange`) and of the lsp tool between its awaits; a continuation
(`Ready`) runs before the next event. *Abstractions.* One server, one file;
vscode-jsonrpc is external: a write happens one turn after it is asked for, a
failed write is an error of the connection and not of the caller, disposing of
a connection rejects what is pending, and its closing does not. Kill takes
effect at once. A tool call asks one question. The classification of a start-up
failure is retryable or not. The user has one stop in progress. A living server
may answer or not, and read its pipe or not (`Server`); what the runtime does by
itself is `Progress`. What the server
publishes is `Diagnostics`; handlers queued before a start are left out.

### Artifacts

*State.* The path of one content, `artifacts/sha256/<prefix>/<digest>`, has four
entries: `entries` exist, `synced` are durable; `content` is what the file
shows; `writer[w]` is where a call is; `onRecord`: run.json refers to it.
*Actions.* The calls of `writeArtifact` in order (directories and their fsyncs,
staging file, fsync, rename, four directory fsyncs), the record, a failing call,
a death, a power loss, which keeps the durable entries and any prefix of the
others. *Abstractions.* A small result stays inline, and one that is too large or
cannot be serialised is refused before any step. Staging names are unique, and a
death leaves one behind. A reader (`verifyFile`) is `Readable`.

### RunRecovery

*State.* `runStatus`, which claim is open and whose, `orphan` (its owner died),
per actor where its job is. *Actions.* Creation and claim, resumption with the
second look under the claim, the steps of `finalizeDurableRun`, the
session-start handler's listing, inspection, claim, mark and release, a failing
call of the store, the death of a process. *Abstractions.* The units follow the
run's status. A failing call may have written.

### Workflow

*State.* Where the chain and each worker is, which process life it is, the
record of each unit (status, session, attempt, worktree), the worktrees that
exist and whether they hold work. *Actions.* What the process does between two
waits in `chain.ts` and `runStepWithContext`: a step begins, a pool takes a unit,
its worktree is made or reopened, the session is stamped, the child answers, the
worktree is captured and removed or kept, the unit ends, the step and the run
end; abort, crash, resumption. *Abstractions.* An answer is the number of the
attempt that gave it, so that a stale one is told apart. Children honour SIGTERM,
and a crash takes the children with their pipes. `attempts` counts the times a
unit was begun. Coalesced updates are one flush. `MaxSteps` bounds the plans, so
that the units are one set for all of them.

### Background

*State.* Per call its phase, its lane, whether its abort signal fired, what was
told and what is on record. *Actions.* The steps of `runWithBackgroundOption` and
`finalizeDurable`, `launch`, the run's end, `cancel`, `cancelAll`, `waitForIdle`,
the shutdown. *Abstractions.* A run goes on until it ends, well or not.

### InteractiveAgent

*State.* `reg` is the endpoint with the registry's maps for its key; `at` where
the one running transition waits; `outq` the outbound queue; `call` the calls of
activate; a transport is the spawn that made it. *Actions.* activate with its
barriers, start-up and its superseding, messages, steering, abort with its timer,
detach, idle eviction, distrust, shutdown under its deadline, and what the child
does: begins a turn, retries, ends, exits. *Abstractions.* `Plans` says what the
environment may do in a behaviour: TLC would not finish with all of it at once.
Leaving the branch, registration, transcripts and the relay are left out.

### RpcTransport, RecordProjector, RpcExecution

`RpcTransport`: the requests, what is under way from the child, the child's life
(exit is seen before its pipes close), the one shared teardown. Each event of the
process and each timer is an action. `RecordProjector`: a record is a sequence of
tokens with their bytes; the parser (states, container stack, budgets) is
checked against a recursive reference of which records are whole events and
which budget they have earned. `RpcExecution`: the run's wait for its own
activation among the user's, the cache of what was told before its id was known,
the abort with its timer and detach. A prompt that joins a turn takes its id. Of the
numbers of a record only those of `durationMs` decide anything: one that is too
long or not finite takes the earned budget back.

### GrokAcp, GrokTransport, GrokTranscript

`GrokAcp`: the stages of a run on a new session and of one that continues a
session, the lease, the abort signal at every stage, the clean-up with SIGTERM
and SIGKILL. `runFreshTuiGrokAcp` is left out. `GrokTransport`: prompts that take
turns, aborts, answers that come too late, disposal and the end of the process. An
abort sends its cancel, waits until that is written, arms the grace of whatever
prompt is in flight by then, and takes one more tick (`aborting`); an abort that
comes meanwhile joins it and does no more (`CancelJoins`), while the signal does not
wait. A transport begins when its start is over. `GrokTranscript`:
updates one by one, drafts, a message id that comes back, the user's messages with
ids and without, tool calls and their results, a load. The ids of the user's
messages are not those of the agent's: the code keeps both in one map
(`grok-acp-transcript.ts:271`), so one id for both would split a message. What a
chunk says is its number. Time stamps, usage, the
streaming message and active tools are left out.

### Diagnostics, EditHooks, Remote

`Diagnostics`: pending and delivered diagnostics per server and file; publish,
invalidate, drain within the caps, clean, reset. A server may publish about a text
older than the file. `EditHooks`: one file as the set of edits it holds and who
formatted it last; the hook of pi-format (its settings, the choice of a
formatter, the run), the hook of pi-lsp in either order of loading, the format
tool, `/format`, and the switches with the settings file. `Remote`: calls of
`connectSsh` between their awaits, switches of directory, uses, the session's
end; ssh is external.

## 3. The runs

| Run | Bounds | What it shows |
|---|---|---|
| `locks` | 3 claims of 3 instances, a reused pid, a faulty scan, 3 tickets; 3 lease calls and a watcher; 3 processes dying in takeovers or 2 dying anywhere | exclusion, the record names the holder, held tickets stay open, dead claims do not block; one owner, fail closed, no tail left; holder keeps the lock, no permanent busy; all three implement `ExclusiveUse`; calls end |
| `txlock_release_race` | 3 processes, deaths in a release | **violated**: two processes inside |
| `run` | 2 updates, 2 interruptions, 4 kinds of machine, 1 reader; 2 units parallel or fanned out with a fault or a resumption, 1 unit with 2 faults and a resumption; 2 writers of one content, 2 faults, 2 deaths or power losses; 3 actors in 2 processes, 1 failure, 1 death | durability, one decision per update, leftovers go; disk first, prompt once, the run ends; a recorded artifact reads; a run at work is not marked, an end is told after it is recorded, a left run is marked |
| `run_unit_end` | 2 units, no fault | **violated**: a running unit is merged over its end |
| `run_marked` | 3 actors, no failure | **violated**: an ended run is marked interrupted |
| `workflow` | one isolated task, two parallel tasks, a chain with a fanout of 2; a pool of 2, 2 lives, 1 fault | current answers in order, a fanout is bound once, nothing runs after the end, completed work stays, worktrees on record exist and none with work is forgotten, a cancel ends |
| `workflow_forgotten` | one isolated task, 2 lives, late refusals | **violated**: the record loses a worktree with work |
| `host` | 2 calls, a limit of 1, 1 lost end; 2 connects, 2 directories, a move and a use; 3 watches, 2 diagnostics, caps 2, 3 and 1; 2 edits and a format call, or an edit and 2 turns of switches | told once and as recorded, no claim kept, shutdown drains; one live connection, none after the session; each diagnostic once, within the caps; no edit lost, the server has the text, a switch that is off is off |
| `remote_silent` | as above | **violated**: tools run locally after a failed connect |
| `interactive` | 2 calls; 9 plans: aborts, detaches, exits, retries, faults, stuck disposal, distrust, shutdown, Grok | one writer of a session, a prompt settles once and by its own turn, calls return, a cancel ends, shutdown leaves nothing unlocked |
| `endpoints` | 2 requests, 2 disposals, 2 records under way; records of up to 3 members and their mutilations; 3 activations of the user, a cache of 2; a run over ACP on both paths; 2 prompts; 4 updates, 2 message ids of the agent and 1 of the user, 1 tool | disposed means dead, every request settles, nothing after the exit; the verdict on a record is right; a run gets its own answer and leaves no turn; a lease covers its process; turns are apart and a turn that is to stop is told so; every chunk is said once |
| `lsp` | 2 edits and a death; an edit and a question with a toggle or a death; an edit and 3 deaths; an edit, 2 toggles and a death; 1 restart, 1 retry | one process, bounded spawns, bookkeeping and content right; calls end, or wait for what a living server owes them |

*The properties.* A run checks what a module promises as a whole: `ClaimsSafe`,
`LockSafe`, `LeaseSafe`, `TxSafe`, `RecordKept`, `RecoverySafe`, `ArtifactsSafe`,
`ServerSafe`, `ContentSafe`, `EndpointSafe`, `AnswersRight`, `TreesOnRecord`,
`EndIsTold`, `JobsKept`, `RemoteSafe`, `DiagnosticsSafe`, `HooksSafe`, `RpcSafe`,
`RecordsSafe`, `ExecSafe`, `AcpSafe`, `TransportSafe` and `TranscriptSafe` are
conjunctions of the named invariants of their module, each stated and commented
there, the type invariant among them. `LocksServe`, `RunSettles`, `HostSettles`,
`CallsSettle` and `EndpointsSettle` are the liveness of the parts of a run;
`TxDecides`, `WorkStands`, `SettledByItsOwn` and `EndpointsStand` what steps may not
do. Each named conjunct has a mutant of the code that breaks it.

*Why the bounds suffice.* The races of claims and lock need a holder, a dead or
slow actor and a third party that acts on what it saw: three processes. Two
interruptions let a recovery be interrupted itself, and two updates let a
marker meet a record from before its transaction. Three lease calls put two
waiters behind a release. Two units are one whose end is written and another
whose write overtakes it; the third unit of a wider run only repeats the second.
Two processes and three actors are an owner that dies, a session start and a
resumption between them. Two lives of a workflow are a run and its resumption,
whose record is what a third would read. One job more than the limit shows the
limit; two connects overlap in every way two can. A cache of two is full with
three foreign activations, and the budgets of the record parser (20, 60, 2, 3) are
small so that a token crosses each. The counters of a language server saturate
at one restart and one retry, and three deaths exceed what they allow; edits,
questions and deaths come in pairs since each flag that a property excludes
(below) needs two actors. The plans of `interactive` combine what races in the
code's comments: an abort with a start-up, a disposal that sticks with a
shutdown, a retry with a turn of the user's.

*Deadlock* is not checked where a system stops by itself: calls happen once,
runs end and processes die. The liveness properties say what must come first.

*Fairness.* Always weak, and of what the runtime drives: a call that has begun
goes on, the store serves its queue, a lane or a worker continues when its await
is over, a session's process ends and its lease is released (`SessionLease`), a
locked load is made now and then and interruptions are finite (`StrictTx`:
`LeftoversGo`, on machines where no call fails), the steps of a language server's
start-up and stop, its process's events and the time-outs of start-up, stop and
diagnostics (`Progress`), armed timers fire (`TimesOut`, `Kill`, `HardBound`,
`GraceEnds`, `TimerFires`), what a child wrote is read and its pipes close, a cancel
for Grok is written or its pipe breaks (`CancelWritten`), an aborted run ends
(`Background`), a formatter finishes, the closing of a
connection takes effect (`Remote`). Where what goes on at once does not compete, one
weak fairness stands for all of it: `RunsGoOn`, `RemoteGoesOn`, `HooksGoOn`; each call of
`RunRecovery` has its own. Nothing is assumed of crashes, users, what a
child says, timers that may not be armed, or of calls that are not made. In
`TxLock` a deadline is what ends a wait, and it may expire only while the wait has a
reason. A language server that lives need not answer and need not read: `CallsEnd`
says that a call ends or waits for what such a server owes it (`Owed`), so that it
ends when that server exits and its exit is acted on.

*Properties with a window.* Some hold only outside a window that the code leaves
open; the model records that the window was entered instead of hiding it, and the
property names it. `HolderKeepsLock` and `ReleaseSucceeds` speak of lock
directories in which nobody died half-way (`Undisturbed`); `Durable` of machines
where unlinks do not fail; `ReferenceReads` of paths that are not `unsynced`.
`LanguageServer` keeps `overlap` (a start during a stop), `lost` (a didOpen
counted after its server went), `doubled` (two openings), `raced` (two edits
synchronized at once, or content read before a new start) and `unheard` (the
processes whose exit nobody acts on, which `Forsaken` names). The others are `kept` (`RunRecovery`), `late`
(`Background`), `exposed` and `raced` (`EditHooks`), `passed` (`Diagnostics`),
`early` (`RpcTransport`), `evicted` and `unrecorded` (`RpcExecution`), `stuck`,
`mixed`, `joined` and `strays` (`GrokTransport`); section 4 says what each is.

## 4. Where the code does something else than it says

With a run that shows it:

* `txlock_release_race` (`run-store.ts:2901`). An owner dies after linking
  `release.intent`. Two contenders both validate it; one finishes the release,
  publishes its own lock and enters; the other's rename, which names the lock by
  path, moves that lock away. Two processes are inside.
* `run_unit_end` (`run-coordinator.ts:1495`). The end of a unit is written
  outside the queue of durable writes; another unit's start or a flush whose
  timer has fired merges the unit, still running in memory, over it.
* `run_marked` (`index.ts:238`). The session start decides on the status that the
  listing read; a run that was completed in the meantime by a process that then
  died becomes interrupted.
* `workflow_forgotten` (`tool.ts:2317`). A resumed unit with a stored worktree that
  is refused before the worktree is opened loses the path from its record.
* `remote_silent` (`pi-remote/src/index.ts:850`). After a failed first connect the
  tools stay local, though the README promises an error.

Met while modelling, without a run of their own:

* *Run store.* A contender that dies between the last two unlinks of a takeover
  leaves a state `recoverDeadStealIntent` does not recognise
  (`run-store.ts:2816`): busy for ever. The delayed recoverer unlinks `owner.json`
  by name (2796); a dead owner's `release.intent` makes a later owner's release
  fail (2865). A committed marker that cannot be unlinked is answered with ok
  (3843); an ordinary update then overwrites run.json under it, and every later
  load is `corrupt_run`. The lock-free load probes before and after it reads
  (4919); an update rolled back in between leaves no trace.
* *Coordinator.* After a crash a unit whose end was logged as failed can read as
  completed, and the clone `finishUnit` writes can drop a session path whose write
  was uncertain (`run-coordinator.ts:1441`); a failing delivery record is an
  unhandled rejection (`execution.ts:461`).
* *A run's life.* The creator does not look at the record again after its claim:
  another session may have resumed and completed the queued run. A run whose
  creator died before the claim has none and is never marked. A release and an
  abandon that both fail keep the claim until the process exits.
* *Artifacts.* A file that exists is taken without the directory fsyncs its writer
  may have failed to make (`artifact-store.ts:338`): a retry after a failed fsync
  gets a reference that a power loss makes dangling.
* *Workflow.* A child that ignores SIGTERM hangs the abort: `proc.killed` is true
  at once, so SIGKILL never follows (`execution.ts:439`). A unit refused before
  its session exists is failed without one, and blocks the resumption; so does a
  clean tree removed before an end that was not written (`RecordedTreesExist`
  exempts it). A user's abort of a background run is finalised as interrupted
  (`background.ts:270`), though `tool.ts:1455` classifies it as the user's. A
  foreground chain that ends before its fanout was expanded, once its details were
  saved, cannot be resumed: its step is on record as not completed and has no
  mapping (`resume.ts:86`, `Mapped`), though `explanation.md:355` resumes whatever
  has a unit that is not completed. A background chain, which saves none, can.
* *Background.* The result of a foreground call is stamped from the signal after
  the end was recorded (`tool.ts:1512`). When finalize rejects, nobody is told
  (`background.ts:315`). `cancelAll` between the record and the notice says
  cancelled of a completed run. A job launched after `cancelAll` is never aborted
  and can hang the shutdown (`late`).
* *Interactive agent.* `activate` assigns the activation (4900) and then awaits the
  disposal barrier and the lease (4921); a rejection there leaves it open, although
  the comment at 4848 excludes that. Distrust during the spawn barrier is
  overwritten with "starting". A prompt whose answer is lost while its turn goes
  on retries into the next activation (comment at 163); so the passing run does
  not combine faults with retries. A message sent after that, or right after an
  abort, steers a turn whose start the endpoint never sees.
* *pi RPC.* A disposal between exit and close clears the listeners, so the exit
  reaches nobody (`early`), although the comment at 372 says it is delivered. After
  a failed disposal requests can only time out. A late answer is delivered as an
  event. A child killed with a cut-off record fails its disposal for good although
  it is dead. The projector keeps a huge key or number whole up to the larger
  budget. "drop oldest foreign entry" (`pi-rpc-execution.ts:535`) may drop our
  own, and the run never returns unless aborted (`evicted`); a rejecting
  `onSessionPromptEstablished` fails the run while its turn goes on (`unrecorded`);
  an abort after our turn has settled cancels the user's.
* *Grok.* The code adds a tool call to whatever draft is open
  (`grok-acp-transcript.ts:642`), so a call announced in one message can be part of
  a later one too, though the plan of 2026-07-15 (line 230) merges by `toolCallId`. The wait for
  the lease does not look at the abort signal. A disposal fails although the process
  is dead when a grandchild holds its pipes. A prompt after an abort announces a start that
  never settles (`stuck`). Updates of a turn left to its grace are shown in the
  next (`mixed`). An abort that comes while another is under way returns the promise
  of that one (`grok-acp-interactive-transport.ts:359`): if a new prompt began
  meanwhile, Grok is not told to stop it and, in the last tick, no grace is armed:
  nothing in the transport ends it before its hour (`joined`). The grace is armed
  when the cancel is written (`grok-acp-client.ts:893`), for the prompt that is in
  flight by then: a prompt that nobody aborted can be given up (`strays`). A crash
  while idle is told to nobody.
* *Language servers.* A start during `stopping` is not refused (`overlap`): the
  stop's end marks the new server stopped and its process stays. Shutdown skips a
  server that is starting. An exit with code 0 or by a signal, or
  during the stop of another process, is not acted on and leaves pending requests
  unanswered (`unheard`). A question of the lsp tool has no time-out and ignores the
  abort signal (`client.ts:363`, `instance.ts:420`): a server that hangs holds the
  call for as long as it lives (`Owed`). The queues of handlers are emptied by the first
  connection (`client.ts:318`), so a restarted server has no handler for
  diagnostics. Two edits synchronized at once land in the order their reads end.
* *Diagnostics.* A publication about the old text after an invalidation is
  delivered (`passed`). A diagnostic cut by a cap returns only if it is published again; one
  that went and came back without a clean publication between is hidden.
* *Edits.* The format tool does not take the mutation queue: an edit made while it
  holds an older text is lost (`exposed`), and the server is not told. If pi-lsp is
  loaded first the server keeps the unformatted text. Switches turned quickly lose
  one; a torn settings file counts as absent.
* *Remote.* Two overlapping connects leak a connection or put back a closed one;
  a connect under way at the session's end leaks.

## 5. The proofs

Each theorem is about every value of the constants that the module's named
assumption allows, where a run looks at one instance. A proof module states an
inductive invariant, proves `Init => Inv` and `Inv /\ [Next]_vars => Inv'` with one
step per action, and derives the properties. The assumptions only say what the
constants are (finite sets of calls, limits in `Nat`, markers that are no
members), but for the two that are named below, which are about the machine.
What the runs check as a whole (section 3) is what is proved as a whole: the
theorem about a conjunction follows from the theorems about its parts.

* `LocksProofs`: `RunClaims`, `SessionLease` and `TxLock`, each with the
  refinement of `ExclusiveUse` (`ClaimsRefine`, `LeaseRefines`, `LockRefines`).
  *Claims* (`ClaimsAreSafe`). Exclusion alone is not inductive: what carries it is
  that published tickets have no gap, that a live claim's ticket stays open from
  publication to end, and that a scan leaves only terminated tickets behind. Two
  granted claims would have two open tickets, one below the other.
  *Lease* (`LeaseIsSafe`). The calls under way form a queue, a sequence whose
  existence is the invariant; its first call alone looks at the store.
  *Lock* (`LockIsSafe`). Assumes `NoDeathInside`: no process dies while its intent
  is in the lock directory; `txlock_release_race` shows that without it the theorem is
  false. The invariant says what the files of the directory mean at each step of the
  one process that changes it, and that a directory, once it has lost the fixed
  name, never has it again.
* `StoreProofs`: `StrictTx`, `Artifacts` and `RunRecovery`.
  *Updates* (`TxIsSafe`, `TxIsDecided`). Assumes `AllJournaled`: the file system
  keeps the order of directory changes and no unlink fails. The invariant says what
  the three files are at each step, and that every directory the disk may still
  hold agrees with what callers were told. `TxDecides`, decisions that stand and the
  load without the lock, are read off the steps.
  *Artifacts* (`ArtifactsAreSafe`). A file is renamed only when it is whole and flushed
  (`WholeOnly`, `SeenFile`); a writer that has passed a directory has it durable
  (`SyncedBelow`); what is on record is durable (`RecordedDurable`); an error needs a
  fault before it (`FaultedFirst`).
  *Recovery* (`RecoveryIsSafe`, `ToldIsRecorded`, `ReopenedOnlyForTask`). The invariant
  says who the owner of the open claim is at each step of each job (`Owned`,
  `HasRun`), and that an orphaned claim has no owner beside it: what a job read
  before its claim is not in it, what it does after rests on the claim alone.
* `RunCoordinatorProofs` (`RecordIsKept`, `PromptedOnce`). Disk and memory are two records
  that lanes, a timer and barriers write to each other. The invariant relates each
  unit on disk to the same unit in memory by where its lane is (`HistoryKept`,
  `OnDiskKept`, `InMemoryKept`), and ties the lanes to the two queues: a lane has at most
  one awaited write there, exactly while it says that it waits. The end of a unit
  bypasses the queue of durable writes, so what it carries has to go with whatever
  was written since (`EndKept`).
* `EndpointProofs`: the connections to agent processes.
  *GrokTransport* (`TransportIsSafe`, `QuietOnceDisposed`): of two turns one at most is in
  flight or holds the chain (`OneTurn`), what a turn was told goes with where it is
  (`ToldInOrder`), a cancel that counts as sent has reached the turn in flight
  (`SentWork`). So a turn that is to stop has its own cancel unless its aborts all
  joined one under way, and none is given up but one that was to stop or got the
  grace of another's abort. *RpcTransport* (`RpcIsSafe`, `SilentOnceExited`): an answer is under way once, whoever
  lost the listeners disposed of the child, and what a disposal says is what became
  of it (`UnderWayOnce`, `ExitTold`, `DisposalTold`). *GrokAcp* (`AcpIsSafe`): the stage of a
  run says what process and lease it has, and only the answer of a prompt leads to a
  delivery (`LeaseHeld`, `ProcessThere`, `DeliveryDue`). *RpcExecution* (`ExecIsSafe`): ours
  lives until its end and once, what is cached of its end is its end, and what it
  says follows the base (`OursLives`, `OursCached`, `OursIsFirst`). The proof found that
  two guards of a `CASE` in the model overlapped. *GrokTranscript* (`TranscriptIsSafe`,
  `HistoryOnlyGrows`, `LoadsEnd`): the messages lag behind the drafts, so the invariant
  is about what is shown at a place, the message or the draft that continues it, or
  the draft that has no place yet (`At`). An update adds at the end of one place; to
  close a draft or to reopen a message changes what is shown nowhere. From this every
  chunk has one place, in its order (`Chunked`); a call has a result once it was told and
  then one (`Resulted`), which is up to date (`Exact`) and behind what calls (`Called`). Each
  operation is a lemma that takes a view in order to a view in order (`Whole`), and the
  invariant follows update by update, for any number of updates, messages and calls.
* `HostProofs`: what lives as long as the host.
  *Background* (`EndsAreTold`, `JobsAreKept`): what was told, what is on record and where
  a call is agree at each step, whatever `cancelAll` did in between (`Telling`,
  `Finalizing`, `Verdicts`, `Recording`, `Draining`); the limit is held by counting.
  *Remote* (`RemoteIsSafe`): while no two connects have overlapped, the connection
  that a connect is to replace is the one in use (`OneByOne`). *EditHooks*
  (`HooksAreSafe`): who changes the file is first in its queue and so has all earlier
  edits; one text at most is on its way to the server. *Diagnostics*
  (`DiagnosticsAreSafe`): inductive as stated; that the caps leave the worst rests on
  the choice of a least number.
* `WorkflowProofs` (`AnswersStay`, `StandsStay`, `TreesStay`). What the call counts as
  completed is so on record (`Ordered`), a unit that may still be taken is not
  (`Offered`), and while no completed run was opened again every output that is
  kept, in memory or in the details on disk, is what the record has (`Valued`); once
  one was, every unit has been told its task already, so no first prompt is left
  that could be stale (`Told`). The proof found a guard that the model lacked,
  `Mapped`: a fanout without a mapping could count as completed.
  `StandsStay` reads the two action properties off the steps. `TreesStay` has one
  hypothesis, `LateRejections = FALSE`; `workflow_forgotten` shows that it is needed.
  It rests on who made a worktree: one that this life made may be removed until it
  is on record, one that an earlier life made never is (`TreeOf`), which holds since
  every path on record of a unit not yet begun is of an earlier life (`Begins`).
* `InteractiveAgentProofs` (`EndpointStaysSafe`, `ActivationSettlesOnce`). One writer of the
  session is not inductive: what carries it is that whatever may write claims the
  session, one process claims it, and a claim holds the lease or the lease is stuck
  for good (`Leased`); that a child that runs is the client's or that of the start-up
  under way (`Stepwise`, `Installed`); and what the shutdown has taken away (`Drained`).
  The open activation is the newest and has not ended (`Once`). The outbound queue
  holds the activations in the order they were made (`Queued`, `Outgoing`), so the
  poison of one is enough: a later activation resets it when no message of the
  failed one is left (`Poisoned`). Most handlers only drop transports, settle the
  open activation and add no task of a call (`Handles`): one lemma is about them all.
* `LanguageServerProofs` (`ServerIsSafe`, `ContentIsSafe`). `Staged` and `Alone` say where
  the start and the stops are, so that no process is alive when the next is
  spawned (`OneAlive`); each spawn is paid for by an attempt or a crash (`Counted`).
  The content rests on what the calls hold: while a call holds a text that is
  older than the file, the edit that made it so is under way (`Corrected`), and
  while the server has an older text, an edit is under way that will send the new
  one (`Fresh`). The proof found the boundary at `maxRestarts = 0`, where a start is
  still attempted once (`Attempts`).

*Only model-checked.* Liveness, since the prover has neither fairness nor `ENABLED`:
`LocksServe`, `RunSettles`, `CallsEnd`, `CallsSettle`, `CancelEnds`, `HostSettles`,
`EndpointsSettle`, with `NoTailLeft` and `LeftoversGo` among their parts. Of
`SettledByItsOwn` one half, `SettlesOnce`, is proved; the other, that an activation ends
well only by the turn it was begun for (`EndsItsOwn`), is not true for every plan: with
failing prompts that are retried it fails (section 4), so it rests on the run's plan.
The four action properties that `EndpointsStand` merges are proved one by one, each for
its own module (`SilentOnceExited`, `QuietOnceDisposed`, `HistoryOnlyGrows`, `LoadsEnd`).
`RecordProjector` is a parser: what its recursive reference yields for every record
needs an induction over data, which is beyond the installed provers, so
`RecordsSafe` compares the two on the records of the run.

## 6. What is not modelled

* *Text and layout*: rendering, the interactive view, prompts, menus, templates.
* *Functions of one value*: bounds and copies of results, structured output,
  path, mode and link checks of single files, escapes and UTF-8 of records.
* *Configuration read once*: agent discovery, formatter and server recipes.
* *Parts of modelled components*: the event log's file, the relay and leaving the
  branch (interactive), `runFreshTuiGrokAcp`, several servers per file, checks of
  identities at a resumption. PROJECT.json names them with each component.

## 7. The plan

1. `EndsItsOwn` of `InteractiveAgent` by proof, under the hypothesis that no prompt whose
   answer is lost is retried.
2. `runFreshTuiGrokAcp`: the ownership that passes from a run to the agent view.
3. The event log: its appends, and readers in other processes.

