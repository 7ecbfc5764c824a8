# RunGPU agent: TLA+ models and proofs

The RunGPU agent turns a machine with GPUs into a worker of a pool. A coordinator
sends assignments over a WebSocket; the agent runs each one in a container or in
the local Ollama server, reports a result until the coordinator accepts it, and
must be able to promise, for billing and for placing the job elsewhere, that an
attempt is stopped. Everything hard in it follows from that promise: it must hold
across goroutines, failed writes, unreachable container engines, and the death of
the agent's process.

This directory holds the TLA+ modules that model the agent, the TLC
configurations that check them, and proofs checked by TLAPS. `PROJECT.json`
indexes components, runs, mutants, hazards, theorems, and which lines of the
source each definition stands for.

## 1. Inventory

### Parts, their state and their operations

| Part | State | Operations | Correct when |
|---|---|---|---|
| Attempt journal (`internal/job/journal.go`, `backend_identity.go`) | one record per attempt in memory and in a file; a catalog file; `recovered`; `fault` | `Admit`, `Running`, `AssignDockerDaemon`, `Complete`, `RememberCancellation`, `RememberResult`, `RememberLegacyResult`, `BlockReplay`, `Accept`, `recoverUnstarted`, `Close`, `openAttemptJournal` | an attempt is admitted once; a cancellation is never lost; whatever fails, the next process can open the files |
| Journal root, locks, durable replacement (`journal_root.go`, `journal_lock_*.go`, `internal/durablefs`) | owner identity file, `.journal.lock`, `.machine.lock` | create, adopt, lock, replace | one process per journal; a file is replaced as a whole or not at all |
| Executor (`internal/job/executor.go`) | `executions` by job, each with its flags and its GPU reservation; `workspaces` | `Start`, the goroutine of an execution, `cancelContext`, `ForgetExecution`, `StopAll` | work begins at most once; a stop is only promised when it happened; the GPU is reserved as long as somebody may work |
| Restart recovery (`internal/job/recovery.go`) | the records it has not looked at yet | `restoreJournal` | every record is settled, provably unstarted, or tracked again |
| Machine lease (`recovery.go`, `journal.go`, `client.go`) | an RWMutex and a flag shared by the GPUs of one machine, a file lock | `restoreLease`, `MachineRecoveryBlocked`, maintenance gates | no new work on any GPU while an attempt of the machine is unaccounted for |
| Pool client (`internal/pool/client.go`) | cancellation tombstones, deferred assignments, settled attempts, the job slot | `dispatch`, `cancelJob`, `startAssignmentLocked`, `drainDeferredAssignmentsLocked`, `runJob`, `clientWithExecutor` | a cancelled attempt is never started; a deferred one is started or answered |
| Result outbox (`internal/pool/result_outbox.go`) | pending results in memory and in files | `queueResult`, `queueAttemptRejection`, `sendPendingResults`, acknowledgement | every result is delivered at least once, none is rewritten |
| Session (`client.go`) | the connection, `sendCh`, the outbox channel, registration, heartbeats, earning window, the cleanup goroutine | dial, register, read, write, answer a cleanup, reconnect | no result and nothing of the outbox goes out before the registration is answered; a loss is noticed, a stop ends the client, closing hours disconnect, a cleanup is answered |
| Earning schedule (`internal/config/schedule.go`, the schedule commands of `main.go` and `gui.go`) | the saved windows | `EvaluateEarning`, `NextTransition`, `Normalize`, the commands that edit it | the agent earns in exactly the hours the owner asked for, and the label it shows comes true |
| Configuration and enrollment (`internal/config/config.go`, `main.go`, `recovery_startup.go`) | the configuration file, the installation proof, the pinned journal identity, the enrollment lock | load, save, `updateSavedConfig`, enroll, unenroll, the steps of a start, cleanup of files | no update is lost; a token can be retried; no attempt is admitted before its journal is pinned |
| Asset pipeline and cleanup (`pipeline.go`, `cleanup.go`) | cached files, partial files, staging directories, download locks | download, stage, prune, the pool's cleanup | a running job keeps its files; one download per file |
| Runtimes (`runtime*.go`) | the container or generation outside the agent | `Run` of ollama, docker-custom, comfyui-batch, workspace | a return says truthfully what it left behind |
| Container ownership (`internal/dockermgr`, `cleanup.go`, `main.go`) | containers by label, markers of images and models | create, remove with verification, the cleanup of the pool and of the owner | a removal reports success only when nothing is left, and removes nothing of the user's |
| GUI (`gui.go`) and the agent's processes (`main.go`) | the flags of the controller, the agent's cancel function, the process lock | start, stop, panel actions, exit, status | a stop is never lost; one agent per machine |
| GPU monitor, security policy, command line | none of their own | | |

### How the parts interact

* The pool client's reader calls `dispatch`, which starts an execution, defers
  the assignment, cancels, or acknowledges a result. `Start` spawns the
  goroutine of the execution; every cancellation runs in a goroutine of its own.
* An execution calls the journal before each step it cannot take back: `Admit`
  before the GPU is reserved, `Running` before the runtime is entered,
  `AssignDockerDaemon` before a container can exist, `Complete` after the runtime
  returned and its containers are removed.
* The execution hands its result to the outbox by callback; the outbox asks the
  journal whether it may be sent (`replayBlocked`) and tells it when it was
  accepted (`Accept`), upon which the client asks the executor to forget the
  execution.
* At a start, `restoreJournal` reads the journal before anything else and puts
  back into `executions` whatever may still be working. Before it, the start has
  pinned the journal root in the configuration and opened and registered one
  journal per GPU; after it, journals of GPUs that are not served any more are
  looked through as well.
* The reader of a session also receives the pool's request to clean up, which runs
  under the maintenance gate: the lock that an attempt holds from its start to its
  verified end.
* The session reads the saved configuration to see whether the machine earns now.
  Commands, the app and the agent share that file and the lock of the process.

### What is hard

* *Interleavings*: an execution, several cancellations of the same attempt
  (attempt-scoped, job-scoped, `StopAll`), the acknowledgement of its result and
  its retry under another token, each releasing `Executor.mu` between steps and
  reading state again afterwards.
* *Crashes* between two file replacements, between a durable step and the effect
  it announces, and while recovery itself runs. Containers outlive the agent.
* *Partial failures*: a removal that cannot be verified, a write that fails
  after the file was replaced, an engine that does not answer.
* *Promises*: what was said to the coordinator cannot be unsaid.

The `hazards` list of `PROJECT.json` gives each of these at its line, with the
properties that would catch it going wrong.

## 2. Modules

```
AttemptLifecycle        what the coordinator may rely on
      ^  implements (refinement mapping Executor!Promises)
Executor                one GPU: executor.go, recovery.go
      |  EXTENDS, calls its operations
AttemptJournal          journal.go, backend_identity.go
      |  EXTENDS, calls its operations
ResultOutbox            result_outbox.go
      |  EXTENDS, calls its operations
PoolClient              client.go: dispatch, cancellation, drain, start

Session                 client.go: the goroutines of a connection

Schedule                schedule.go and the commands that edit it  \
ConfigStore             the saved configuration and its writers     > MCOwner
GuiController           the processes that run an agent            /

MachineLease            locks of several GPUs and agents           \
JournalRoot             the directory of the journals               \ MCMachine
AssetCache              downloads, staging, pruning                 /
Containers              what is created and removed in docker      /
```

`Executor` looks closely at how an attempt runs and treats the client as a source
of calls; `PoolClient` looks closely at what the client decides and treats an
execution as a source of outcomes. Both act on the same journal module, whose
record is what the two parts of the agent share.

The modules of `MCOwner` and `MCMachine` are independent of one another. One run
checks several of them by a variable `explored` that says which of them moves.
Nothing is lost by this: they have no variable in common and no property relates
two of them, so a property fails in their product exactly if it fails in the module
it is about. Where two of them meet in the code, each says which part of the other
it assumes: `AssetCache` assumes of the maintenance gate what `MachineLease`
shows, that a cleanup runs beside no attempt; `JournalRoot` leaves the records to
`AttemptJournal` and the lock of the process to `GuiController`.

### AttemptJournal

One TLA+ operator per operation, each a whole critical section under
`AttemptJournal.mu`. Every operation has a parameter `ok`, true when the Go
function returns nil, so that callers can be modelled on both outcomes.

| Variable | Code |
|---|---|
| `rec` | `AttemptJournal.records` |
| `disk` | the files `<attempt>.json` |
| `catalog` | `catalog.json` |
| `recovered` | `AttemptJournal.recovered` |
| `fault` | `AttemptJournal.fault != nil` |

`store` is `Written` or `Fenced`. `Fenced` covers every way `store` can return an
error: an invalid record (nothing written), a failure before the record file,
between the record file and the catalog, and after both were replaced; `fault` is
then set for good and memory keeps the old record. Since a crash in the middle of
`store` leaves the disk in one of these same states, a crash is a failed store
followed by `Reopen`. With `StoreMayFail = FALSE` only invalid records can fence.

Versions, GPU and owner identity, checksums and file modes are the same for all
records of an installation and are left out, as is the text of a result.

### Executor

Each action is one critical section under `Executor.mu`, one call of a runtime,
or one call of the container engine.

| Variable | Code |
|---|---|
| `mode`, `todo` | whether the process is down, in `restoreJournal`, or serving; the records left to look at |
| `exec` | `Executor.executions` |
| `st` | `cancelRequested`, `stopConfirmed`, `stopUnverified`, and `held` for `release != nil`, per execution |
| `runner`, `outcome` | where the goroutine started by `Start` is, and the result it holds |
| `workspaces` | `Executor.workspaces` |
| `canc` | per canceller: where in `cancelContext` it is and what it captured |
| `live` | whether the attempt's container or generation goes on outside the agent |
| `runs` | how often its work began |
| `promised`, `sent` | what was told to the coordinator |

`live`, `runs`, `promised` and `sent` are what the outside world knows: they
survive `Crash`. A container can end at any time by itself (`BackendEnds`);
removing it can fail or be unverifiable; a retry of a job is another attempt with
the same job and another token.

`dispatch` and the outbox appear only through their calls into the executor and
its journal (`Start`, `Defer`, `RememberCancel`, `RejectAttempt`, `SendResult`,
`AcknowledgeResult`). A cancellation may be asked at any time and for any attempt.

The refinement `Lifecycle` maps the detailed state to `AttemptLifecycle`: an
attempt has *begun* when its work ever ran, is *active* while it runs, and its
*verdict* is the result on disk once it is accepted.

### ResultOutbox

Operators, each one critical section under `Client.resultsMu`: `QueueResult`,
`QueueAttemptRejection`, `SendPending`, `AckResult`, `LoadPendingResults`, and
`Recover`, the part of `clientWithExecutor` that merges one journal record with
what the directory held. `results` is `Client.results`, `files` the directory; a
key is a job or an attempt (`attemptResultKey`). `OutboxMayFail` lets every write
and removal in the directory fail; the code goes on after a failed write
(`durable = false`) and tries again when it sends.

### PoolClient

| Variable | Code |
|---|---|
| `mode`, `todo` | which stage of a start the process is in (`restoreJournal`, the adoption of legacy results, the loop over the records, serving) and what that stage has left |
| `lock` | what the holder of `assignmentsMu` still has to do, for the two handlers that write the journal more than once |
| `tombstones`, `fenced` | `cancellationTombstones`, `cancellationAdmissionFenced` |
| `deferred` | `deferredAssignments` |
| `active` | `activeAssignment`, `activeDispatchToken` and `jobSlot`, which change together under `assignmentsMu` |
| `cancelling` | `Client.cancelling`, with the progress of the goroutine behind each entry |
| `run` | per attempt: whether the executor tracks it, how far its goroutine is, whether it reserves the GPU, whether a cancellation was asked of it |
| `answers`, `promised` | what the coordinator has received |

`dispatch` of an assignment is split by its early returns: `DispatchCancelled`,
`DispatchFenced`, `DispatchSecondRetry`, `DispatchUnwantedRetry`, `DispatchRetry`,
`DispatchNew`; an assignment that falls through all of them changes nothing. An
assignment may be invalid, and the machine may be busy with another GPU: a
refusal is therefore always among the outcomes. `cancelJob` is `CancelAttempt`
or `CancelJob` under the lock, `RejectDeferred` if it took an assignment out of
the queue, and then the goroutine: `CancelAsks`, `CancelStops` or `CancelFails`,
`CancelReturns`. The drain at the end of a handler is `DrainOne`, repeated, and
`DrainEnds`, both under the lock of the handler.

The coordinator is not modelled as a process: any assignment and any cancellation
may arrive at any time and any number of times, and an acknowledgement at any
time after a result of the attempt was received. This covers lost, repeated,
delayed and reordered messages.

`settledAttempts` is left out: an attempt is put there when the journal has
accepted its result, and `dispatch` looks into the journal first.

### Session

| Variable | Code |
|---|---|
| `phase` | where `Run` is (`waitUntilEarning`, dialling, backoff) or the reader in it (reading, sending an answer, closing) |
| `watched`, `cancelled`, `stop` | the contexts of the session, of the connection and of the agent |
| `conn`, `inbox` | the WebSocket and what it has received |
| `registered`, `connected` | the closed channel, and the flag shown to the user |
| `writer` | where the writer's loop is, and the kind of frame it holds |
| `sendCh`, `beats`, `outbox` | how much is in the two channels |
| `cleaner` | the goroutine of `asset_cleanup`, with the machine's gate |

Every goroutine of `serveConnection` is there: the reader (which is `Run` itself),
the writer, the heartbeats, `watchEarning`, the goroutine that closes the
connection when a context ends, and the cleanup. The writer's `select` is a choice
between everything that is ready, the end of its context included. A frame that
could not be written goes back to the outbox (`PutBack`) or is lost. Frames have
no content but their kind; `early` remembers that one was written before the
registration was answered.

### MachineLease

| Variable | Code |
|---|---|
| `lease` | per agent and GPU, the mode in which `restoreLease` or `Start` took the RWMutex and the file lock |
| `attempt`, `entered` | the unresolved record in a GPU's journal, and whether it may have a backend |
| `owner`, `todo`, `up` | who has a journal open, and how far each agent's start is |
| `stale` | per agent, `restoredLeases` of attempts that another agent has settled since |
| `blocked` | `recoveryGates` |
| `maintenance` | a cleanup holds the lock of the process |
| `live` | what really runs on each GPU |

A lock remembers the mode it was taken in, not the attempt it was taken for:
another agent can settle an attempt whose lock this one took while looking at its
sibling's journal. This one then keeps its own until it ends: when it comes to the
journal again, as a sibling's or to serve it, the record is settled and passed over
(`recovery.go:123`). Only shared locks can be kept so, and all of an agent's have the
same effect, so `stale` is one flag. Unix and Windows have both modes of the file
lock; the other systems refuse it, and every job with it.

### JournalRoot

One action per file that is written or looked at: `PrepareRoot`, `PinRoot`, and per
GPU `MakeDirectory`, `WriteIdentity`, `WriteCatalog`, `MarkInitialized`,
`CheckRecords`, `Register`, then `Sibling` for each registered journal of a GPU that
is not served. `StartEnds` is a crash, an exit or a refusal at any of these;
`Loss` takes any file away between two starts, and the history `lost` says which.

### AssetCache

Each job goes through its files: look for the staged one, take the download lock,
look into the cache, touch, fetch, keep, link or copy, check. `sweep` is a cleanup
under the gate: `PruneBatchStaging`, `PruneCustomAssets` or the pool's
`ExecuteCleanup`, file by file. Content is `good`, `bad` or `none`; `Rot` damages a
cached file, `Crash` ends everything at any step and leaves partial files.

### Containers

The commands are those the code sends to docker, one action each, because the
daemon a command goes to is chosen when it is sent: `Inventory`, `Inspect`,
`RemoveFound`, a second inventory, `Verify`. `Prepare`, `Assign`, `CheckDaemon` and
`Run` are the way to a container. `PoolCleanup` removes what is marked;
`CleanupContainers`, `CleanupImages` and `CleanupOllama` are the owner's command in
its order. The user runs, renames and removes containers and may switch the context.

### ConfigStore

A command is two steps, the read and the write (`LoadToEdit`, `SaveEdit`), and an
enrollment five; the start of an agent is `AgentBegin`, `AgentLoad`,
`AgentSaveIdentity`, `AgentPrepare`, `AgentPin`. `Faults` says what may go wrong:
lost answers, saves that fail, crashes at any step, lost or restored journals.
`Overlap` lets a command begin while another is between its steps. `ApplyDefaults`
and `Written` are what a load and a save do to the fields; the price is among them
because they do not give it back unchanged.

### Schedule

Time is an hour of a week of `WeekDays` days of `HoursPerDay` hours. The functions of
`schedule.go` are operators (`NormalizeDays`, `WindowActive`, `NextTransition`, ...)
and the reference they are checked against is a set of hours: `HoursOf(w)` says
which hours a window means, without days that wrap and lists that are normalized.
The commands and the panel keep `hoursAsked` up to date.

### GuiController

Two processes run agents: the app (`"gui"`) and `start` on the command line. `agent`
is where `cmdStartWithClients` is in each; handlers of the window (`ApiStart`,
`ApiStop`, `RunAction`), pings, the exit of an idle app, an interrupt and the probe of
the status command are actions of their own.

## 3. Runs

| Run | Instance | Shows |
|---|---|---|
| `executor_retry` | one job, a workspace and its docker retry, 1 canceller, failing writes | the safety of the executor under crashes at every step, the refinement of `AttemptLifecycle`, and the two properties of the journal below it (`AlwaysOpenable`, `CancelledNeverStarts`) |
| `executor_jobs` | two jobs (workspace, Ollama), 1 canceller, reliable writes, `FairSpec` | one reservation of the GPU; legal calls never fence the journal; a started execution gets a durable result, a restart ends |
| `client_jobs` | two jobs, one without a token and with a legacy result; one tombstone; a failing directory | what was promised to be stopped does not run, and nothing blocks a job for ever, where admission gets fenced and the outbox cannot be written |
| `client_retries` | three attempts of one job, a failing journal | a second retry is rejected beside the first: answers are not contradicted and no result is lost |
| `client_progress` | a workspace and its docker retry, which is cancelled by name, `FairSpec` | a deferred retry can be started, is resolved, and results are delivered |
| `session` | `sendCh` of 2, outbox of 1, 2 cleanups, `FairSpec` | no outbox frame or result before the acknowledgement (heartbeats go out: `registration_test.go:326`); losses, stops and closing hours end the session, cleanups are answered |
| `owner` | a week of 3 days of 3 hours, up to 2 windows; commands that crash, lose answers and journals; the app and a command line agent with two workers | the hours that are open are those asked for and the label comes true; a token can be retried, no admission before the pin; one agent at a time |
| `machine` | three GPUs of two agents, 2 crashes; two GPUs' journals, 2 losses; two jobs that share a file, a crash and a rotten file; one attempt's container beside a user's, two daemons | Ollama alone and maintenance with nothing, unresolved attempts reserved; nothing forgotten; running jobs keep their files; a verified removal removed everything of the attempt and nothing of anybody else |
| `executor_overlap`, `client_resurrection`, `session_stuck`, `config_lost_pause` | see section 6 | four disagreements between the code and what the repository says of it |

### Further configurations

Not listed in `PROJECT.json`, and to be run by hand (`tlc -config X.cfg M`). These
hold:

| Configuration | Module | Checks |
|---|---|---|
| `OwnerMore` | `MCOwner` | as `owner`: `PauseIsKept` for commands one at a time, `OtherMachineIsKept`, `LostJournalIsRefused`, `OtherCommandsKeepHours`, `OutputIsSwappedOnce` |
| `GuiProgress` | `MCOwner` | `CancelEndsAgent`, `BusyClears` under the fairness of the app |
| `MachineMore` | `MCMachine` | as `machine`: `ReservedForAnAttempt`, `DownloadsOnce`, and `RemovesOnlyPulled` for the pool's cleanup alone |
| `AssetPrune`, `AssetProgress` | `MCMachine` | `PrunesLeastRecentlyUsed` with three files; `StagingEnds` |

The others each refute one property and belong to section 6: `ClientLegacy`
(`MCPoolClient`); `ConfigUnenroll`, `ConfigFree`, `ConfigCleanup`, `GuiStop`,
`GuiExit`, `GuiProbe`, `ScheduleAdd`, `ScheduleDays` (`MCOwner`); `RootSibling`,
`AssetStaging`, `BoxesSwitch`, `BoxesModels`, `BoxesAll`, `LeaseAgents` (`MCMachine`).

### Bounds

* Two attempts in the executor. Every property relates at most two attempts: an
  attempt and its retry, or two that compete for the GPU. Journal capacity 2, since
  no caller distinguishes a refusal for room from another; the safety of the journal
  is proved for every capacity (section 4).
* One canceller covers a cancellation against everything else. Two that overlap
  are in `executor_overlap`.
* `MaxRuns = 2` caps the counter `runs`. It is above the bound that
  `RunAtMostOnce` claims, so it hides no violation of it.
* The client's runs use two attempts for what an attempt and its retry, or two
  jobs, can do to each other, and three where a deferred retry meets another one.
  `MaxTombstones = 1` in `client_jobs` reaches the fence with the first
  cancellation; `MaxDeferred = 1` is never exceeded by one job, and a refusal for
  a full queue has the same effect as one for an invalid assignment, which is
  always possible. `CancelKeys` bounds which names are ever cancelled, not how
  often.
* In `session`, 2 cleanups and heartbeats cannot fill a `sendCh` of 2 for ever:
  the run is about a channel with room. That with a full one the liveness
  properties fail is `session_stuck` (`SendCap = 1`, 3 cleanups); the safety
  properties hold there too, as they do for all sizes (`Session_proofs`).
* In `owner`, the week is short. A window of the code is four comparisons of
  hours and a test of two adjacent weekdays, so three hours and three days have
  every order of start, end and now, and a day before, of, and after the window.
  The windows begin and end anywhere and lie on every day, the first or the last;
  two windows overlap, touch or leave a gap. One command runs at a time (two are
  in `config_lost_pause`), with two machines whose tokens get mixed up.
* In `machine`, three GPUs of two agents have both a sibling and a stranger; two
  crashes let each agent end once, or one end twice; two losses take an identity and a
  catalog, or the root and one of them; `MaxOwners = 3` lets each journal be created
  and one again. The cache holds one of two files that a job shares with another,
  so that every prune has something to do. Two containers exist at a time, and
  the context is switched once.
* Crashes, restarts and messages are not bounded in the executor's and the client's
  runs.

### Fairness

`Executor!FairSpec` assumes weak fairness of the steps of the goroutine of an
execution, of a canceller, and of `restoreJournal`. The code justifies it: Go
schedules runnable goroutines; staging, `Run` and the removal of containers are
called with a context that ends (the job's timeout, 30 s for a teardown, the timeout
of the wait in `cancelContext`). Nothing is assumed of the coordinator, of crashes
and restarts, or of what runs outside.

`PoolClient!FairSpec` adds strong fairness of the handlers that wait for
`assignmentsMu` (`JobEnds`, `AcknowledgeResult`, `CancelReturns`): a coordinator
that cancels again and again makes the lock busy again and again, and a Go mutex
hands itself to whoever has waited for a millisecond. `AcknowledgeResult` being
fair is an assumption about the coordinator, the only one: it acknowledges what it
receives. No assignment, cancellation or reconnection is ever owed, and both
properties are excused when the journal is fenced or the agent stops.

`Session!FairSpec`: weak fairness of the reader, the writer and the watch, strong
fairness of each branch of the writer's `select` and of a sender that waits for
room. Go chooses among ready branches at random and serves waiting senders in
order, so a branch that is ready again and again is taken. Nothing is assumed of the
network or the pool; a write to a dead connection ends because its deadline passes.

`CacheFairness` is strong for the download lock, which waiting jobs get in turn, and
weak for the steps of a download, which has a timeout. `GuiFairness` is weak for the
goroutines of the app, and assumes nothing of its user.

Deadlock is checked where the agent can always act or be restarted (executor and
client). The other runs switch it off: a session that was stopped, a machine whose
bounded crashes and losses are used up and an owner who has closed the app may
really stop.

## 4. Proofs

Eight modules hold the proofs: `AttemptJournal_proofs`, `Executor_proofs`,
`ExecutorPromises_proofs`, `PoolClient_proofs`, `MachineLease_proofs`,
`Machine_proofs`, `Owner_proofs` and `Session_proofs`. What they prove holds for
every set of attempts, jobs, cancellers, GPUs, agents, files and daemons, every
assignment of runtimes and tokens, every capacity and any number of crashes. They
assume the named assumptions on the constants and nothing else, except for five
hypotheses, each of which some behaviour of the code does not meet and each named
where it is used: `[][~StaleConfirm(Attempts)]_vars`, `[]OneAtATime`, `NoMixedJobs`,
`~Overlap`, `ContainersOnly`. Theorems that need one of the first two have an
unconditional half wherever there is one to be had. TLC checked the inductive invariants on small instances before
they were proved.

**The journal.** `JournalTypeCorrect` and `JournalAlwaysOpens`. `Openable` is not
inductive: a step derives the new disk from the record in *memory*, so memory and
disk must be related. The invariant is `JournalInv`: types, `Openable`, `InSync`
(a journal that is not fenced has on disk exactly what it has in memory, all of it
catalogued) and `AbsentIsFresh` (an attempt without a record has the empty one).
The one interesting case is `Fenced`: a *new* record that reaches the disk without
the catalog must be one `openAttemptJournal` accepts uncatalogued, so it is shown
that an operation that creates a record never creates one that is running, accepted
or verified as stopped.

**What a step may do to the file of an attempt.** `JournalKeepsCancelledOut`
(`CancelledNeverStarts`) and `JournalAdmitsOnce` (`NeverReadmitted`) are action
properties. Both follow from one statement about a single step, *lawful*: a
cancelled file stays cancelled and out of its runtime, and one that is no proof of
never having started never becomes one. `StoreIsLawful` reduces the question for a
store, which may fail after either file, to the record it was asked to write; each
operation is then lawful by its guard (`NextIsLawful`).

**The executor uses the journal only through its operations.**
`ExecutorUsesJournal` is `Spec => JournalSpec`: every step of the executor is one
journal step or leaves the journal alone. `ExecutorKeepsJournalOpenable` and half
of `ExecutorTypeCorrect` are then inherited instead of proved twice.

**Work begins at most once** (`ExecutorRunsAtMostOnce`). `runs[a] <= 1` says
nothing about why. The invariant `RunOnceInv` ties the counter to the journal: an
attempt whose work has begun, or whose goroutine has passed `Running`, is *spent*:
its record, in memory and on disk, is *barred*, i.e. can never satisfy `Admit`
again. `CallKeepsSpent` shows that every journal operation keeps a barred record
barred; the crash case needs `InSync`, because a restart reads what is on disk.

**The reservation, the records and what is written to them**
(`ExecutorPromises_proofs`). `ReservationInv` says of each attempt where its
goroutine, its flags and its record can be at once (`AttemptInv`), and of each
canceller that is past its join that the goroutine it joined is over. It is proved
together with `OneReservation` and `OneUnresolved`, because none of the three is
inductive without the others: a second attempt is admitted only when the GPU is
free, the GPU is held as long as the record is unresolved, and the record of a
finished goroutine is resolved only with a verified stop. Each operation of the
journal is reduced once to what it writes (`Wrote`, `WritesWell`): at most one
record, the same one on disk and in memory or on disk alone, and never with a
proof of a stop taken back. `AcceptedIsFinal` and `OnlyWritesFence` follow from
that in one step; `ToldInv`, that whatever was promised or sent is on disk, follows by
induction.

**Promises are kept** (`ExecutorKeepsPromises`, `ExecutorVerifiesStops`,
`ExecutorReservesForLive`, `ExecutorReplaysTheSettled`). That a promised attempt is not
live cannot be shown from promises alone. `LiveInv` goes the other way: from what
*goes on* outside the agent to the record (`Reported`: unresolved, and with no
result that may be sent but that of a running workspace), to the goroutine (`Going`:
it has started the work and something keeps it from vouching for the stop), and to
every canceller that has not confirmed yet (`Cancelling`: the flag
`cancelRequested` is set, so the goroutine leaves the proof to the canceller, and a
second removal has shown that nothing is live before it commits).

Each of these theorems has two halves. *Whatever cancellations overlap*, it holds of the
`Undisputed` attempts: those that are not workspaces, and those whose job is
dispatched once. Of *all* attempts it holds in every behaviour without a *stale
confirmation* (`StaleConfirm`), a step in which a canceller that confirms a stop
executes `delete(e.workspaces, jobID)` (`executor.go:577`) while the job's workspace is
another attempt. In the code such steps exist, and TLC finds how, and that the
statements for all attempts fail after one: two cancellations of attempt A overlap, A
is forgotten, its retry B runs a workspace, and the slower canceller clears the flag
that keeps B's goroutine from vouching for a stop. It is a second consequence of the
overlap in `executor_overlap`. `ExecutorConfirmsItsTarget` says that nothing else leads
there: while no two cancellations of a job are under way at once (`OneAtATime`),
the target of a cancellation that is not confirmed is still the tracked execution of
its job (`TargetsTracked`), so no confirmation is stale and the second halves apply.
`ExecutorCancelsItsTarget` (`CancelTouchesOnlyItsAttempt`) follows from the same
invariant and has no other half: `executor_overlap` refutes it for two attempts in
containers.

**The executor implements `AttemptLifecycle`** (`ExecutorImplementsLifecycle`). The
refinement maps the attempts whose work has begun, those that go on, those that
were promised to have stopped, and those whose accepted result is on disk. Every
step that changes one of them is matched with the action of the abstract
specification, whose guards `AllInv` and `RunOnceInv` supply; the others stutter
(`Effect`). It too has two halves: `UndisputedLifecycle` is the abstract specification of
the undisputed attempts alone, which every behaviour implements, and `Lifecycle` is that of
all attempts, for behaviours without a stale confirmation.

**The pool client** (`PoolClient_proofs`). All safety properties of the client are
conjuncts or consequences of one invariant, `ClientInv`, since its parts lean on
each other. Its groups: `Journals` (the journal's own invariant, and that files
know what memory knows); `Startup` (what a process that is not up yet has in
memory, in each phase of its start); `Slot` (at most one attempt between its start
and the end of `runJob`, and its job has no result and no deferred retry);
`Outbox` (each result is in the place of its job or of its attempt, and its record
explains it, but for results of an agent without a journal until they are adopted);
`Answered` (what was sent is what the record says); `Deferred` and `Rejecting` (a
deferred attempt was admitted, never started, and is cancelled by nobody; whoever
holds the lock to reject one has taken it out of the queue); `Entombing`, `Stops`
(a cancellation is in the journal before it is in memory; a stopped or promised
attempt is *barred*: cancelled, and not working, which no operation undoes);
`Awaited` (who will forget an execution that is over); and `Queued`. The journal
is used through one lemma per operation, which says that records only *grow*
(`Grows`: nothing loses its cancellation, its acceptance or its result) and which
record moves; the rest is one lemma `...KeepsInv` per action. `PromisesAreKept`,
`AnswersAgree`, `DeferredCanStart` and `NothingIsForgotten` hold without a
hypothesis. `ResultsAreQueued` assumes `NoMixedJobs`: the attempts of a job all have
tokens or none has. Without it the statement is false (`ClientLegacy`, section 6). A
cancellation that names only a job records it under an empty token, so a job that is
cancelled so has a `Tokenless` attempt (`ClientAssumption`), though it may never be
dispatched; under `NoMixedJobs` it is then a job without tokens.

**The leases of a machine.** `LeaseTypeCorrect`, `LeaseRunsAlone` (`RunsAlone`) and
`LeaseReservesUnresolved` (`UnresolvedIsReserved`). That a backend is alone follows
from nothing about backends; the invariant `LeaseInv` goes from the backend to the
record (`LiveIsEntered`), from the record to the lock (`HeldForTheAttempt`, as long as
the agent has the journal open, which `OwnersServe` says it has once it serves
jobs), and from the lock to exclusion (`Exclusive`: what is held in the mode of
Ollama is held by nobody else, on the whole machine). `Together` closes the argument
for records whose agent is *down*: two attempts of one agent that may both have a
backend are both containers, because this was so when the second was entered and
ends change nothing. The condition on other agents is `crashes = 0`
(`NoneAbandoned`); without it the statement is false (`LeaseAgents`, section 6).
`RecoverFacts` and `OverFacts` say once what a restoration and a verified end do to
each GPU, and the other lemmas take one action each.

`LeaseReservesNothingElse` (`ReservedForAnAttempt`) is the converse: only an unresolved
native attempt keeps an agent from taking containers, and only unresolved attempts keep
it from native work, apart from the shared locks it keeps for attempts another agent
has settled (`stale`, section 6). `BlockedByNative` adds to `LeaseInv` that behind the
flag of an agent there is a native attempt whose exclusive locks it holds; nobody else can
settle that one, since the file lock keeps every other agent from restoring it.

**Containers, files and journals of a machine** (`Machine_proofs`).
`BoxesRemovesOnlyItsOwn` and `BoxesVerifiedMeansGone` rest on `BoxesInv`: an ID is
given once (`IdsWereGiven`), so whoever acts on an ID it found earlier acts on the
container it found, even when the user has renamed or created others since
(`FoundIsOwn`); a removal only runs for an attempt that is over (`RemovedIsOver`).
`CacheKeepsRunningJobs`: by `CacheInv`, a job that stages has a copy of every file
before its position, and holds the lock of the file it works on while it looks into the
cache or downloads; a cleanup of the pool runs with no job in between (`SweepsAlone`).
`PoolRemovesOnlyPulled` (`RemovesOnlyPulled`) holds of an owner who cleans containers
only: every marker is of something the agent pulled.
`RootForgetsNothing` and `RootOpensItsOwn`: a journal that admitted an attempt is registered (`AdmittedIsRegistered`) under the pinned root
(`RootIsPinned`); a start opens one journal at a time in the order of the GPUs and
has seen what it opened before it works (`OpensOne`, `OpenedIsSeen`,
`OpensBeforeWork`); files that were not lost are whole in the order the code
writes them (`WholeUnlessLost`). The order of the GPUs needs the least of a set of
naturals, taken from the well-foundedness of `<`.

**The owner's processes and files** (`Owner_proofs`). `GuiRunsNoAgentBesideAnother`:
from its lock to its unlock a process is alone with the journals (`LockIsHeld`),
workers run only in their place and hold their journals (`WorkersInPlace`), and the
flags of the window tell what its process does (`FlagsTell`); `GuiSwapsOutputOnce`
follows from the last. `ConfigTokenCanBeRetried` and `ConfigRefusesLostJournal` need
only types. `ConfigPinnedBeforeAdmission` assumes `~Overlap`, as its run does: no
command of the owner is under way while the agent starts. A command that loaded
before the pin and saves after it takes the pin back, and TLC shows it.

**The schedule** (`Owner_proofs`), for days and weeks of any length.
`ScheduleOpensAsAsked`, `ScheduleLabelComesTrue` and `SchedulePauseKeepsHours` follow
from `ScheduleInv`: the hours the owner asked for are the hours that the saved windows
cover. The heart is `WindowHours`: what the clock comparisons of `WindowActive` select,
a window over midnight or over the end of the week included, are the hours that follow
the start of the window on each of its days (`HoursOf`). Hence a window that was split,
merged or written down again keeps its hours (`WindowsOfNormalized`, `SavedIsCovered`),
and the whole question is about sets of hours. For the label: the search over the horizon
finds the least hour at which the state changes, which exists because `<` on the naturals is
well-founded, and one hour later it is one hour nearer (`TransitionIsNearer`,
`LaterReaches`).

**The session** (`Session_proofs`). `SessionWaitsForTheAnswer` (`NothingBeforeAck`)
and two facts beside it, for channels of any size. The point is a goroutine that
outlives what it looked at: the writer may hold a frame it took earlier, so the
invariant says that a frame of the outbox is taken only in a registered session
(`TakenAfterAnswer`), and that no writer survives its session
(`WriterOfThisSession`).

## 5. What is only model-checked

* Liveness (`StartedGetsResult`, `RestoreCompletes`, `DeferredIsResolved`,
  `ResultsAreDelivered`, `LossIsNoticed`, `StopEnds`, `ClosedHoursDisconnect`,
  `CleanupIsAnswered`, `CancelEndsAgent`, `BusyClears`, `StagingEnds`): TLAPS has no
  way to reason about fairness here.
* What the hypotheses of section 4 exclude. What overlapping cancellations do to an
  attempt that is not undisputed is explored by `executor_overlap` alone.
* `PrunesLeastRecentlyUsed` compares sums of sizes, which are folds over the cached files:
  induction over data.

## 6. Disagreements between the code and its tests, comments and messages

### A slow cancellation stops the retry

`cancelContext` captures an execution under the lock (`executor.go:515`) and then
calls `removeContainers`, which looks the execution up *again* by its job
(`executor.go:475`). Two cancellations of attempt A may overlap: they have
different keys in `Client.cancelling` when one names the token and the other only
the job, `StopAll` has no key at all, and `TestVerifiedCancellationConcurrentRequests`
makes it legal. The run `executor_overlap` finds: both cancel A; the first
confirms the stop; A's result is acknowledged, A is forgotten, and its retry B
starts; the second then performs its second removal (`executor.go:572`), finds B
under the job, and removes B's container. `cancellation_test.go:123` calls it an
error when a cancellation that names another token touches containers.
The slower cancellation has to be the attempt-scoped one or `StopAll`: while a
job-scoped one is in progress, `assignmentCancelling` keeps the retry from being
started.

### An accepted result comes back

`clientWithExecutor` moves a rejection to the place of its job when that is free:
it deletes the one under the attempt's key from memory (`client.go:244`), not from
the directory, and queues the result again under the job's key (`client.go:251`).
The acknowledgement removes the new file. When the next session is registered,
`loadPendingResults` finds the old one, and a result the coordinator has accepted
is pending and sent again (`client_resurrection`). A later restart or a second
acknowledgement removes it. `restart_recovery_test.go:87` checks that an accepted
result is not "resurrected from a stale outbox file", for a result that was never
moved.

### A restart drops a result without a token

The same loop goes through the records in map order. When a job has a rejected
attempt with a token and a finished one without (a coordinator that began to use
tokens between the two), the rejection may come first and take the job's place;
the result without a token is then handed to `queueAttemptRejection`, which
ignores it. It stays in the journal but is sent by no one until a restart happens
to go through the records the other way round (`ClientLegacy`).
`deferred_assignment_test.go:299` calls losing the predecessor's result in the
recovery of the outbox an error.

### A full channel keeps a lost session

`dispatch` answers a refused cleanup with a blocking send on `sendCh`
(`client.go:772`, `1131`). The writer leaves at the first write that fails. If the
channel is full then, the reader waits for room that nobody makes, neither the read
error nor the end of the writer ends the session, and `serveConnection` returns only
when the reader does (`session_stuck`; `protocol_test.go:185` demands a reconnection:
"expected >= 2 connections, got %d"). The channel has 16 places in the code.

### The configuration

* *A pause is lost* (`config_lost_pause`). `updateSavedConfig` (`main.go:76`) loads,
  changes and saves without a lock: a command that loaded before the pause and saves
  after it writes the unpaused configuration back, though `main.go:97` has told the
  owner "Use resume to earn again".
* *A paused agent earns after unenrolling* (`ConfigUnenroll`). Until the agent has
  stopped, or if the request finds none, `earningNow` cannot load the file and falls
  back to the configuration of the agent's start (`client.go:112`), in which the pause
  is missing.
* *A free machine gets a price* (`ConfigFree`). The template of the saved file
  (`config.go:280`) has no `contribute_free`, so the next load applies the price of
  an ordinary machine; `config_test.go:110` wants "0 for free contribution".
* *The cache cleanup removes the journal* (`ConfigCleanup`, `main.go:1137`) and leaves
  its pin in the configuration, so that every later start is refused. `config.go:323`:
  "Keep this ID and journal together; do not reset or delete."

### The schedule

* *The first window added* (`ScheduleAdd`, `main.go:156`). A configuration that never
  had a schedule has start and end hour 0; `--add` normalizes these into a window
  0-0, the whole day, and appends the new one. The agent then earns at hours nobody
  asked for. The help (`main.go:134`): "add this window instead of replacing".
* *All seven days* (`ScheduleDays`, `schedule.go:274`). `normalizeDays` returns nil for
  a list of all days, which `ParseDaysFlag` takes as none recognised and refuses:
  "days must be weekday names such as mon,tue,sat" (`schedule.go:275`).

### The app

* *A stop is lost* (`GuiStop`, `gui.go:337`). `/api/stop` cancels a *registered* agent;
  `startAgent` marks it as running before its goroutine has registered the cancel
  function (`main.go:767-792`). `gui.html:79`: "Stop ends the process."
* *The app exits under a new agent* (`GuiExit`, `gui.go:99`): a start accepted between
  `shouldExit` and the exit. `gui.html:79`: "Keep this window open."
* *A probe refuses a start* (`GuiProbe`, `main.go:61`): `agentIsRunning` takes the
  lock to test it, and an agent that starts in that moment is told
  "another RunGPU agent is already running" (`agent_lock_unix.go:31`).

### The machine

* *A crash blocks every later start* (`RootSibling`, `recovery.go:88`). A crash after
  the directory of a GPU's journal was made and before its `identity.json` was written
  leaves an empty directory. `openAttemptJournal` would go on with it
  (`journal.go:216-226` refuses an "identity missing from nonempty journal"), but the
  look at siblings fails on it, at every start: when the GPU is not served any more, and
  also when it is served and comes after another, since the first GPU that is opened
  already looks through all other journals.
* *Ollama beside an abandoned container* (`LeaseAgents`, `executor.go:207`). With two
  agents on a machine, one that ends leaves its container running and its file lock
  free; the other may then start an Ollama job: "native Ollama requires all sibling
  GPUs idle".
* *Staging goes at once* (`AssetStaging`, `pipeline.go:391`). `PruneBatchStaging` knows
  no age; `config.go:333` speaks of "stale job staging after this many days without
  use".
* *A removal verified on the wrong daemon* (`BoxesSwitch`, `ownership.go:27`). The
  daemon's identity is checked in one command and the containers are listed in the
  next: after a switch of the context in between the list is another daemon's, and
  empty.
* *Models of the owner* (`BoxesModels`, `main.go:1188`). `cleanup --ollama` removes every
  model; its help (`main.go:912`) says "remove Ollama models pulled by the agent".
* *Images left* (`BoxesAll`, `main.go:952`). `cleanup --all` removes the containers and
  then looks for images by the containers that use them (`manager.go:271`).
  `main.go:903`: "remove everything (full uninstall)".

### Not called disagreements

A late assignment of an attempt the journal knows only by its cancellation is
answered by a rejection that is blocked from replay, so the coordinator does not
hear of it; and a retry deferred behind a blocked result waits until somebody
cancels it. Both follow from the rule that a record which proves nothing must not
be reported, so the properties exempt blocked results.

A deferred attempt that is dispatched again while admission is fenced is rejected
(`client.go:670`) and stays deferred, so it is answered a second time when its turn
comes. Both answers are failures and it never works, so `OneAnswer` holds;
`DeferredIsStartable` exempts a fenced client.

Locks may outlive what they were taken for (`recovery.go:123`). An agent that looked at
another agent's container while it was unresolved keeps its shared locks after the
other has settled it, and refuses native work and cleanups until it ends. That is
cautious rather than wrong; the variable `stale` models it, and
`ReservedForAnAttempt` excepts it.

Read but not modelled, because no property of the modules is about them:

* The help of `cleanup` calls its first part "remove stopped" containers
  (`main.go:900`); running ones are stopped and removed (`manager.go:231-236`).
* `ExecuteCleanup` chooses by the categories as they came (`cleanup.go:158`), after they
  were checked with spaces trimmed (`cleanup.go:104`, `151`).
* `max_model_cache_gb` is described as a limit with least-recently-used removal
  (`config.go:326-328`); nothing reads it for that.
* The owner's cleanup removes `~/.tokenize/staging`; jobs stage under the model cache.

## 7. Plan

Every invariant and action property that a passing run checks is proved, and so are
most of those of the further configurations. What is left:

1. An abstract specification of the outbox (the first result of an attempt, sent
   until it is accepted, never another one) and its refinement by `PoolClient` under
   `NoMixedJobs`; `ClientInv` has the facts it needs.
2. `NoResurrection` for the results that were never moved.

## 8. Not modelled, and why

* *Other GPUs of the machine* appear in `Executor` only as the flag that recovery
  of this GPU failed; a refused admission changes no state of this GPU. What they do
  to each other is `MachineLease`.
* *Progress messages* of the client change no state.
* *The security policy of containers, the GPU monitor, argument lists, HTTP*:
  stateless checks on strings, or plain I/O.
* *Installation, update and doctor commands*: sequences of system calls with nothing
  beside them.
* *Migration of the Windows storage layout, file permissions and symbolic links* of
  the journal directory; *time zones and clock changes* of the schedule; *upload of
  outputs* of a job.
* *comfyui-batch* is treated by the executor exactly as docker-custom.

Two assumptions about the environment: a file replacement is atomic and durable
(`internal/durablefs` writes a temporary file, syncs and renames), and a request
to the container engine does not outlive the client that made it. The code makes
the second one too: after a crash, a container that the engine creates only after
recovery has looked for it would not be found.
