# Sonata in TLA+

Sonata is a local message pipeline: commands send JSON messages to queues, *actions*
subscribe to queues, and a background daemon runs each action's subprocess on each message
and appends what it prints to the action's output queue. This directory specifies that
system, from the SQLite rows and the task processes up to the exit code of a command, checks
the specification with TLC on small instances and proves its safety properties with TLAPS for
every size.

## 1. Inventory

| Part (`src/internal/…`) | State | Operations | Correct when |
|---|---|---|---|
| `store` | tables `messages`, `actions` (versioned, with an enabled flag), `deliveries` (state, attempt, version, `not_before`, pgid) | one write transaction each: append with fan-out, apply, enable/disable, claim, resolve, set pgid, complete with outputs, fail, replay, cancel, reset orphan; reads | outputs commit with the `done` of their delivery and never otherwise; terminal states are final |
| `scheduler` | busy counter, in-flight counts, nudge channel, timer, snapshot of the definitions | the loop of `Run` (dispatch, select, apply, drain); `ReapOrphans` | every delivery ends, counters never drift, concurrency and attempt budgets hold, a stop waits for its tasks |
| `store/id.go` | the last identifier; timestamps as text | `NewID`, `nowUTC`, keyset pages | identifiers ascend with commits; the order of the text is the order of time, as far as retries need it |
| `scheduler` clock | wall clock, one timer | `backoff`, `armTimer`, gates | a retry is never forgotten, and early by less than a second |
| `executor` | one process group per execution, an input and an output pipe, a capped buffer | start, wait, kill with grace, capture | success is a whole output; nothing of the group survives the call; the call ends |
| `workflow` | cache of compiled filters | parse, validate, canonical form, CEL | a definition means the same as a file, on the wire, in the registry and in the cache |
| `api` | number of requests in flight | `message.send`, `delivery.replay`, `action.apply/enable/disable`, lists and shows; the client's `post` | what is committed is announced to the scheduler; an answer is about what is committed |
| `daemon` | lock file with a PID, start lock, socket, idle tracker | `Run`, `EnsureRunning`, `Stop`, `RunningPID` | one daemon has the store; commands reach it; stopping ends it; idling loses nothing |
| `config` | – | `Load`, `Env` | a spawned daemon has the configuration of its parent |
| `cli` | – | checks, autostart, one request, exit code | the exit code says what happened |

Interactions. Handlers commit to the store from their own goroutines and *then* call the
scheduler (`WorkAdded`, `CancelAction`), so a commit and its announcement can be interleaved
with anything. The scheduler loop is the only goroutine that moves a delivery out of
`pending` or `failed`, apart from handlers that replay dead ones. Workers write pgids and send
results. A daemon that dies leaves rows and process groups behind, which the next one reaps.
Commands and daemons share nothing but files: two `flock`s, a PID and a socket path; the
spawned daemon receives its configuration as variables. A command talks to a daemon in one
request with a deadline of ten seconds, which may break at any point.

What is hard: the windows between commit and announcement, between snapshot and claim, between
process start and pgid write; cancellation seen by `select` beside ready results; crashes at
every point, also during reaping; two counters read one after the other; a socket path that
three parties unlink; time limits that must cover one another; clocks that go back under
identifiers, gates and timers; processes that outlive signals; a reply that never arrives.
`PROJECT.json` lists each hazard
with its line and the properties that watch it.

## 2. Modules

| Module | Models |
|---|---|
| `Store` | the tables; one operator per transaction |
| `Scheduler` (extends `Store`) | the loop, its workers and their processes, the start of a daemon |
| `Sonata` (extends `Scheduler`) | handlers, idle tracker, stop, crash, restart; the properties |
| `DeliveryPromise` | what clients are promised: log, subscriptions, statuses; no daemon in it |
| `Lifecycle` | daemons and commands around the lock, the PID, the start lock and the socket |
| `Executor` | one execution: a task's processes, its pipes, `cmd.Wait`, `select`, `killGroup` |
| `Identifiers` | `NewID`, the claim order and the pages that rest on it |
| `RetryTimer` | backoff, gates as text, the one timer, the wall clock |
| `Workflow` | documents, validation, canonical form, compilation, as operators |
| `Config` | the sources of a setting, what `Load` makes of them, what a child gets, as operators |
| `Command` (extends `Workflow`, `Config`) | commands from their arguments to their exit code, the daemons they start, their requests, the registry |
| `MCSonata`, `MCIdentifiers`, `MCCommand` | instances for TLC |
| `SonataProofs`, `CounterProofs`, `DaemonProofs` | theorems on `Sonata`: tables, counters, processes, budgets, the refinement |
| `LifecycleProofs`, `ExecutorProofs`, `IdentifiersProofs`, `RetryTimerProofs`, `CommandProofs` | theorems on the module each is named after |

`Sonata` implements `DeliveryPromise` under the mapping `Promise`: the log is `messages`,
pending, failed and claimed are all "open", filtered and cancelled are "dropped".

### How the code appears in the model

*Transactions are steps.* All writes go through one connection with `BEGIN IMMEDIATE`
(`store.write`), so a transaction is one step; anything between two transactions is a place
where others may step in.

*Dispatch.* `LoadActions` reads the snapshot; then, action by action, `Resolve` and
`ClaimAndLaunch` take the oldest eligible row (`IsNextEligible`), `ActionExhausted` moves on.
The read of the row, `vet` and the write that follows are one step: nobody else can change a
`pending` or `failed` row in between. With a cancelled context, or a failing database,
dispatch aborts (`DispatchAborted`, `DispatchFails`). When the write of `resolve` itself fails
the code reads the same row again, which is no step.

*Select.* Each branch is an action: nudge, retry timer, idle timer, result, control request,
cancellation. `apply` splits into `ApplyDone`, `ApplyFailed` and `ApplyLost` (the write fails;
the counter keeps the delivery and the row stays claimed). A result taken by `select` after
cancellation writes with a dead context; one taken by `drain` does not (`CanWrite`).

*Workers.* `StartProcess` (`cmd.Start`) and `PersistPgid` are separate steps; `TaskExits`
stands for exit, timeout and kill. What a task prints is a sequence of payloads or a failure.

*Time.* `not_before` is `null`, `closed` or `open`, and `GateOpens` is the passage of time.
`now` is read once per dispatch in the code; a gate that opens later during that dispatch is
in the model already open, which is a dispatch that started a moment later. `Lifecycle` counts
its three bounded waits in ticks of one unit.

*Requests.* A handler slot is occupied from its commit until it has called the scheduler.
`disable` is committed first and cancelled by the loop later; its client may go away in between
(`CancelAbandoned`).

*Stop.* `StopScheduler` is the cancellation after the server's grace period, `Drained` the end
of `Run`. `Crash` forgets everything but the tables and the processes.

*Lifecycle.* A daemon goes through the phases of `daemon.Run` in the order of its code and of
its deferred calls. A command is at one point of `EnsureRunning` or `down`. A dial succeeds
when the socket file belongs to a daemon that listens; the answer comes when it serves. A
child nobody waits for is a zombie, alive to `kill(pid, 0)`, until its parent ends. SIGTERM
ends a daemon that has not installed its handler yet, or has restored the default. SIGKILL ends
a process at once; the kernel may take a moment, for which `Stop` does not wait. The history
variable `disturbed` records that something other than `EnsureRunning` has been at work: a daemon
run by hand, a `down`, an interrupted command. Only properties read it.

*Executor.* Whatever a task may do is an action of its processes: fork, read or close its
input, write or close its output, leave the group (`setsid`), ignore SIGTERM, exit. Against it
run the goroutines that copy, `cmd.Wait` (which returns when the leader is dead, nobody holds the
output pipe, and the input has gone into its pipe or has no reader left), the context, and `Execute`: `select` over exit, overflow and context, then SIGTERM to the group,
the grace, SIGKILL, the wait for `cmd.Wait` and the last SIGKILL.

*Identifiers.* An identifier is timestamp, counter and random bits, compared in this order as
the text is. `NewID` takes the clock's millisecond, or the next counter in the last one, or
borrows the next millisecond when the counter is full. Only the memory of the daemon keeps it
ascending, so rows carry an *era*: a new one begins with a daemon whose clock, before its first
identifier, is not past every identifier there is. `NextEligible` is read and claimed in two
steps, between which rows arrive.

*RetryTimer.* A timestamp has digits, and its text drops trailing zeros, as RFC3339Nano
does: `TextKey` is the order of that text. `backoff` shifts a signed number of `Width` bits.
The clock may be set back, the daemon restart, the query of `armTimer` fail; the timer itself
is monotonic. `failedAt` is a history variable: the time of the last failure, until the next claim.

*Definitions.* A document is a record of its fields, with its layout, its form and what is
wrong with its text. Decoding, `Normalize`, `Validate` and `Canonical` are operators on it. A
CEL expression is the type that its checker gives it.

*Configuration.* A path is a sequence of names, a duration a number and a unit. `Load`
resolves flag, variable, file and default in viper's order, expands and derives paths;
`ChildSources` is the environment that `Env` and `Spawn` make of the result, and the child's
configuration is `Load` of that, never the parent's by assumption.

*Commands.* `Begin` is everything before a daemon is needed. `Command` has its own, coarser
autostart than `Lifecycle`: the locks are those of a state directory, a daemon starts in one
step, and it may die in any state. The request is at a daemon until a handler serves it, the
client has gone, or the daemon has; the client gives up at any time. Handlers are the store's
transactions on the registry and the log. "post" is a caller of the socket without the
command line.

### Abstractions

Payloads are told apart only by what filters say of them; headers, stderr, error texts, times
and JSON are left out. A filter is a function to `pass`, `skip`, `error`; compilation and
activation errors are `error`. In `Scheduler` ids follow the order of commits, so the oldest
delivery of an action is the one of the earliest message: `Identifiers` shows when that is
true. A gate there is open or closed: `RetryTimer` shows what opens it. A task there ends in
one step: `Executor` shows what `Execute` leaves behind. `LockRefused` leaves out the momentary `RunningPID`
of a refused daemon's error message. Characters of names and of JSON are abstracted to whether
they are well formed; the body limit of 16 MiB and the overwritten header `hops` are left out.
In `Config` one duration and one number stand for the several of each kind.

## 3. Runs

| Run | Instance | Question |
|---|---|---|
| `pipeline` | two actions in a cycle, 2 messages, 3 daemons, store errors, crashes, replays | counters exact (`BusyCounterExact`, `InflightExact`), outbox (`OutputsHaveDoneOrigin`, `ImplementsPromise`), reaping (`OrphansWereUntracked`), budgets (`AttemptsWithinBudget`), stop (`StopLeavesNoTask`) |
| `reconfigure` | one action with five definitions, 2 versions, 2 payloads, disable and enable, idle timeout | snapshot against apply and disable (`ClaimsAreVetted`, `ConcurrencyRespected`, `NoClaimAfterDisableReturns`, `BusyCounterExact`); `IdleSparesWork` |
| `settles` | fairness; crash or stop anywhere, retries, an output, disables that are also abandoned, a definition replaced by four others (another queue, a filter that skips or fails, a join) | `EveryDeliverySettles`, `StopCompletes` |
| `lifecycle` | fairness of commands; 2 commands, 2 daemons that hang anywhere, all incidents; graces of 2 and 2 against a lock wait of 3 | `OneDaemonHasTheStore`, `RunSparesOtherSockets`, `StopMeansDead`, `StopEndsTheProcess`; until something other than `EnsureRunning` is at work, `SingleFlight`, `ServingIsReachable` and `RefusalsAreLate`: a successor is refused no sooner than `lockWait` into the stop of its predecessor |
| `executor` | a leader and 2 descendants, a timeout, a cap of 1 byte, an input one unit too large for its pipe | a success is an output stored whole, never of a run killed for its deadline or its output (`SuccessIsWhole`), nothing of the group is left (`NoSurvivors`), the call returns unless somebody outside the group holds a pipe (`ReturnsUnlessHeld`) |
| `identifiers` | a counter of 2 values, 3 rows, restarts and a clock set back | ids of an era ascend (`IdsAscend`), claims take the oldest (`OldestFirst`), pages lose and repeat nothing (`PagesAreExact`) |
| `retry` | 2 deliveries, a clock of 10 ticks in 4-tick seconds, durations of 3 bits | the loop never sleeps past a gate (`NoOversleep`), gates are the schedule's though the shift overflows (`GatesFollowSchedule`), and text order lets a retry run early by less than a second (`EarlyByLessThanASecond`) |
| `command` | 2 commands of 24 invocations, 3 registry histories | exit 0 is durable (`SuccessIsDurable`), the client's validation is the server's (`ClientChecksSuffice`), `ReapplyIsNoOp`, `DisableSticks`, `CacheCoherent`, `SpawnedAlike` |

Four more runs state what a comment or a spec says and show how the code departs from it;
`PROJECT.json` quotes each sentence.

| Run | What happens |
|---|---|
| `disable_strands` | an execution fails after its action was disabled: the delivery waits for a retry nobody takes |
| `lock_wait` | with the code's 5 s, 5 s and 7 s: a successor gives up on the lock while its predecessor drains |
| `timeout_unbounded` | a descendant that left the group keeps a pipe open: `Execute` waits beyond its timeout |
| `retry_early` | a failed delivery is claimed in the second before its gate: `…01.5Z` sorts after a gate at `…01.57Z` |

### Where the code departs from its documents, without a run

The model contains these as well, and the hazards describe the ones that matter:

* A crash between process start and pgid write leaves a process that nobody knows.
* `select` may take a result with the cancelled context. Its write fails, and a graceful stop
  leaves the delivery claimed ("leaves failed-retryable rows, not claimed ones", says
  scheduler.go:222-223); the next daemon resets it.
* A cancelled execution whose command ends with status zero all the same is a success
  (executor.go:112-123 looks at the context only after an error), which executor_test.go:114-116
  would fail. Its output is whole as far as the pipe goes, but a descendant killed in the middle
  of writing may have left it short.
* An escaped descendant blocks `Execute` also without holding its output: as the reader of an
  input that does not fit the pipe, and that it does not read.
* The sweep of `EnsureRunning` can unlink the socket of a foreground daemon that is just
  starting, and `Stop` that of a successor after its timeout.
* Enable does not nudge; a request between the two reads of the idle tracker is not seen; a
  claim pins the version of the snapshot (specs/006 says the current one).
* The lock is that of a state directory. Two directories with one socket path take the socket
  from one another; the spawning command then exits 3 and leaves its child running.
* Exit 3 leaves the outcome open: the handler may still commit.
* `up --idle-timeout 0` does not override a configured timeout: `Spawn` passes no flag for it
  and the variable carries the configured one. `--log-level ""` and `--state-dir ""` count as
  given, the latter fails when the directory is made.
* `./sonata.yaml` (cli/root.go:118) is never read: `SetConfigName` is called twice, and the
  second name, `config`, holds for every location.
* A wrong number of arguments exits 3, not 2 (cli/root.go:22).
* `join_timeout: 60s` and `1m` are one definition, two spellings of `instructions.timeout` are
  two versions.
* `send null` and an empty name pass the command line and are refused by the daemon.
* When the query of `armTimer` fails the loop sleeps an hour (`blind` in `RetryTimer`).

Where a documented statement fails, the passing runs check what does hold instead: work that
has been *announced* is spared by the idle tracker, orphans that survive were never *recorded*,
an action is not claimed for once disable has *returned*, a successor is refused no *sooner* than
`lockWait` into the stop of its predecessor (in the drain, by the code's numbers, never while
requests finish), a retry is early by *less than a second*, a call of `Execute` returns unless a
pipe is *held* outside its group, a child has its parent's configuration but for the two exempt
flags.

### Bounds

Two messages are enough for an output with an origin, for a second delivery waiting behind a
first one and for the hop limit of 1. Two daemons give every crash and every restart, three a
crash while orphans are reaped; the last daemon of a run neither crashes nor stops, so that
liveness is about a daemon that stays (`MaxBoots`). Two versions give a stale snapshot. Two
process groups give an orphan beside a live task. The runs start with registered actions (`Registered`), a state that
applying them reaches. `Lifecycle` reuses the PID of a daemon once nothing names it, so its
runs have no bound on the number of restarts.

A leader and two descendants give one that escapes beside one that stays; two bytes against a
cap of one give an overflow, and one unit of input more than fits its pipe (`Excess`) a writer that
waits for a reader. Ticks of 2, 2 and 3 have the order of the code's 5 s, 5 s and 7 s: the lock
wait exceeds each grace and not their sum; `lock_wait` takes the seconds themselves. A counter of two values overflows at once, three rows and two
upsets (restarts or settings of the clock) give a row on either side of a restart and one after
it; the paging client of `identifiers` runs beside rows that were not claimed yet
(`ReaderAlone`): claims do not change the identifiers it reads. Digits of two values in two places give whole seconds, trimmed and full fractions; a
duration of three bits overflows at the second retry; `IdleInterval` exceeds the run, as an
hour exceeds a backoff. Two commands give every pair: the one
that starts a daemon and the one that finds it, a disable and an apply, two daemons on one
socket; longer histories come from the three registries a run may start with.

Symmetry is over process group ids and over commands, which no definition distinguishes, and never
in a run with liveness. `executor`, `timeout_unbounded`, `identifiers`, `retry`, `retry_early` and `command` may
stop (`CHECK_DEADLOCK FALSE`): the call has returned, the clock or the
rows are at their bound, the commands have exited. The other systems never stop.

### Fairness

Goroutines run, so the loop, workers and handlers are weakly fair; tasks end, because each has
a timeout. A Go `select` with several ready cases chooses at random, so a case that is ready
again and again is taken: strong fairness of results, control requests and cancellation. Time
passes. A daemon that is gone is started again, as the next command does. Nothing is assumed of
clients, faults, or the hourly timer. In `Lifecycle` only commands are fair: every wait of
theirs has a deadline, while a daemon may hang. In `Executor` the goroutines, the deadline and
the grace timer are fair; nothing is assumed of the task.

## 4. Proofs

Every safety property of the passing runs, invariant, action property or refinement, is also a
theorem: the run shows it on its instance, the theorem for all values of the constants that
meet the modules' assumptions. Each rests on an inductive invariant that TLC checked first.

### Scheduler, store and requests

For any definitions, any number of actions, queues, requests, processes and restarts.

`SonataProofs`. `InductiveInvHolds` gives `TypeCorrect`, `OutboxHolds`, `ClaimsVetted` and
`PgidsAreOfClaims`. The properties are not inductive alone. That an output's origin stays `done`
needs that a message is written only with a claimed delivery, under a version that exists
(`VersionsExist`), for a row whose message is in the log (`RowsHaveMessages`). That a claim is
vetted needs that the snapshot names an existing version (`SnapsExist`); versions are only
appended, so an old one keeps its meaning. That a result or a pgid write finds a claimed row
needs `WorkersHoldClaims`: workers exist only in a daemon that runs, and each holds a claim. The
proof takes one lemma per store transaction about the store's part (`PlaneInv`), and one case
per action.

`CounterProofs` (extends it). `CountersHold` adds that `inflight` is a cardinality and that
only a request that adds work has rows to announce. Each action changes the sets behind a
counter by one element, by the subscribers of the outputs or not at all; the lemmas say so once,
and `InflightIsExact` and `BusyCounterIsExact` follow. Two action properties rest on them:
`ConcurrencyIsRespected`, because dispatch compares the counter with the version it is about to
pin, and `IdleSparesAllWork`, because the second read of the tracker is of a counter that is
short of the truth by the unannounced rows only.

`DaemonProofs` (extends that).

* `ProcessesHold`: a process whose group was persisted is on record in its row. Hence
  `OrphansUntracked`, and with the counters `StopLeavesNone`.
* `AttemptsAreWithinBudget`, by what is left for a row in each state: a failed row may be claimed
  once more, a claimed one after the restart that makes it an orphan (`RowBudget`).
* `DisableReturnsAfterClaims`, by `SnapInv`: a disabled action in the snapshot has a cancel
  request waiting. It assumes that no client goes away before its reply (`"abandon" \notin Ops`,
  as in `reconfigure`); `CancelAbandoned` is what happens otherwise.
* `ImplementsThePromise`: every step of `Sonata` is a step of `DeliveryPromise` or leaves its
  variables alone, action by action from the effect of its transaction.

### Locks, sockets and stops

`LifecycleProofs`, for any number of daemons and commands and any limits. `LifecycleInvHolds`
gives `LifecycleTypeCorrect`, `StoreHasOneDaemon` and `RunSparesSocketsAlways`. The argument is
`LockHeld`: a daemon past `AcquireWait` is the holder of the lock until its process ends;
`CommandsNameDaemons` is needed because a command's signal may end the process.
`StopLeavesItDead` needs also that a PID some command holds is not given to a new process
(`NamesAreUsed`).

What a start promises is false once somebody runs a daemon by hand, interrupts a command or
stops the daemon (section 3), so the next theorems are about behaviours up to then
(`~disturbed`): `StartsCollapse`, `ServingStaysReachable` and `RefusalsComeLate`, by `FlightInv`:
the holder of the start lock is the only one that spawns, and spawns when nobody serves or is
about to; a daemon that waits for the lock has not waited longer than its predecessor has been
stopping. None assumes anything of the limits. `RefusalsComeLate` is what remains of the comment
on `lockWait`, whose own claim `lock_wait` refutes: with the code's numbers a successor outlasts
the 5 s of the requests and the first 2 s of the drain, and may be refused after that.

### Executions, identifiers, retries

`ExecutorProofs`, for any number of descendants and any cap: `NothingSurvives` and
`SuccessesAreWhole`. What `cmd.Wait` saw is final (`WaitIsFinal`: the leader is dead, nobody
holds the pipe, nothing is left to copy), and so are the last sweep (`SweepIsFinal`: a group
without members gets none) and the reason for which `select` left (`CausesLast`).

`IdentifiersProofs`, for any counter width, seed, clock and number of rows and restarts:
`IdentifiersTyped`, `IdentifiersAscend`, `OldestIsFirst`, `PagesExact`. Needed: every row of the
era is behind the generator, or behind the clock before its first identifier (`EraBehind`);
what a reader has not seen is below its cursor (`UnseenAreBelow`). `ReadPage` takes any page
that is one by `IsPage` (the rows below the cursor, newest first, to the limit), so that no
sorting has to be reasoned about.

`RetryTimerProofs`, for any digits, backoff, clock and number of deliveries:
`LoopDoesNotOversleep`, `GatesAreScheduled`, `RetriesAreBarelyEarly`. The core is about text: two
timestamps compare as their text does unless they lie in the same second. `GatesAreScheduled`
rests on `ShiftAssumption`: a shift that overflows does not wrap into the range `1..BackoffCap`,
where the guard `d <= 0` of `backoff` would not notice. The defaults (1 s and 1 min in 64 bits)
meet it, and so does every base of whole seconds up to an hour with a cap of up to a day; a
configuration need not.

### Commands, definitions and configuration

`CommandProofs`. On the operators, for every document and every combination of sources:
`CanonicalStable` (the canonical form is its own canonical form), `CanonicalAccepted` (what the
command line accepts the daemon accepts), `ChildResolvesAlike` (the child's `Load` gives the
parent's configuration, if there is a state directory). The last rests on lemmas that paths once
expanded stay as they are and that a duration reads back from its text.

On the specification, for any number of commands and any invocations, `CommandInvHolds`, in
three parts. `IInv` says of each command that its input passed the checks of its operation, that
a state directory exists once it is past the start lock, that its child has the parent's
configuration, and that an answer "invalid" is not one to an apply: `SpawnedAlikeAlways`,
`ClientChecksSufficeAlways`. `RunInv` says where commands, requests, daemons and sockets are, that
a started daemon's database is one of those that configurations name, and that every database is
well formed (`Database`: only canonical definitions, no two neighbours alike): `CommandTyped`
and, as canonical forms with equal content are equal (`StoredIsBare`), `ReapplyAddsNothing`.
`DataInv` says that every answer, snapshot and cache entry is true of its database. It lasts
because no handler loses or redefines a version (`Grown`, `HandlerKeeps`) and a request stays
with its daemon and that daemon with its database: `SuccessLasts`, `CacheStaysCoherent`. A
handler other than an enable leaves what is off off (`StaysOff`): `DisabledStaysOff`.

### Assumptions, and what is only model-checked

The proofs use the `ASSUME`s of the modules, which TLC evaluates in every run: limits are
numbers, special values differ from ordinary ones, there are finitely many handlers, definitions
are valid, an invocation has the fields of its operation (its name is one an action may have, or
empty), shifts as above. Conditions beyond these are in the statement of their theorem.

Only model-checked: liveness, which this prover cannot do (`EveryDeliverySettles`,
`StopCompletes`, `StopEndsTheProcess`, `ReturnsUnlessHeld`), and of course the four
disagreements, which are shown by counterexample.

## 5. Not modelled

Joins (specs/007) and sources (specs/008) are not implemented at this commit; what the code
does with a registered join is in `Vet`, and nothing calls `EvalCorrelate`. CEL's evaluation,
YAML and JSON syntax and viper are libraries, modelled by what the code relies on. Lists, shows,
tables and messages only read and print; the pages behind them are in `Identifiers`. The stderr
tail, log output and `FakeClock` hold no state that others see. Failures are those of processes
and of single writes: a loss of power, after which `synchronous(NORMAL)` (store.go:72) may lack the
last commits, is outside the model. So is an explicit `null` inside an action's instructions, which
`normalize` keeps: `timeout: null` and no timeout are two versions of one meaning.

## 6. Plan

Done: every component that changes state; every safety property of the passing runs is proved.

1. `down` against the PID file: what it may signal between the lock and `WritePID`.
2. Runs of their own for two departures that have none: the delivery a graceful stop leaves
   claimed, and the cancelled execution that succeeds.
3. The safety half of the liveness properties: that a delivery which waits has a wake-up on its
   way (a nudge, a timer or a result), as an invariant.
