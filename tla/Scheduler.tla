----------------------------- MODULE Scheduler -----------------------------
(***************************************************************************)
(* The scheduler of sonata (internal/scheduler): one goroutine that loads  *)
(* the actions, dispatches eligible deliveries and then blocks in a select *)
(* on nudges, results, its timer, control requests and cancellation; one   *)
(* worker goroutine per claimed delivery; and the reaping of orphans that  *)
(* a new daemon does before it serves.                                     *)
(*                                                                         *)
(*   phase     "stopped" and "crashed": no daemon; "reaping": ReapOrphans; *)
(*             "load", "dispatch", "select": the loop of Run; "drain".     *)
(*   ctxDone   the scheduler's context is cancelled.                       *)
(*   cursor    the action dispatch is at; snap: the version loadActions    *)
(*             returned for each action, 0 when it is not listed.          *)
(*   active    the busy counter; inflight: running executions per action.  *)
(*   nudged    the one-slot nudge channel is full.                         *)
(*   workers   the goroutine executing each delivery, if any.              *)
(*   procs     the process groups alive on the machine: they survive the   *)
(*             daemon.  tracked: SetDeliveryPgid committed for this one.   *)
(*                                                                         *)
(* Between NextEligible and the write that follows it no other goroutine   *)
(* can change the chosen row (only this loop leaves "pending" and          *)
(* "failed"), so the read, vet and the write are one step.                 *)
(***************************************************************************)
EXTENDS Store

CONSTANTS
  MaxHops,      \* hop limit
  MaxLines,     \* bound on the output messages of one execution
  StoreFaults   \* whether a read or a write may fail (disk full, I/O error)

ASSUME SchedulerAssumption ==
  /\ MaxHops \in Nat \ {0}
  /\ MaxLines \in Nat
  /\ StoreFaults \in BOOLEAN

VARIABLES phase, ctxDone, cursor, snap, active, inflight, nudged, workers, procs

schedVars == <<phase, ctxDone, cursor, snap, active, inflight, nudged, workers>>

Off  == {"stopped", "crashed"}
Loop == {"load", "dispatch", "select"}

NoWorker  == [st |-> "none", pid |-> NoPid]
NoProcess == [row |-> NoRow, tracked |-> FALSE]
Worker    == [st  : {"none", "launched", "started", "running", "exited", "unspawned"},
              pid : Pids \cup {NoPid}]
Process   == [row : Rows \cup {NoRow}, tracked : BOOLEAN]

SchedulerTypeOK ==
  /\ phase \in Off \cup Loop \cup {"reaping", "drain"}
  /\ ctxDone \in BOOLEAN
  /\ cursor \in Actions
  /\ snap \in [Actions -> Nat]
  /\ active \in Int
  /\ inflight \in [Actions -> Int]
  /\ nudged \in BOOLEAN
  /\ workers \in [Rows -> Worker]
  /\ procs \in [Pids -> Process]

\* What a process that is not running the scheduler has in memory.
Forget ==
  /\ ctxDone' = FALSE
  /\ cursor' = 1
  /\ snap' = [a \in Actions |-> 0]
  /\ active' = 0
  /\ inflight' = [a \in Actions |-> 0]
  /\ nudged' = FALSE
  /\ workers' = [r \in Rows |-> NoWorker]

SchedulerInit ==
  /\ phase = "stopped"
  /\ ctxDone = FALSE
  /\ cursor = 1
  /\ snap = [a \in Actions |-> 0]
  /\ active = 0
  /\ inflight = [a \in Actions |-> 0]
  /\ nudged = FALSE
  /\ workers = [r \in Rows |-> NoWorker]
  /\ procs = [p \in Pids |-> NoProcess]

-----------------------------------------------------------------------------
(* Start of a daemon. *)

Boot ==
  /\ phase \in Off
  /\ phase' = "reaping"
  /\ UNCHANGED <<storeVars, ctxDone, cursor, snap, active, inflight, nudged,
                 workers, procs>>

\* SIGKILL to the recorded process group; none is recorded when pgid is NULL.
KillGroupOf(r) ==
  procs' = [p \in Pids |-> IF p = deliveries[r].pgid THEN NoProcess ELSE procs[p]]

\* Mutated form: the delivery is reset, its process group lives on.
ReapOrphan_WithoutKill(r) ==
  /\ phase = "reaping"
  /\ r \in ClaimedDeliveries
  /\ ResetOrphan(r)
  /\ UNCHANGED <<schedVars, procs>>

ReapOrphan(r) ==
  /\ phase = "reaping"
  /\ r \in ClaimedDeliveries
  /\ KillGroupOf(r)
  /\ ResetOrphan(r)
  /\ UNCHANGED schedVars

\* The daemon dies after the kill and before the reset commits.
ReapInterrupted(r) ==
  /\ phase = "reaping"
  /\ r \in ClaimedDeliveries
  /\ KillGroupOf(r)
  /\ phase' = "crashed"
  /\ Forget
  /\ UNCHANGED storeVars

\* Mutated form: claimed deliveries without a pgid are not taken for orphans.
SeedAndServe_SkipsNullPgid ==
  /\ phase = "reaping"
  /\ \A r \in ClaimedDeliveries : deliveries[r].pgid = NoPid
  /\ active' = CountActiveDeliveries
  /\ phase' = "load"
  /\ UNCHANGED <<storeVars, ctxDone, cursor, snap, inflight, nudged, workers, procs>>

\* Every orphan is reset: Run seeds the busy counter and enters its loop.
SeedAndServe ==
  /\ phase = "reaping"
  /\ ClaimedDeliveries = {}
  /\ active' = CountActiveDeliveries
  /\ phase' = "load"
  /\ UNCHANGED <<storeVars, ctxDone, cursor, snap, inflight, nudged, workers, procs>>

-----------------------------------------------------------------------------
(* dispatch. *)

\* Mutated form: disabled actions are listed too.
LoadActions_IgnoresEnabled ==
  /\ phase = "load"
  /\ ~ctxDone
  /\ snap' = [a \in Actions |-> Len(versions[a])]
  /\ phase' = "dispatch"
  /\ UNCHANGED <<storeVars, ctxDone, cursor, active, inflight, nudged, workers, procs>>

\* The current version of every enabled action, read once per dispatch.
LoadActions ==
  /\ phase = "load"
  /\ ~ctxDone
  /\ snap' = [a \in Actions |->
                IF Exists(a) /\ enabled[a] THEN Len(versions[a]) ELSE 0]
  /\ phase' = "dispatch"
  /\ UNCHANGED <<storeVars, ctxDone, cursor, active, inflight, nudged, workers, procs>>

\* With its context cancelled every read of dispatch fails; the database may
\* fail too.
DispatchAborted ==
  /\ phase \in {"load", "dispatch"}
  /\ ctxDone \/ StoreFaults
  /\ phase' = "select"
  /\ cursor' = 1
  /\ snap' = [a \in Actions |-> 0]
  /\ UNCHANGED <<storeVars, ctxDone, active, inflight, nudged, workers, procs>>

\* The decision vet takes for message m under definition d, in its order; a
\* join claims nothing in this version of the code.
Vet(d, m) ==
  IF d.join \/ m.queue \notin DOMAIN d.inputs THEN "cancelled"
  ELSE IF m.hops >= MaxHops THEN "dead"
  ELSE CASE d.inputs[m.queue][m.payload] = "error" -> "dead"
         [] d.inputs[m.queue][m.payload] = "skip"  -> "filtered"
         [] d.inputs[m.queue][m.payload] = "pass"  -> "claim"

\* Mutated form: the definition is read again, the version is not.
SnapDef_Reread(a) == CurrentDef(a)

SnapDef(a) == versions[a][snap[a]]

\* Mutated forms: one execution too many; deliveries of a join are left alone.
HasSlot_OneTooMany(a) ==
  /\ snap[a] # 0
  /\ SnapDef(a).join \/ inflight[a] <= SnapDef(a).concurrency

HasSlot_SkipsJoin(a) ==
  /\ snap[a] # 0
  /\ ~SnapDef(a).join
  /\ inflight[a] < SnapDef(a).concurrency

\* The action is listed and dispatch may take another delivery of it; the loop
\* over the deliveries of a join has no ceiling.
HasSlot(a) ==
  /\ snap[a] # 0
  /\ SnapDef(a).join \/ inflight[a] < SnapDef(a).concurrency

AtAction(a) ==
  /\ phase = "dispatch"
  /\ ~ctxDone
  /\ cursor = a

\* Mutated form: the verdict is written whatever it is.
Resolve_AnyVerdict(r, a) ==
  /\ AtAction(a)
  /\ HasSlot(a)
  /\ IsNextEligible(r, a)
  /\ ResolveDelivery(r, Vet(SnapDef(a), messages[r[1]]))
  /\ active' = active - 1
  /\ UNCHANGED <<phase, ctxDone, cursor, snap, inflight, nudged, workers, procs>>

\* Terminal resolution of the next delivery of a.
Resolve(r, a) ==
  /\ AtAction(a)
  /\ HasSlot(a)
  /\ IsNextEligible(r, a)
  /\ LET verdict == Vet(SnapDef(a), messages[r[1]])
     IN  /\ verdict # "claim"
         /\ ResolveDelivery(r, verdict)
  /\ active' = active - 1
  /\ UNCHANGED <<phase, ctxDone, cursor, snap, inflight, nudged, workers, procs>>

\* Claim the next delivery of a under the loaded version and launch its worker.
ClaimAndLaunch(r, a) ==
  /\ AtAction(a)
  /\ HasSlot(a)
  /\ IsNextEligible(r, a)
  /\ Vet(SnapDef(a), messages[r[1]]) = "claim"
  /\ ClaimDelivery(r, snap[a])
  /\ inflight' = [inflight EXCEPT ![a] = @ + 1]
  /\ workers' = [workers EXCEPT ![r] = [st |-> "launched", pid |-> NoPid]]
  /\ UNCHANGED <<phase, ctxDone, cursor, snap, active, nudged, procs>>

\* On to the next action; after the last one arm the timer and block in select.
Advance(a) ==
  /\ phase' = IF a = NumActions THEN "select" ELSE "dispatch"
  /\ cursor' = IF a = NumActions THEN 1 ELSE a + 1
  /\ snap' = IF a = NumActions THEN [b \in Actions |-> 0] ELSE snap
  /\ UNCHANGED <<storeVars, ctxDone, active, inflight, nudged, workers, procs>>

\* NextEligible, the claim, or the cancellation of a join's delivery fails: the
\* rest of this action waits for the next dispatch.  (When the write of resolve
\* fails, dispatch reads the same delivery again: no step.)
DispatchFails(a) ==
  /\ StoreFaults
  /\ AtAction(a)
  /\ HasSlot(a)
  /\ Advance(a)

\* Not listed, no eligible delivery, or at the concurrency ceiling.
ActionExhausted(a) ==
  /\ AtAction(a)
  /\ HasSlot(a) => \A r \in Rows : r[2] = a => ~Eligible(r)
  /\ Advance(a)

-----------------------------------------------------------------------------
(* select. *)

Wake == phase = "select" /\ phase' = "load"

WakeOnNudge ==
  /\ Wake
  /\ nudged
  /\ nudged' = FALSE
  /\ UNCHANGED <<storeVars, ctxDone, cursor, snap, active, inflight, workers, procs>>

\* armTimer points the timer at the earliest gate of a failed delivery ...
WakeOnRetryTimer ==
  /\ Wake
  /\ RetryDue
  /\ UNCHANGED <<storeVars, ctxDone, cursor, snap, active, inflight, nudged,
                 workers, procs>>

\* ... and an hour away when there is none, or when it cannot be read.
WakeOnIdleTimer ==
  /\ Wake
  /\ ctxDone \/ StoreFaults \/ InState({"failed"}) = {}
  /\ UNCHANGED <<storeVars, ctxDone, cursor, snap, active, inflight, nudged,
                 workers, procs>>

\* Mutated form: the cancelled deliveries stay in the busy counter.
HandleCtrl_ForgetsCounter(a) ==
  /\ Wake
  /\ ~ctxDone
  /\ CancelDeliveries(a)
  /\ UNCHANGED <<active, ctxDone, cursor, snap, inflight, nudged, workers, procs>>

\* A control request of action.disable; with the context cancelled, or on a
\* write error, nothing is cancelled.
HandleCtrl(a) ==
  /\ Wake
  /\ \/ /\ ~ctxDone
        /\ CancelDeliveries(a)
        /\ active' = active - Cardinality(Cancellable(a))
     \/ /\ ctxDone \/ StoreFaults
        /\ UNCHANGED <<storeVars, active>>
  /\ UNCHANGED <<ctxDone, cursor, snap, inflight, nudged, workers, procs>>

\* A result is taken off the channel by select, whose writes use the
\* scheduler's context, or by drain, whose writes do not.
TakeResult(r) ==
  /\ phase \in {"select", "drain"}
  /\ phase' = IF phase = "select" THEN "load" ELSE "drain"
  /\ inflight' = [inflight EXCEPT ![r[2]] = @ - 1]
  /\ workers' = [workers EXCEPT ![r] = NoWorker]
  /\ UNCHANGED <<ctxDone, cursor, snap, procs>>

CanWrite == phase = "select" => ~ctxDone

PinnedDef(r) == versions[r[2]][deliveries[r].version]

\* The messages an execution of r emits for the payload lines it printed.
BuildOutputs(r, lines) ==
  [i \in 1..Len(lines) |->
     [queue |-> PinnedDef(r).output, payload |-> lines[i],
      hops  |-> messages[r[1]].hops + 1, trace |-> messages[r[1]].trace,
      origin |-> r, originVersion |-> deliveries[r].version]]

\* Mutated form: the fan-out of the outputs is not counted.
ApplyDone_ForgetsFanOut(r, lines) ==
  LET d    == PinnedDef(r)
      outs == IF d.output = NoQueue THEN <<>> ELSE BuildOutputs(r, lines)
  IN  /\ workers[r].st = "exited"
      /\ TakeResult(r)
      /\ CanWrite
      /\ CompleteDelivery(r, outs, d.output)
      /\ active' = active - 1
      /\ nudged' = TRUE

\* The execution succeeded and printed these lines.
ApplyDone(r, lines) ==
  LET d    == PinnedDef(r)
      outs == IF d.output = NoQueue THEN <<>> ELSE BuildOutputs(r, lines)
  IN  /\ workers[r].st = "exited"
      /\ TakeResult(r)
      /\ CanWrite
      /\ CompleteDelivery(r, outs, d.output)
      /\ active' = active + Len(outs) * Cardinality(Subscribers(d.output)) - 1
      /\ nudged' = TRUE

\* Mutated forms: one attempt more than the budget; a delivery that waits for
\* its retry is no longer counted.
ApplyFailed_OneMore(r) ==
  LET dead == deliveries[r].attempt > PinnedDef(r).maxAttempts
  IN  /\ workers[r].st \in {"exited", "unspawned"}
      /\ TakeResult(r)
      /\ CanWrite
      /\ FailDelivery(r, dead)
      /\ active' = IF dead THEN active - 1 ELSE active
      /\ nudged' = TRUE

ApplyFailed_ForgetsRetry(r) ==
  LET dead == deliveries[r].attempt >= PinnedDef(r).maxAttempts
  IN  /\ workers[r].st \in {"exited", "unspawned"}
      /\ TakeResult(r)
      /\ CanWrite
      /\ FailDelivery(r, dead)
      /\ active' = active - 1
      /\ nudged' = TRUE

\* The execution failed, could not be spawned, or printed something else than
\* JSON lines.
ApplyFailed(r) ==
  LET dead == deliveries[r].attempt >= PinnedDef(r).maxAttempts
  IN  /\ workers[r].st \in {"exited", "unspawned"}
      /\ TakeResult(r)
      /\ CanWrite
      /\ FailDelivery(r, dead)
      /\ active' = IF dead THEN active - 1 ELSE active
      /\ nudged' = TRUE

\* Mutated form: returns before the execution is taken off inflight.
ApplyLost_KeepsSlot(r) ==
  /\ workers[r].st \in {"exited", "unspawned"}
  /\ phase \in {"select", "drain"}
  /\ phase' = IF phase = "select" THEN "load" ELSE "drain"
  /\ workers' = [workers EXCEPT ![r] = NoWorker]
  /\ ~CanWrite \/ StoreFaults \/ deliveries[r].state # "claimed"
  /\ UNCHANGED <<storeVars, ctxDone, cursor, snap, active, inflight, nudged, procs>>

\* The write fails: the delivery stays claimed, for the next daemon to reap.
ApplyLost(r) ==
  /\ workers[r].st \in {"exited", "unspawned"}
  /\ TakeResult(r)
  /\ ~CanWrite \/ StoreFaults \/ deliveries[r].state # "claimed"
  /\ UNCHANGED <<storeVars, active, nudged>>

BeginDrain ==
  /\ phase = "select"
  /\ ctxDone
  /\ phase' = "drain"
  /\ UNCHANGED <<storeVars, ctxDone, cursor, snap, active, inflight, nudged,
                 workers, procs>>

\* Mutated form: drain does not wait for the workers.
Drained_AtOnce ==
  /\ phase = "drain"
  /\ phase' = "stopped"
  /\ Forget
  /\ UNCHANGED <<storeVars, procs>>

Drained ==
  /\ phase = "drain"
  /\ \A a \in Actions : inflight[a] <= 0
  /\ phase' = "stopped"
  /\ Forget
  /\ UNCHANGED <<storeVars, procs>>

-----------------------------------------------------------------------------
(* Worker goroutines and the processes they run. *)

Launched(r) == workers[r].st = "launched"

\* cmd.Start: a process group of its own.
StartProcess(r, p) ==
  /\ Launched(r)
  /\ procs[p] = NoProcess
  /\ procs' = [procs EXCEPT ![p] = [row |-> r, tracked |-> FALSE]]
  /\ workers' = [workers EXCEPT ![r] = [st |-> "started", pid |-> p]]
  /\ UNCHANGED <<storeVars, phase, ctxDone, cursor, snap, active, inflight, nudged>>

SpawnFails(r) ==
  /\ Launched(r)
  /\ workers' = [workers EXCEPT ![r].st = "unspawned"]
  /\ UNCHANGED <<storeVars, phase, ctxDone, cursor, snap, active, inflight,
                 nudged, procs>>

\* onStart: the pgid is written with a context that shutdown does not cancel.
PersistPgid(r) ==
  /\ workers[r].st = "started"
  /\ SetDeliveryPgid(r, workers[r].pid)
  /\ procs' = [procs EXCEPT ![workers[r].pid].tracked = TRUE]
  /\ workers' = [workers EXCEPT ![r].st = "running"]
  /\ UNCHANGED <<phase, ctxDone, cursor, snap, active, inflight, nudged>>

PersistPgidFails(r) ==
  /\ StoreFaults
  /\ workers[r].st = "started"
  /\ workers' = [workers EXCEPT ![r].st = "running"]
  /\ UNCHANGED <<storeVars, phase, ctxDone, cursor, snap, active, inflight,
                 nudged, procs>>

\* The task ends by itself, by its timeout, or killed with the context.
TaskExits(r) ==
  /\ workers[r].st = "running"
  /\ procs' = [procs EXCEPT ![workers[r].pid] = NoProcess]
  /\ workers' = [workers EXCEPT ![r] = [st |-> "exited", pid |-> NoPid]]
  /\ UNCHANGED <<storeVars, phase, ctxDone, cursor, snap, active, inflight, nudged>>

Owned(p) == \E r \in Rows : workers[r].pid = p

\* A process whose daemon is gone ends by itself.
OrphanExits(p) ==
  /\ procs[p] # NoProcess
  /\ ~Owned(p)
  /\ procs' = [procs EXCEPT ![p] = NoProcess]
  /\ UNCHANGED <<storeVars, schedVars>>
=============================================================================
