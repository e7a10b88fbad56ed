------------------------------- MODULE Sonata -------------------------------
(***************************************************************************)
(* The daemon of sonata as a whole: the store and the scheduler, the API   *)
(* handlers that write to the store from goroutines of their own and tell  *)
(* the scheduler afterwards (internal/api), the idle tracker and the       *)
(* graceful stop (internal/daemon), and crashes.                           *)
(*                                                                         *)
(*   handlers  one slot per concurrent request.  op "add": committed, and  *)
(*             still to call WorkAdded for these rows; op "cancel": the    *)
(*             disable is committed and CancelAction waits for the loop.   *)
(*   idle      the idle tracker: "watching"; "quiet" once it has read that *)
(*             no request is in flight; "expired" when it ends the daemon. *)
(*   boots     daemons started so far.                                     *)
(***************************************************************************)
EXTENDS Scheduler

CONSTANTS
  Handlers,      \* slots for requests that are being served
  Ops,           \* the operations clients use
  IdleTimeout,   \* whether the daemon runs with an idle timeout
  MaxBoots       \* bound on the daemons started; the last one neither crashes nor stops

ASSUME SonataAssumption ==
  /\ Ops \subseteq {"send", "replay", "apply", "enable", "disable", "abandon"}
  /\ IdleTimeout \in BOOLEAN
  /\ MaxBoots \in Nat
  /\ IsFiniteSet(Handlers)

VARIABLES handlers, idle, boots

apiVars == <<handlers, idle, boots>>
vars == <<storeVars, schedVars, procs, apiVars>>

NoRequest == [op |-> "none", rows |-> {}, action |-> 1]
Request   == [op : {"none", "add", "cancel"}, rows : SUBSET Rows, action : Actions]

ApiTypeOK ==
  /\ handlers \in [Handlers -> Request]
  /\ idle \in {"watching", "quiet", "expired"}
  /\ boots \in 0..MaxBoots

\* Every table row, counter and request has its type.
TypeOK == StoreTypeOK /\ SchedulerTypeOK /\ ApiTypeOK

ApiInit ==
  /\ handlers = [h \in Handlers |-> NoRequest]
  /\ idle = "watching"
  /\ boots = 0

Init == StoreInit /\ SchedulerInit /\ ApiInit

-----------------------------------------------------------------------------
(* API handlers. *)

\* The scheduler is seeded and the daemon has not begun to stop it.
Serving == phase \in Loop /\ ~ctxDone

Free(h) == handlers[h] = NoRequest

SetHandler(h, req) == handlers' = [handlers EXCEPT ![h] = req]

\* message.send commits; the deliveries it created are announced later.
MessageSend(h, q, p) ==
  LET new == {Len(messages) + 1} \X Subscribers(q)
  IN  /\ "send" \in Ops
      /\ Serving
      /\ Free(h)
      /\ AppendMessage(q, p)
      /\ SetHandler(h, IF new = {} THEN NoRequest
                       ELSE [NoRequest EXCEPT !.op = "add", !.rows = new])
      /\ UNCHANGED <<schedVars, procs, idle, boots>>

DeliveryReplay(h, r) ==
  /\ "replay" \in Ops
  /\ Serving
  /\ Free(h)
  /\ ReplayDelivery(r)
  /\ SetHandler(h, [NoRequest EXCEPT !.op = "add", !.rows = {r}])
  /\ UNCHANGED <<schedVars, procs, idle, boots>>

\* Mutated form: the loop is not told.
WorkAdded_WithoutNudge(h) ==
  /\ handlers[h].op = "add"
  /\ phase \in Loop \cup {"drain"}
  /\ active' = active + Cardinality(handlers[h].rows)
  /\ SetHandler(h, NoRequest)
  /\ UNCHANGED <<storeVars, phase, ctxDone, cursor, snap, inflight, nudged,
                 workers, procs, idle, boots>>

\* The busy counter and the nudge, after the commit; the request then ends.
WorkAdded(h) ==
  /\ handlers[h].op = "add"
  /\ phase \in Loop \cup {"drain"}
  /\ active' = active + Cardinality(handlers[h].rows)
  /\ nudged' = TRUE
  /\ SetHandler(h, NoRequest)
  /\ UNCHANGED <<storeVars, phase, ctxDone, cursor, snap, inflight, workers,
                 procs, idle, boots>>

ActionApply(d) ==
  /\ "apply" \in Ops
  /\ Serving
  /\ ApplyAction(d.name, d)
  /\ UNCHANGED <<schedVars, procs, apiVars>>

ActionEnable(a) ==
  /\ "enable" \in Ops
  /\ Serving
  /\ SetActionEnabled(a, TRUE)
  /\ UNCHANGED <<schedVars, procs, apiVars>>

ActionDisable(h, a) ==
  /\ "disable" \in Ops
  /\ Serving
  /\ Free(h)
  /\ SetActionEnabled(a, FALSE)
  /\ SetHandler(h, [NoRequest EXCEPT !.op = "cancel", !.action = a])
  /\ UNCHANGED <<schedVars, procs, idle, boots>>

\* The loop takes the control request of h and replies.
CancelAction(h) ==
  /\ handlers[h].op = "cancel"
  /\ HandleCtrl(handlers[h].action)
  /\ SetHandler(h, NoRequest)
  /\ UNCHANGED <<idle, boots>>

\* The client goes away while CancelAction waits.
CancelAbandoned(h) ==
  /\ "abandon" \in Ops
  /\ handlers[h].op = "cancel"
  /\ SetHandler(h, NoRequest)
  /\ UNCHANGED <<storeVars, schedVars, procs, idle, boots>>

-----------------------------------------------------------------------------
(* The daemon's life. *)

InFlight == {h \in Handlers : ~Free(h)}

\* A tick of the idle tracker reads the number of requests first ...
IdleReadsInFlight ==
  /\ IdleTimeout
  /\ Serving
  /\ idle = "watching"
  /\ InFlight = {}
  /\ idle' = "quiet"
  /\ UNCHANGED <<storeVars, schedVars, procs, handlers, boots>>

\* ... and the busy counter second.
IdleReadsBusy ==
  /\ Serving
  /\ idle = "quiet"
  /\ idle' = IF active > 0 THEN "watching" ELSE "expired"
  /\ UNCHANGED <<storeVars, schedVars, procs, handlers, boots>>

\* A signal or the idle timeout: the server is shut down, with a grace period
\* for its requests, and then the scheduler's context is cancelled.
StopScheduler ==
  /\ Serving
  /\ boots < MaxBoots
  /\ ctxDone' = TRUE
  /\ UNCHANGED <<storeVars, phase, cursor, snap, active, inflight, nudged,
                 workers, procs, apiVars>>

NoRequests ==
  /\ handlers' = [h \in Handlers |-> NoRequest]
  /\ idle' = "watching"

StopDaemon == Drained /\ NoRequests /\ UNCHANGED boots

\* The daemon is killed: its memory is gone, the database and the processes
\* it started are not.
Crash ==
  /\ phase \notin Off
  /\ boots < MaxBoots
  /\ phase' = "crashed"
  /\ Forget
  /\ NoRequests
  /\ UNCHANGED <<storeVars, procs, boots>>

StartDaemon ==
  /\ boots < MaxBoots
  /\ Boot
  /\ boots' = boots + 1
  /\ UNCHANGED <<handlers, idle>>

CrashInReap(r) ==
  /\ boots < MaxBoots
  /\ ReapInterrupted(r)
  /\ NoRequests
  /\ UNCHANGED boots

-----------------------------------------------------------------------------

Lines == UNION {[1..n -> Payloads] : n \in 0..MaxLines}

\* Steps of the scheduler goroutine, apart from the branches of its select
\* that belong to one delivery or one request.
LoopStep ==
  \/ LoadActions
  \/ DispatchAborted
  \/ \E a \in Actions : \/ ActionExhausted(a)
                        \/ \E r \in Rows : \/ Resolve(r, a)
                                           \/ ClaimAndLaunch(r, a)
  \/ WakeOnNudge
  \/ WakeOnRetryTimer

\* A result of r taken and recorded.
ApplyResult(r) == ApplyFailed(r) \/ \E lines \in Lines : ApplyDone(r, lines)

WorkerStep(r) ==
  \/ \E p \in Pids : StartProcess(r, p)
  \/ PersistPgid(r)
  \/ TaskExits(r)

ReapStep == SeedAndServe \/ \E r \in Rows : ReapOrphan(r)

ClientStep ==
  \E h \in Handlers :
    \/ \E q \in Queues, p \in Payloads : MessageSend(h, q, p)
    \/ \E r \in Rows : DeliveryReplay(h, r)
    \/ \E a \in Actions : ActionDisable(h, a)

ConfigStep ==
  \/ \E a \in Actions : ActionEnable(a)
  \/ \E d \in Defs : ActionApply(d)

\* What may go wrong, or may not happen for a long time.
FaultStep ==
  \/ \E a \in Actions : DispatchFails(a)
  \/ \E r \in Rows : \/ ApplyLost(r)
                     \/ SpawnFails(r)
                     \/ PersistPgidFails(r)
  \/ WakeOnIdleTimer

\* The clock reaches the gate of a failed delivery.
TimePasses(r) == GateOpens(r) /\ UNCHANGED <<schedVars, procs>>

\* Steps in which no request takes part.
InternalStep ==
  \/ LoopStep
  \/ \E r \in Rows : ApplyResult(r) \/ WorkerStep(r) \/ TimePasses(r)
  \/ \E p \in Pids : OrphanExits(p)
  \/ BeginDrain
  \/ ReapStep
  \/ FaultStep

Next ==
  \/ InternalStep /\ UNCHANGED apiVars
  \/ ClientStep
  \/ ConfigStep
  \/ \E h \in Handlers : WorkAdded(h) \/ CancelAction(h) \/ CancelAbandoned(h)
  \/ IdleReadsInFlight
  \/ IdleReadsBusy
  \/ StopScheduler
  \/ StopDaemon
  \/ Crash
  \/ StartDaemon
  \/ \E r \in Rows : CrashInReap(r)

Spec == Init /\ [][Next]_vars

\* Goroutines are scheduled, tasks end (each has a timeout), gates pass, a
\* started daemon comes up and a stopped one is started again by the next
\* command.  A select with several ready cases picks one at random, so a case
\* that is ready again and again is taken: strong fairness for results,
\* control requests and cancellation.  Nothing is assumed of clients, of
\* faults, and of the hourly timer.
Quietly(A) == A /\ UNCHANGED apiVars

Fairness ==
  /\ WF_vars(Quietly(LoopStep))
  /\ WF_vars(Quietly(ReapStep))
  /\ SF_vars(Quietly(BeginDrain))
  /\ WF_vars(StopDaemon)
  /\ WF_vars(StartDaemon)
  /\ \A r \in Rows : /\ SF_vars(Quietly(ApplyResult(r)))
                     /\ WF_vars(Quietly(WorkerStep(r)))
                     /\ WF_vars(Quietly(TimePasses(r)))
  /\ \A p \in Pids : WF_vars(Quietly(OrphanExits(p)))
  /\ \A h \in Handlers : WF_vars(WorkAdded(h)) /\ SF_vars(CancelAction(h))

FairSpec == Spec /\ Fairness

-----------------------------------------------------------------------------
(* What the delivery plane promises. *)

Status(state) ==
  CASE state = "none" -> "absent"
    [] state \in ActiveStates -> "open"
    [] state = "done" -> "done"
    [] state \in {"filtered", "cancelled"} -> "dropped"
    [] state = "dead" -> "dead"

Promise == INSTANCE DeliveryPromise WITH
  log         <- messages,
  subscribers <- [q \in Queues |-> Subscribers(q)],
  status      <- [r \in Rows |-> Status(deliveries[r].state)]

\* Whatever crashes, restarts, retries, write errors and concurrent requests
\* do, the database goes through the steps of DeliveryPromise only: outputs
\* appear exactly once, in the transaction that marks their delivery done.
ImplementsPromise == Promise!PromiseSpec

-----------------------------------------------------------------------------
(* Safety. *)

WorkersOf(a) == {r \in Rows : r[2] = a /\ workers[r].st # "none"}

\* Deliveries committed by a request that has not called WorkAdded yet.
Unannounced == {x \in Handlers \X Rows : x[2] \in handlers[x[1]].rows}

\* While the loop runs, the busy counter that the idle tracker reads differs
\* from the number of deliveries that need the daemon only by what requests
\* in flight have committed and not announced: no claim, retry, outbox
\* fan-out, cancellation or lost write drifts it.
BusyCounterExact ==
  phase \in Loop \cup {"drain"} =>
    active + Cardinality(Unannounced) = CountActiveDeliveries

\* inflight, which bounds dispatch and ends drain, counts exactly the live
\* workers; a worker only ever works on a delivery that is still claimed.
InflightExact ==
  /\ \A a \in Actions : inflight[a] = Cardinality(WorkersOf(a))
  /\ \A r \in Rows : workers[r].st # "none" => deliveries[r].state = "claimed"

\* Every message an action emitted comes from a delivery that is done, under
\* the version it was claimed with, to the output queue of that version, and
\* inherits its trace; a delivery that is retried after a crash or a lost
\* write has emitted nothing yet.
OutputsHaveDoneOrigin ==
  \A i \in 1..Len(messages) :
    LET m == messages[i] IN
    m.origin # NoRow =>
      /\ deliveries[m.origin].state = "done"
      /\ deliveries[m.origin].version = m.originVersion
      /\ m.queue = versions[m.origin[2]][m.originVersion].output
      /\ m.trace = messages[m.origin[1]].trace

\* A delivery executes only under a version whose inputs cover its queue and
\* whose filter passes its payload, below the hop limit, however versions are
\* applied, enabled and disabled around the snapshot dispatch works from.
ClaimsAreVetted ==
  \A r \in ClaimedDeliveries :
    Vet(PinnedDef(r), messages[r[1]]) = "claim"

\* A process group recorded in the database belongs to a claimed delivery, so
\* the next daemon signals no group of a delivery that has ended.
PgidOnlyWhileClaimed ==
  \A r \in Rows : deliveries[r].pgid # NoPid => deliveries[r].state = "claimed"

\* Once a daemon serves, a process that none of its workers owns is one whose
\* pgid an earlier daemon did not get to persist: reaping misses no other.
OrphansWereUntracked ==
  phase \in Loop =>
    \A p \in Pids : procs[p] # NoProcess /\ ~Owned(p) => ~procs[p].tracked

\* A claim leaves at most as many executions of the action as the version it
\* pins allows.
ConcurrencyRespected ==
  [][\A r \in Rows :
       workers[r].st = "none" /\ workers'[r].st # "none" =>
         Cardinality(WorkersOf(r[2])') <= PinnedDef(r)'.concurrency]_vars

\* Once action.disable has returned, the action is not claimed for until it is
\* enabled again: only while the control request still waits can a dispatch
\* that loaded the action before claim for it.
NoClaimAfterDisableReturns ==
  [][\A r \in Rows :
       workers[r].st = "none" /\ workers'[r].st # "none" /\ ~enabled[r[2]] =>
         \E h \in Handlers : handlers[h].op = "cancel" /\ handlers[h].action = r[2]]_vars

\* A delivery is executed more often than the versions of its action allow only
\* by as many times as the daemon was restarted: a reset of an orphan does not
\* look at the budget, everything else does.  (One of the versions: a new one
\* may lower the budget below what a delivery that waits has used already.)
AttemptsWithinBudget ==
  \A r \in ClaimedDeliveries :
    \E v \in 1..Len(versions[r[2]]) :
      deliveries[r].attempt <= versions[r[2]][v].maxAttempts + boots - 1

\* A graceful stop ends only when no worker and so no task of this daemon is
\* left.  (It may leave a delivery claimed, which the comment on drain denies:
\* select may take a result while the context is cancelled, and its write fails.
\* The next start resets it.)
StopLeavesNoTask ==
  [][phase' = "stopped" /\ phase # "stopped" =>
       /\ \A p \in Pids : ~Owned(p)
       /\ \A r \in Rows : workers[r].st = "none"]_vars

\* The idle tracker ends the daemon only when every delivery that still needs
\* it was committed by a request that is in flight.
IdleSparesWork ==
  [][idle' = "expired" /\ idle # "expired" =>
       CountActiveDeliveries <= Cardinality(Unannounced)]_vars

-----------------------------------------------------------------------------
(* The inductive invariant behind the theorems of SonataProofs. *)

\* A delivery row has its message in the log.
RowsHaveMessages ==
  \A r \in Rows : deliveries[r].state # "none" => r[1] <= Len(messages)

\* The version a delivery was claimed under is one the action has had.
VersionsExist ==
  \A r \in Rows : deliveries[r].state \in {"claimed", "done"} =>
                    deliveries[r].version \in 1..Len(versions[r[2]])

\* So is the version in the snapshot of a dispatch.
SnapsExist == \A a \in Actions : snap[a] <= Len(versions[a])

\* Workers are in the memory of a daemon whose loop or drain runs, and each
\* works on a claimed delivery.
WorkersHoldClaims ==
  \A r \in Rows : workers[r].st # "none" =>
    phase \in Loop \cup {"drain"} /\ deliveries[r].state = "claimed"

\* The store's part: what any one transaction must find and leave.
PlaneInv ==
  /\ StoreTypeOK
  /\ RowsHaveMessages
  /\ VersionsExist
  /\ OutputsHaveDoneOrigin
  /\ ClaimsAreVetted
  /\ PgidOnlyWhileClaimed

\* Restarts, retries, snapshots that have gone stale and writes that were lost
\* preserve together what makes each delivery's history consistent.
InductiveInv ==
  /\ TypeOK
  /\ PlaneInv
  /\ SnapsExist
  /\ WorkersHoldClaims

-----------------------------------------------------------------------------
(* Liveness, under Fairness. *)

IsActive(r) == r \in ActiveRows

\* Every delivery ends, unless its action is disabled: a nudge is never lost between a dispatch and the
\* select that follows it, a retry is woken by its gate, a full action by the
\* result that frees a slot, a claim of a dead daemon is reaped.
EveryDeliverySettles ==
  \A r \in Rows : IsActive(r) ~> (~IsActive(r) \/ ~enabled[r[2]])

\* A stop that was asked for completes: drain does not wait for a worker that
\* is not there, and no branch of select starves the cancellation.
StopCompletes == ctxDone ~> phase \in Off

-----------------------------------------------------------------------------
(* A statement of the repository's documentation that the code does not keep. *)

\* specs/006: "no delivery can be stranded non-terminal by disable or apply".
\* A delivery of a disabled action ends, unless the action is enabled again.
DisableStrandsNothing ==
  \A r \in Rows :
    (IsActive(r) /\ ~enabled[r[2]]) ~> (~IsActive(r) \/ enabled[r[2]])

=============================================================================
