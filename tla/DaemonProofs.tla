---------------------------- MODULE DaemonProofs ----------------------------
(***************************************************************************)
(* What a daemon leaves to the next one and to its clients, for every      *)
(* number of messages, actions, processes, handlers and daemons: the       *)
(* processes it started and the ones it recorded, the attempts it has      *)
(* used, the actions whose disable has returned, and the refinement of     *)
(* DeliveryPromise.                                                        *)
(***************************************************************************)
EXTENDS CounterProofs

-----------------------------------------------------------------------------
(* Processes. *)

\* A worker has a process from cmd.Start until the task has exited, and no two
\* workers have the same one.
PidsHeld ==
  \A r \in Rows :
    /\ workers[r].pid # NoPid <=> workers[r].st \in {"started", "running"}
    /\ workers[r].pid # NoPid => procs[workers[r].pid].row = r

\* The row of a process whose pgid was persisted has it on record.
TrackedAreRecorded ==
  \A p \in Pids : procs[p].tracked =>
    procs[p].row \in Rows /\ deliveries[procs[p].row].pgid = p

\* While the loop runs, such a process belongs to the worker of its row.
TrackedAreOwned ==
  phase \in Running => \A p \in Pids : procs[p].tracked => workers[procs[p].row].pid = p

ProcInv == PidsHeld /\ TrackedAreRecorded /\ TrackedAreOwned

\* The types that the lemmas on processes use.
LEMMA ProcTypes ==
  ASSUME PlaneInv, MemInv
  PROVE  /\ workers \in [Rows -> Worker] /\ procs \in [Pids -> Process]
         /\ deliveries \in [Rows -> Delivery]
         /\ \A r \in Rows : workers[r].pid \in Pids \cup {NoPid}
         /\ NoPid \notin Pids /\ NoRow \notin Rows
         /\ NoProcess.row = NoRow /\ ~NoProcess.tracked
         /\ NoWorker.st = "none" /\ NoWorker.pid = NoPid
BY StoreAssumption DEF PlaneInv, MemInv, StoreTypeOK, SchedulerTypeOK, Worker, NoProcess,
   NoWorker

\* A process that is on record is on the record of a claimed row, so a step that
\* keeps claimed rows their records keeps every record.
LEMMA SameProcs ==
  ASSUME PlaneInv, ProcInv, UNCHANGED <<workers, procs>>,
         phase' \in Running => phase \in Running,
         \A r \in Rows : deliveries[r].state = "claimed" => deliveries'[r].pgid = deliveries[r].pgid
  PROVE  ProcInv'
<1>1. PidsHeld'
  BY DEF ProcInv, PidsHeld
<1>2. TrackedAreRecorded'
  <2> SUFFICES ASSUME NEW p \in Pids, procs[p].tracked
               PROVE  procs[p].row \in Rows /\ deliveries'[procs[p].row].pgid = p
    BY DEF TrackedAreRecorded
  <2>1. procs[p].row \in Rows /\ deliveries[procs[p].row].pgid = p /\ p # NoPid
    BY StoreAssumption DEF ProcInv, TrackedAreRecorded
  <2>2. deliveries[procs[p].row].state = "claimed"
    BY <2>1 DEF PlaneInv, PgidOnlyWhileClaimed
  <2> QED
    BY <2>1, <2>2
<1>3. TrackedAreOwned'
  BY DEF ProcInv, TrackedAreOwned
<1> QED
  BY <1>1, <1>2, <1>3 DEF ProcInv

\* The memory of no daemon, with processes as they were or gone.
LEMMA ForgottenProcs ==
  ASSUME PlaneInv, MemInv, ProcInv, Forget, phase' \notin Running, deliveries' = deliveries,
         \A p \in Pids : procs'[p] \in {procs[p], NoProcess}
  PROVE  ProcInv'
<1>1. PidsHeld'
  BY ProcTypes DEF Forget, PidsHeld
<1>2. TrackedAreRecorded'
  BY ProcTypes DEF ProcInv, TrackedAreRecorded
<1>3. TrackedAreOwned'
  BY DEF TrackedAreOwned
<1> QED
  BY <1>1, <1>2, <1>3 DEF ProcInv

\* A worker that has no process is replaced by one that has none; the row may
\* be written.
LEMMA NoProcessOfRow ==
  ASSUME PlaneInv, MemInv, ProcInv, phase \in Running, NEW r \in Rows,
         workers[r].st \notin {"started", "running"},
         procs' = procs, NEW w \in Worker, w.st \notin {"started", "running"}, w.pid = NoPid,
         workers' = [workers EXCEPT ![r] = w],
         \A s \in Rows : s # r => deliveries'[s].pgid = deliveries[s].pgid
  PROVE  ProcInv'
<1>0. workers'[r] = w /\ \A s \in Rows : s # r => workers'[s] = workers[s]
  BY ProcTypes
<1>1. \A p \in Pids : procs[p].tracked => procs[p].row # r
  BY ProcTypes DEF ProcInv, PidsHeld, TrackedAreOwned
<1>2. PidsHeld'
  BY <1>0 DEF ProcInv, PidsHeld
<1>3. TrackedAreRecorded'
  BY <1>1 DEF ProcInv, TrackedAreRecorded
<1>4. TrackedAreOwned'
  BY <1>0, <1>1 DEF ProcInv, TrackedAreOwned, TrackedAreRecorded
<1> QED
  BY <1>2, <1>3, <1>4 DEF ProcInv

\* cmd.Start, onStart and the end of a task.
LEMMA WorkersKeepProcs ==
  ASSUME PlaneInv, MemInv, ProcInv, NEW r \in Rows,
         \/ \E p \in Pids : StartProcess(r, p)
         \/ SpawnFails(r) \/ PersistPgid(r) \/ PersistPgidFails(r) \/ TaskExits(r)
  PROVE  ProcInv'
<1>a. phase' = phase /\ phase \in Running
  BY DEF StartProcess, SpawnFails, PersistPgid, PersistPgidFails, TaskExits, Launched, MemInv,
         WorkersHoldClaims, Running
<1>b. /\ \A p \in Pids : procs[p].tracked =>
           /\ procs[p].row \in Rows /\ workers[procs[p].row].pid = p
           /\ deliveries[procs[p].row].pgid = p
      /\ \A s \in Rows :
           /\ workers[s].pid # NoPid <=> workers[s].st \in {"started", "running"}
           /\ workers[s].pid # NoPid => procs[workers[s].pid].row = s
  BY <1>a DEF ProcInv, PidsHeld, TrackedAreRecorded, TrackedAreOwned
<1>1. ASSUME NEW p \in Pids, StartProcess(r, p)
      PROVE  ProcInv'
  <2>1. /\ procs[p] = NoProcess /\ deliveries' = deliveries
        /\ procs'[p] = [row |-> r, tracked |-> FALSE]
        /\ \A o \in Pids : o # p => procs'[o] = procs[o]
        /\ workers'[r] = [st |-> "started", pid |-> p] /\ workers[r].st = "launched"
        /\ \A s \in Rows : s # r => workers'[s] = workers[s]
    BY <1>1, ProcTypes DEF StartProcess, Launched, storeVars
  <2>2. PidsHeld'
    <3> SUFFICES ASSUME NEW s \in Rows
                 PROVE  /\ workers'[s].pid # NoPid <=> workers'[s].st \in {"started", "running"}
                        /\ workers'[s].pid # NoPid => procs'[workers'[s].pid].row = s
      BY DEF PidsHeld
    <3>1. CASE s = r
      BY <2>1, <3>1, ProcTypes
    <3>2. CASE s # r
      <4>1. workers[s].pid # p
        BY <1>b, <2>1, ProcTypes
      <4> QED
        BY <1>b, <2>1, <3>2, <4>1, ProcTypes
    <3> QED
      BY <3>1, <3>2
  <2>3. TrackedAreRecorded'
    BY <1>b, <2>1 DEF TrackedAreRecorded
  <2>4. TrackedAreOwned'
    BY <1>b, <2>1, ProcTypes DEF TrackedAreOwned
  <2> QED
    BY <2>2, <2>3, <2>4 DEF ProcInv
<1>2. CASE SpawnFails(r)
  <2> DEFINE w == [workers[r] EXCEPT !.st = "unspawned"]
  <2>1. workers[r].st = "launched" /\ workers' = [workers EXCEPT ![r] = w]
    BY <1>2, ProcTypes DEF SpawnFails, Launched
  <2>2. w \in Worker /\ w.st = "unspawned" /\ w.pid = NoPid
    BY <1>b, <2>1, ProcTypes DEF Worker
  <2>3. procs' = procs /\ deliveries' = deliveries
    BY <1>2 DEF SpawnFails, storeVars
  <2> HIDE DEF w
  <2> QED
    BY <1>a, <2>1, <2>2, <2>3, NoProcessOfRow
<1>3. CASE PersistPgid(r)
  <2> DEFINE o == workers[r].pid
  <2>1. /\ workers[r].st = "started" /\ o \in Pids
        /\ workers'[r].st = "running" /\ workers'[r].pid = o
        /\ \A s \in Rows : s # r => workers'[s] = workers[s]
    BY <1>3, <1>b, ProcTypes DEF PersistPgid, Worker
  <2>2. /\ procs'[o].row = r /\ \A p \in Pids : p # o => procs'[p] = procs[p]
    BY <1>3, <1>b, <2>1, ProcTypes DEF PersistPgid, Process
  <2>3. deliveries'[r].pgid = o /\ \A s \in Rows : s # r => deliveries'[s] = deliveries[s]
    BY <1>3, PgidEffect
  <2>4. PidsHeld'
    <3> SUFFICES ASSUME NEW s \in Rows
                 PROVE  /\ workers'[s].pid # NoPid <=> workers'[s].st \in {"started", "running"}
                        /\ workers'[s].pid # NoPid => procs'[workers'[s].pid].row = s
      BY DEF PidsHeld
    <3>1. CASE s = r
      BY <2>1, <2>2, <3>1, ProcTypes
    <3>2. CASE s # r
      <4>1. workers[s].pid # o
        BY <1>b, <2>1, <3>2, ProcTypes
      <4> QED
        BY <1>b, <2>1, <2>2, <3>2, <4>1, ProcTypes
    <3> QED
      BY <3>1, <3>2
  <2>5. \A p \in Pids : p # o /\ procs[p].tracked => procs[p].row # r
    BY <1>b
  <2>6. TrackedAreRecorded'
    BY <1>b, <2>1, <2>2, <2>3, <2>5 DEF TrackedAreRecorded
  <2>7. TrackedAreOwned'
    BY <1>b, <2>1, <2>2, <2>5 DEF TrackedAreOwned
  <2> QED
    BY <2>4, <2>6, <2>7 DEF ProcInv
<1>4. CASE PersistPgidFails(r)
  <2>1. /\ workers[r].st = "started" /\ workers'[r].st = "running"
        /\ \A s \in Rows : workers'[s].pid = workers[s].pid
        /\ \A s \in Rows : s # r => workers'[s] = workers[s]
        /\ procs' = procs /\ deliveries' = deliveries
    BY <1>4, ProcTypes DEF PersistPgidFails, Worker, storeVars
  <2>2. PidsHeld'
    BY <1>b, <2>1 DEF PidsHeld
  <2>3. TrackedAreRecorded' /\ TrackedAreOwned'
    BY <1>b, <2>1 DEF TrackedAreRecorded, TrackedAreOwned
  <2> QED
    BY <2>2, <2>3 DEF ProcInv
<1>5. CASE TaskExits(r)
  <2> DEFINE o == workers[r].pid
  <2>1. /\ workers[r].st = "running" /\ o \in Pids
        /\ workers'[r] = [st |-> "exited", pid |-> NoPid]
        /\ \A s \in Rows : s # r => workers'[s] = workers[s]
        /\ procs'[o] = NoProcess /\ \A p \in Pids : p # o => procs'[p] = procs[p]
        /\ deliveries' = deliveries
    BY <1>5, <1>b, ProcTypes DEF TaskExits, storeVars
  <2>2. PidsHeld'
    <3> SUFFICES ASSUME NEW s \in Rows
                 PROVE  /\ workers'[s].pid # NoPid <=> workers'[s].st \in {"started", "running"}
                        /\ workers'[s].pid # NoPid => procs'[workers'[s].pid].row = s
      BY DEF PidsHeld
    <3>1. CASE s = r
      BY <2>1, <3>1
    <3>2. CASE s # r
      <4>1. workers[s].pid # o
        BY <1>b, <2>1, <3>2, ProcTypes
      <4> QED
        BY <1>b, <2>1, <3>2, <4>1, ProcTypes
    <3> QED
      BY <3>1, <3>2
  <2>3. \A p \in Pids : p # o /\ procs[p].tracked => procs[p].row # r
    BY <1>b
  <2>4. TrackedAreRecorded' /\ TrackedAreOwned'
    BY <1>b, <2>1, <2>3, ProcTypes DEF TrackedAreRecorded, TrackedAreOwned
  <2> QED
    BY <2>2, <2>4 DEF ProcInv
<1> QED
  BY <1>1, <1>2, <1>3, <1>4, <1>5

\* apply and the claim write a row whose worker has no process.
LEMMA RowsKeepProcs ==
  ASSUME PlaneInv, MemInv, ProcInv, NEW r \in Rows,
         ApplyResult(r) \/ ApplyLost(r) \/ \E a \in Actions : ClaimAndLaunch(r, a)
  PROVE  ProcInv'
<1>1. CASE ApplyResult(r) \/ ApplyLost(r)
  <2>1. /\ workers[r].st \in {"exited", "unspawned"} /\ TakeResult(r)
    BY <1>1 DEF ApplyResult, ApplyLost, ApplyFailed, ApplyDone
  <2>2. /\ phase \in Running /\ procs' = procs
        /\ workers' = [workers EXCEPT ![r] = NoWorker]
    BY <2>1 DEF TakeResult, Running, Loop
  <2>3. \A s \in Rows : s # r => deliveries'[s].pgid = deliveries[s].pgid
    <3>1. CASE ApplyFailed(r)
      BY <3>1, FailEffect
    <3>2. CASE ApplyLost(r)
      BY <3>2 DEF ApplyLost, storeVars
    <3>3. ASSUME NEW lines \in Lines, ApplyDone(r, lines)
          PROVE  \A s \in Rows : s # r => deliveries'[s].pgid = deliveries[s].pgid
      <4> DEFINE q == PinnedDef(r).output
      <4>1. PICK outs \in Seq(Message) :
              /\ Len(messages) + Len(outs) <= MaxMessages
              /\ \A s \in Rows : s # r =>
                   deliveries'[s] = IF s \in NewRows(Len(outs), q) THEN PendingDelivery
                                    ELSE deliveries[s]
        BY <3>3, DoneEffect
      <4>2. \A s \in NewRows(Len(outs), q) : s \in Rows /\ deliveries[s].state = "none"
        <5>1. Len(outs) \in Nat /\ NewRows(Len(outs), q) \subseteq Rows
          BY DEF NewRows
        <5> QED
          BY <4>1, <5>1, NewRowsCounted
      <4>3. \A s \in NewRows(Len(outs), q) : deliveries[s].pgid = NoPid
        BY <4>2 DEF PlaneInv, PgidOnlyWhileClaimed
      <4> QED
        BY <4>1, <4>3 DEF PendingDelivery, NoDelivery
    <3> QED
      BY <1>1, <3>1, <3>2, <3>3 DEF ApplyResult
  <2>4. NoWorker \in Worker
    BY DEF NoWorker, Worker
  <2> QED
    BY <2>1, <2>2, <2>3, <2>4, NoProcessOfRow, ProcTypes
<1>2. ASSUME NEW a \in Actions, ClaimAndLaunch(r, a)
      PROVE  ProcInv'
  <2> DEFINE w == [st |-> "launched", pid |-> NoPid]
  <2>1. /\ phase \in Running /\ workers[r].st = "none"
        /\ \A s \in Rows : s # r => deliveries'[s].pgid = deliveries[s].pgid
    BY <1>2, ClaimEffect DEF Running, Loop
  <2>2. workers' = [workers EXCEPT ![r] = w] /\ procs' = procs
    BY <1>2 DEF ClaimAndLaunch
  <2>3. w \in Worker /\ w.st = "launched" /\ w.pid = NoPid
    BY DEF Worker
  <2> HIDE DEF w
  <2> QED
    BY <2>1, <2>2, <2>3, NoProcessOfRow
<1> QED
  BY <1>1, <1>2

\* Processes are killed by reaping, or end without their daemon.
LEMMA EndsKeepProcs ==
  ASSUME PlaneInv, MemInv, ProcInv,
         \/ \E r \in Rows : ReapOrphan(r) \/ CrashInReap(r)
         \/ \E p \in Pids : OrphanExits(p)
         \/ StopDaemon \/ Crash \/ SeedAndServe
  PROVE  ProcInv'
<1>1. ASSUME NEW r \in Rows, ReapOrphan(r)
      PROVE  ProcInv'
  <2>1. /\ deliveries'[r].pgid = NoPid /\ UNCHANGED <<workers, phase>>
        /\ \A s \in Rows : s # r => deliveries'[s] = deliveries[s]
    BY <1>1, ResetEffect DEF schedVars
  <2>2. \A p \in Pids : procs'[p] = IF p = deliveries[r].pgid THEN NoProcess ELSE procs[p]
    BY <1>1 DEF ReapOrphan, KillGroupOf
  <2>3. phase = "reaping" /\ phase \notin Running
    BY <1>1 DEF ReapOrphan, Running, Loop
  <2>4. \A s \in Rows : workers[s].pid = NoPid
    BY <2>3 DEF ProcInv, PidsHeld, MemInv, WorkersHoldClaims, Running
  <2>5. PidsHeld'
    BY <2>1, <2>4 DEF ProcInv, PidsHeld
  <2>6. TrackedAreRecorded'
    <3> SUFFICES ASSUME NEW p \in Pids, procs'[p].tracked
                 PROVE  procs'[p].row \in Rows /\ deliveries'[procs'[p].row].pgid = p
      BY DEF TrackedAreRecorded
    <3>1. p # deliveries[r].pgid /\ procs'[p] = procs[p]
      BY <2>2, ProcTypes
    <3> QED
      BY <2>1, <3>1 DEF ProcInv, TrackedAreRecorded
  <2> QED
    BY <2>1, <2>3, <2>5, <2>6 DEF ProcInv, TrackedAreOwned
<1>2. CASE StopDaemon \/ Crash \/ \E r \in Rows : CrashInReap(r)
  <2>1. Forget /\ phase' \notin Running /\ deliveries' = deliveries
    BY <1>2 DEF StopDaemon, Drained, Crash, CrashInReap, ReapInterrupted, Running, Loop, storeVars
  <2>2. \A p \in Pids : procs'[p] \in {procs[p], NoProcess}
    BY <1>2 DEF StopDaemon, Drained, Crash, CrashInReap, ReapInterrupted, KillGroupOf
  <2> QED
    BY <2>1, <2>2, ForgottenProcs
<1>3. ASSUME NEW p \in Pids, OrphanExits(p)
      PROVE  ProcInv'
  <2>1. /\ \A r \in Rows : workers[r].pid # p
        /\ procs'[p] = NoProcess /\ \A o \in Pids : o # p => procs'[o] = procs[o]
        /\ UNCHANGED <<workers, phase, deliveries>>
    BY <1>3, ProcTypes DEF OrphanExits, Owned, storeVars, schedVars
  <2>2. PidsHeld'
    BY <2>1, ProcTypes DEF ProcInv, PidsHeld
  <2>3. TrackedAreRecorded' /\ TrackedAreOwned'
    BY <2>1, ProcTypes DEF ProcInv, TrackedAreRecorded, TrackedAreOwned
  <2> QED
    BY <2>2, <2>3 DEF ProcInv
<1>4. CASE SeedAndServe
  <2>1. UNCHANGED <<workers, procs, deliveries>> /\ \A r \in Rows : deliveries[r].state # "claimed"
    BY <1>4 DEF SeedAndServe, storeVars, ClaimedDeliveries, InState
  <2>2. \A p \in Pids : ~procs[p].tracked
    <3>1. \A r \in Rows : deliveries[r].pgid = NoPid
      BY <2>1 DEF PlaneInv, PgidOnlyWhileClaimed
    <3> QED
      BY <3>1, ProcTypes DEF ProcInv, TrackedAreRecorded
  <2> QED
    BY <2>1, <2>2 DEF ProcInv, PidsHeld, TrackedAreRecorded, TrackedAreOwned
<1> QED
  BY <1>1, <1>2, <1>3, <1>4
\* Every step, and stuttering, keeps the processes accounted for.
LEMMA NextKeepsProcs == InductiveInv /\ ProcInv /\ [Next]_vars => ProcInv'
<1> SUFFICES ASSUME PlaneInv, MemInv, ProcInv, [Next]_vars
             PROVE  ProcInv'
  BY InvParts
<1>1. CASE \/ LoadActions \/ DispatchAborted \/ BeginDrain
           \/ \E a \in Actions : ActionExhausted(a) \/ DispatchFails(a)
           \/ WakeOnNudge \/ WakeOnRetryTimer \/ WakeOnIdleTimer
  <2>1. UNCHANGED <<workers, procs, deliveries>>
    BY <1>1 DEF LoadActions, DispatchAborted, ActionExhausted, DispatchFails, Advance,
       WakeOnNudge, WakeOnRetryTimer, WakeOnIdleTimer, BeginDrain, storeVars
  <2>2. phase \in Running
    BY <1>1 DEF LoadActions, DispatchAborted, ActionExhausted, DispatchFails, AtAction,
       WakeOnNudge, WakeOnRetryTimer, WakeOnIdleTimer, BeginDrain, Wake, Running, Loop
  <2> QED
    BY <2>1, <2>2, SameProcs
<1>2. ASSUME NEW r \in Rows, NEW a \in Actions, Resolve(r, a)
      PROVE  ProcInv'
  <2>1. \A s \in Rows : deliveries[s].state = "claimed" => deliveries'[s] = deliveries[s]
    BY <1>2, ResolveEffect
  <2> QED
    BY <1>2, <2>1, SameProcs DEF Resolve
<1>3. ASSUME NEW r \in Rows, TimePasses(r)
      PROVE  ProcInv'
  <2>1. \A s \in Rows : deliveries'[s].pgid = deliveries[s].pgid
    BY <1>3, GateEffect
  <2> QED
    BY <1>3, <2>1, SameProcs DEF TimePasses, schedVars
<1>4. CASE InternalStep
  BY <1>4, <1>1, <1>2, <1>3, WorkersKeepProcs, RowsKeepProcs, EndsKeepProcs
     DEF InternalStep, LoopStep, WorkerStep, ReapStep, FaultStep
<1>5. CASE ClientStep
  <2>1. UNCHANGED <<workers, procs, phase>>
    BY <1>5 DEF ClientStep, MessageSend, DeliveryReplay, ActionDisable, schedVars
  <2>2. \A s \in Rows : deliveries[s].state = "claimed" => deliveries'[s] = deliveries[s]
    <3>1. ASSUME NEW h \in Handlers, NEW q \in Queues, NEW p \in Payloads, MessageSend(h, q, p)
          PROVE  \A s \in Rows : deliveries[s].state = "claimed" => deliveries'[s] = deliveries[s]
      <4>1. /\ Len(messages) + 1 <= MaxMessages
            /\ \A s \in Rows : deliveries'[s] = IF s \in NewRows(1, q) THEN PendingDelivery
                                                ELSE deliveries[s]
        BY <3>1, SendEffect
      <4>2. \A s \in NewRows(1, q) : deliveries[s].state = "none"
        BY <4>1, NewRowsCounted
      <4> QED
        BY <4>1, <4>2
    <3>2. ASSUME NEW h \in Handlers, NEW r \in Rows, DeliveryReplay(h, r)
          PROVE  \A s \in Rows : deliveries[s].state = "claimed" => deliveries'[s] = deliveries[s]
      BY <3>2, ReplayEffect
    <3>3. ASSUME NEW h \in Handlers, NEW a \in Actions, ActionDisable(h, a)
          PROVE  deliveries' = deliveries
      BY <3>3 DEF ActionDisable, SetActionEnabled
    <3> QED
      BY <1>5, <3>1, <3>2, <3>3 DEF ClientStep
  <2> QED
    BY <2>1, <2>2, SameProcs
<1>6. ASSUME NEW h \in Handlers, CancelAction(h)
      PROVE  ProcInv'
  <2> DEFINE a == handlers[h].action
  <2>1. phase \in Running /\ UNCHANGED <<workers, procs>>
    BY <1>6 DEF CancelAction, HandleCtrl, Wake, Running, Loop
  <2>2. CancelDeliveries(a) \/ deliveries' = deliveries
    BY <1>6 DEF CancelAction, HandleCtrl, storeVars
  <2>3. \A s \in Rows : deliveries[s].state = "claimed" => deliveries'[s] = deliveries[s]
    BY <2>2, CancelEffect
  <2> QED
    BY <2>1, <2>3, SameProcs
<1>7. CASE \/ ConfigStep \/ IdleReadsInFlight \/ IdleReadsBusy \/ StopScheduler \/ StartDaemon
           \/ \E h \in Handlers : WorkAdded(h) \/ CancelAbandoned(h)
           \/ UNCHANGED vars
  <2>1. UNCHANGED <<workers, procs, deliveries>>
    BY <1>7 DEF ConfigStep, ActionEnable, ActionApply, SetActionEnabled, ApplyAction, WorkAdded,
       CancelAbandoned, IdleReadsInFlight, IdleReadsBusy, StopScheduler, StartDaemon, Boot,
       storeVars, schedVars, vars
  <2>2. phase' \in Running => phase \in Running
    BY <1>7 DEF ConfigStep, ActionEnable, ActionApply, WorkAdded, CancelAbandoned,
       IdleReadsInFlight, IdleReadsBusy, StopScheduler, StartDaemon, Boot, schedVars, vars,
       Running, Loop
  <2> QED
    BY <2>1, <2>2, SameProcs
<1>8. CASE StopDaemon \/ Crash \/ \E r \in Rows : CrashInReap(r)
  BY <1>8, EndsKeepProcs
<1> QED
  BY <1>4, <1>5, <1>6, <1>7, <1>8 DEF Next

\* No process at first.
LEMMA InitProcs == Init => ProcInv
<1> SUFFICES ASSUME Init PROVE ProcInv
  OBVIOUS
<1>1. \A r \in Rows : workers[r].st = "none" /\ workers[r].pid = NoPid
  BY DEF Init, SchedulerInit, NoWorker
<1>2. \A p \in Pids : ~procs[p].tracked
  BY DEF Init, SchedulerInit, NoProcess
<1> QED
  BY <1>1, <1>2 DEF ProcInv, PidsHeld, TrackedAreRecorded, TrackedAreOwned

\* In every state the system reaches, workers have the processes they started,
\* and persisted process groups are on record where reaping looks for them.
THEOREM ProcessesHold == Spec => []ProcInv
BY InitProcs, NextKeepsProcs, InductiveInvHolds, PTL DEF Spec

\* Reaping misses no process but those whose pgid an earlier daemon had not
\* persisted: once a daemon serves, a process with a persisted pgid is its own.
THEOREM OrphansUntracked == Spec => []OrphansWereUntracked
<1>1. TypeOK /\ ProcInv => OrphansWereUntracked
  <2> SUFFICES ASSUME ProcInv, phase \in Loop, NEW p \in Pids, ~Owned(p), procs[p].tracked
               PROVE  FALSE
    BY DEF OrphansWereUntracked
  <2>1. procs[p].row \in Rows /\ workers[procs[p].row].pid = p
    BY DEF ProcInv, TrackedAreRecorded, TrackedAreOwned, Running
  <2> QED
    BY <2>1 DEF Owned
<1> QED
  BY <1>1, TypeCorrect, ProcessesHold, PTL

\* A graceful stop ends only when no worker and no task of the daemon is left:
\* drain waits on counters, and the counters do not lie.
THEOREM StopLeavesNone == Spec => StopLeavesNoTask
<1> DEFINE Clean == phase' = "stopped" /\ phase # "stopped" =>
                      /\ \A p \in Pids : ~Owned(p)
                      /\ \A r \in Rows : workers[r].st = "none"
<1>1. InductiveInv /\ CountersInv /\ ProcInv /\ [Next]_vars => Clean
  <2> SUFFICES ASSUME PlaneInv, MemInv, CountersInv, ProcInv, [Next]_vars,
                      phase' = "stopped", phase # "stopped"
               PROVE  /\ \A p \in Pids : ~Owned(p)
                      /\ \A r \in Rows : workers[r].st = "none"
    BY InvParts
  <2>1. StopDaemon
    <3>1. CASE InternalStep
      <4>1. CASE LoopStep
        BY <4>1 DEF LoopStep, LoadActions, DispatchAborted, ActionExhausted, Advance, Resolve,
           ClaimAndLaunch, WakeOnNudge, WakeOnRetryTimer, Wake
      <4>2. CASE \E r \in Rows : ApplyResult(r) \/ WorkerStep(r) \/ TimePasses(r)
        BY <4>2 DEF ApplyResult, ApplyDone, ApplyFailed, TakeResult, WorkerStep, StartProcess,
           PersistPgid, TaskExits, TimePasses, schedVars
      <4>3. CASE FaultStep
        BY <4>3 DEF FaultStep, DispatchFails, Advance, ApplyLost, TakeResult, SpawnFails,
           PersistPgidFails, WakeOnIdleTimer, Wake
      <4>4. CASE (\E p \in Pids : OrphanExits(p)) \/ BeginDrain \/ ReapStep
        BY <4>4 DEF OrphanExits, BeginDrain, ReapStep, ReapOrphan, SeedAndServe, schedVars
      <4> QED
        BY <3>1, <4>1, <4>2, <4>3, <4>4 DEF InternalStep
    <3>2. CASE \/ ClientStep \/ ConfigStep
               \/ \E h \in Handlers : WorkAdded(h) \/ CancelAction(h) \/ CancelAbandoned(h)
               \/ IdleReadsInFlight \/ IdleReadsBusy \/ StopScheduler \/ Crash \/ StartDaemon
               \/ \E r \in Rows : CrashInReap(r)
               \/ UNCHANGED vars
      BY <3>2 DEF ClientStep, MessageSend, DeliveryReplay, ActionDisable, ConfigStep,
         ActionEnable, ActionApply, WorkAdded, CancelAction, HandleCtrl, Wake, CancelAbandoned,
         IdleReadsInFlight, IdleReadsBusy, StopScheduler, Crash, StartDaemon, Boot, CrashInReap,
         ReapInterrupted, vars, schedVars
    <3> QED
      BY <3>1, <3>2 DEF Next
  <2>2. \A a \in Actions : WorkersOf(a) = {}
    <3> SUFFICES ASSUME NEW a \in Actions
                 PROVE  WorkersOf(a) = {}
      OBVIOUS
    <3>1. inflight[a] <= 0 /\ inflight[a] = Cardinality(WorkersOf(a))
      BY <2>1 DEF StopDaemon, Drained, CountersInv, InflightCounts
    <3>2. IsFiniteSet(WorkersOf(a)) /\ Cardinality(WorkersOf(a)) \in Nat
      BY CountedAreFinite, FS_CardinalityType
    <3>3. Cardinality(WorkersOf(a)) = 0
      BY <3>1, <3>2
    <3> QED
      BY <3>2, <3>3, FS_EmptySet
  <2>3. \A r \in Rows : workers[r].st = "none"
    BY <2>2, RowParts DEF WorkersOf
  <2>4. \A r \in Rows : workers[r].pid = NoPid
    BY <2>3 DEF ProcInv, PidsHeld
  <2> QED
    BY <2>3, <2>4, StoreAssumption DEF Owned
<1> QED
  BY <1>1, InductiveInvHolds, CountersHold, ProcessesHold, PTL DEF Spec, StopLeavesNoTask

-----------------------------------------------------------------------------
(* Attempts. *)

\* The attempts of r, and spare more, are within the budget of some version and
\* the restarts.
Within(r, spare) ==
  \E v \in 1..Len(versions[r[2]]) :
    deliveries[r].attempt + spare <= versions[r[2]][v].maxAttempts + boots

\* A pending row is new; a failed one may be claimed once more; and a claimed
\* one may, after the restart that makes it an orphan.
RowBudget(r) ==
  /\ deliveries[r].state = "pending" => deliveries[r].attempt = 0
  /\ deliveries[r].state = "failed" => Within(r, 2)
  /\ deliveries[r].state = "claimed" => Within(r, IF phase = "reaping" THEN 2 ELSE 1)

BudgetInv ==
  /\ phase \notin Off => boots >= 1
  /\ \A r \in Rows : RowBudget(r)

\* The types that the lemmas on attempts use.
LEMMA BudgetTypes ==
  ASSUME PlaneInv, MemInv
  PROVE  /\ boots \in Nat
         /\ \A r \in Rows : deliveries[r].attempt \in Nat
         /\ \A r \in Rows : r[2] \in Actions
         /\ \A a \in Actions : versions[a] \in Seq(Defs) /\ Len(versions[a]) \in Nat
         /\ \A a \in Actions : \A v \in 1..Len(versions[a]) :
              versions[a][v].maxAttempts \in Nat \ {0}
<1>1. boots \in Nat
  BY SonataAssumption DEF MemInv, ApiTypeOK
<1>2. \A r \in Rows : deliveries[r].attempt \in Nat
  BY DEF PlaneInv, StoreTypeOK, Delivery
<1>3. \A a \in Actions : versions[a] \in Seq(Defs) /\ Len(versions[a]) \in Nat
  BY DEF PlaneInv, StoreTypeOK
<1>4. \A d \in Defs : d.maxAttempts \in Nat \ {0}
  BY StoreAssumption DEF Definition
<1>5. \A a \in Actions : \A v \in 1..Len(versions[a]) : versions[a][v] \in Defs
  BY <1>3
<1> QED
  BY <1>1, <1>2, <1>3, <1>4, <1>5, RowParts

\* The arithmetic of budgets: x attempts, a budget of y, b restarts.
LEMMA BudgetArithmetic ==
  ASSUME NEW x \in Nat, NEW y \in Nat, NEW b \in Nat
  PROVE  /\ \A n, m \in Nat : m <= n /\ x + n <= y + b => x + m <= y + b
         /\ \A n \in Nat : x + n <= y + b => x + (n + 1) <= y + (b + 1)
         /\ \A n \in Nat \ {0} : x + n <= y + b => x <= y + b - 1
         /\ ~(x >= y) /\ b >= 1 => x + 2 <= y + b
OBVIOUS

\* The versions of an action stay when others are added.
VersionsGrow ==
  \A a \in Actions : \A v \in 1..Len(versions[a]) :
    v \in 1..Len(versions'[a]) /\ versions'[a][v] = versions[a][v]

\* action.apply, the only step that writes the registry's versions, adds one.
LEMMA ApplyGrows ==
  ASSUME PlaneInv, NEW d \in Defs, ActionApply(d)
  PROVE  VersionsGrow
<1>1. /\ versions \in [Actions -> Seq(Defs)] /\ d.name \in Actions
      /\ versions' = [versions EXCEPT ![d.name] = Append(@, d)]
  BY StoreAssumption DEF PlaneInv, StoreTypeOK, ActionApply, ApplyAction, Definition
<1> SUFFICES ASSUME NEW a \in Actions, NEW v \in 1..Len(versions[a])
             PROVE  v \in 1..Len(versions'[a]) /\ versions'[a][v] = versions[a][v]
  BY DEF VersionsGrow
<1>2. CASE a # d.name
  BY <1>1, <1>2
<1>3. CASE a = d.name
  <2> DEFINE s == versions[a]
  <2>1. s \in Seq(Defs) /\ versions'[a] = Append(s, d)
    BY <1>1, <1>3
  <2> HIDE DEF s
  <2>2. Len(s) \in Nat /\ Len(Append(s, d)) = Len(s) + 1
        /\ \A k \in 1..Len(s) : Append(s, d)[k] = s[k]
    BY <2>1
  <2> QED
    BY <2>1, <2>2 DEF s
<1> QED
  BY <1>2, <1>3

\* A row whose state and attempts stay keeps its budget, in a step that starts
\* no daemon.
LEMMA SameBudget ==
  ASSUME PlaneInv, MemInv, NEW r \in Rows, RowBudget(r), VersionsGrow, boots' = boots,
         phase' = "reaping" => phase = "reaping",
         deliveries'[r].state = deliveries[r].state,
         deliveries'[r].attempt = deliveries[r].attempt
  PROVE  RowBudget(r)'
<1>1. ASSUME NEW n \in Nat, NEW m \in Nat, m <= n, Within(r, n)
      PROVE  \E v \in 1..Len(versions'[r[2]]) :
               deliveries[r].attempt + m <= versions'[r[2]][v].maxAttempts + boots
  <2>1. PICK v \in 1..Len(versions[r[2]]) :
          deliveries[r].attempt + n <= versions[r[2]][v].maxAttempts + boots
    BY <1>1 DEF Within
  <2>2. deliveries[r].attempt + m <= versions[r[2]][v].maxAttempts + boots
    <3>1. /\ deliveries[r].attempt \in Nat /\ boots \in Nat
          /\ versions[r[2]][v].maxAttempts \in Nat
      BY BudgetTypes
    <3> QED
      BY ONLY <1>1, <2>1, <3>1, BudgetArithmetic
  <2>3. v \in 1..Len(versions'[r[2]]) /\ versions'[r[2]][v] = versions[r[2]][v]
    BY RowParts DEF VersionsGrow
  <2> QED
    BY <2>2, <2>3
<1>2. \A n \in Nat, m \in Nat : m <= n /\ Within(r, n) => Within(r, m)'
  BY <1>1 DEF Within
<1> QED
  BY <1>2 DEF RowBudget

\* Steps that leave every attempt as it is.
LEMMA AllSameBudget ==
  ASSUME PlaneInv, MemInv, BudgetInv, VersionsGrow, boots' = boots,
         phase' \in Off \/ (phase \notin Off /\ (phase' = "reaping" => phase = "reaping")),
         \A r \in Rows : /\ deliveries'[r].state = deliveries[r].state
                         /\ deliveries'[r].attempt = deliveries[r].attempt
  PROVE  BudgetInv'
<1>1. phase' \notin Off => boots' >= 1
  BY DEF BudgetInv
<1>2. phase' = "reaping" => phase = "reaping"
  BY DEF Off
<1> QED
  BY <1>1, <1>2, SameBudget DEF BudgetInv

\* Steps that write one row, in a loop that runs: the others keep their budget.
LEMMA OneRowBudget ==
  ASSUME PlaneInv, MemInv, BudgetInv, NEW r \in Rows, RowBudget(r)',
         UNCHANGED <<versions, boots>>, phase \notin Off, phase' = "reaping" => phase = "reaping",
         \A s \in Rows : s # r => deliveries'[s] = deliveries[s]
  PROVE  BudgetInv'
<1>1. VersionsGrow
  BY DEF VersionsGrow
<1>2. ASSUME NEW s \in Rows, s # r PROVE RowBudget(s)'
  BY <1>1, <1>2, SameBudget DEF BudgetInv
<1> QED
  BY <1>2 DEF BudgetInv

\* The steps that write rows.  A claim takes the one attempt that its row has
\* spare, or the first; a failure is retried only below the budget of the
\* version it ran under; a reset takes nothing.
LEMMA RowsKeepBudget ==
  ASSUME PlaneInv, MemInv, BudgetInv, boots' = boots, NEW r \in Rows,
         \/ \E a \in Actions : Resolve(r, a) \/ ClaimAndLaunch(r, a)
         \/ ApplyFailed(r) \/ ReapOrphan(r) \/ \E h \in Handlers : DeliveryReplay(h, r)
  PROVE  BudgetInv'
<1>a. RowBudget(r)
  BY DEF BudgetInv
<1>b. /\ deliveries[r].attempt \in Nat /\ boots \in Nat
      /\ r[2] \in Actions /\ Len(versions[r[2]]) \in Nat
      /\ \A v \in 1..Len(versions[r[2]]) : versions[r[2]][v].maxAttempts \in Nat \ {0}
  BY BudgetTypes
<1>c. phase \notin Off => boots >= 1
  BY DEF BudgetInv
<1>1. ASSUME NEW a \in Actions, Resolve(r, a)
      PROVE  BudgetInv'
  <2>1. phase \notin Off /\ phase' = phase
    BY <1>1 DEF Resolve, AtAction, Off
  <2>2. RowBudget(r)'
    BY <1>1, ResolveEffect DEF RowBudget
  <2> QED
    BY <1>1, <2>1, <2>2, ResolveEffect, OneRowBudget
<1>2. ASSUME NEW a \in Actions, ClaimAndLaunch(r, a)
      PROVE  BudgetInv'
  <2>1. phase \notin Off /\ phase' = phase /\ phase # "reaping"
    BY <1>2 DEF ClaimAndLaunch, AtAction, Off
  <2>2. /\ r[2] = a /\ snap[a] # 0
        /\ deliveries[r].state \in {"pending", "failed"} /\ deliveries'[r].state = "claimed"
        /\ deliveries'[r].attempt = deliveries[r].attempt + 1
        /\ \A s \in Rows : s # r => deliveries'[s] = deliveries[s]
        /\ versions' = versions
    BY <1>2, ClaimEffect
  <2>3. snap[a] \in 1..Len(versions[a])
    BY <2>2, Lookups DEF MemInv
  <2>4. \E v \in 1..Len(versions[r[2]]) :
          deliveries[r].attempt + 2 <= versions[r[2]][v].maxAttempts + boots
    <3>1. CASE deliveries[r].state = "failed"
      BY <3>1, <1>a DEF RowBudget, Within
    <3>2. CASE deliveries[r].state = "pending"
      <4>1. deliveries[r].attempt = 0
        BY <3>2, <1>a DEF RowBudget
      <4>2. versions[r[2]][snap[a]].maxAttempts \in Nat \ {0} /\ boots >= 1
        BY <1>b, <1>c, <2>1, <2>2, <2>3
      <4>3. deliveries[r].attempt + 2 <= versions[r[2]][snap[a]].maxAttempts + boots
        BY <1>b, <4>1, <4>2
      <4> QED
        BY <2>2, <2>3, <4>3
    <3> QED
      BY <2>2, <3>1, <3>2
  <2>5. (deliveries[r].attempt + 1) + 1 = deliveries[r].attempt + 2
    BY <1>b
  <2>6. Within(r, 1)'
    BY <2>2, <2>4, <2>5 DEF Within
  <2>7. RowBudget(r)'
    BY <2>1, <2>2, <2>6 DEF RowBudget
  <2> QED
    BY <2>1, <2>2, <2>7, OneRowBudget
<1>3. CASE ApplyFailed(r)
  <2> DEFINE max == PinnedDef(r).maxAttempts
  <2>1. /\ deliveries[r].state = "claimed" /\ TakeResult(r)
        /\ deliveries'[r].state = IF deliveries[r].attempt >= max THEN "dead" ELSE "failed"
        /\ deliveries'[r].attempt = deliveries[r].attempt
        /\ \A s \in Rows : s # r => deliveries'[s] = deliveries[s]
        /\ versions' = versions
    BY <1>3, FailEffect
  <2>2. phase \notin Off /\ phase' # "reaping"
    BY <2>1 DEF TakeResult, Off
  <2>3. deliveries[r].version \in 1..Len(versions[r[2]])
    BY <2>1 DEF PlaneInv, VersionsExist
  <2>4. max = versions[r[2]][deliveries[r].version].maxAttempts /\ max \in Nat
    BY <1>b, <2>3 DEF PinnedDef
  <2> HIDE DEF max
  <2>5. ~(deliveries[r].attempt >= max) => deliveries[r].attempt + 2 <= max + boots
    <3>1. boots >= 1
      BY <1>c, <2>2
    <3> QED
      BY ONLY <1>b, <2>4, <3>1, BudgetArithmetic
  <2>6. ~(deliveries[r].attempt >= max) => Within(r, 2)'
    BY <2>1, <2>3, <2>4, <2>5 DEF Within
  <2>7. RowBudget(r)'
    BY <2>1, <2>6 DEF RowBudget
  <2> QED
    BY <2>1, <2>2, <2>7, OneRowBudget
<1>4. CASE ReapOrphan(r)
  <2>1. phase = "reaping" /\ phase \notin Off
    BY <1>4 DEF ReapOrphan, Off
  <2>2. /\ deliveries[r].state = "claimed" /\ deliveries'[r].state = "failed"
        /\ deliveries'[r].attempt = deliveries[r].attempt
        /\ \A s \in Rows : s # r => deliveries'[s] = deliveries[s]
        /\ versions' = versions /\ phase' = phase
    BY <1>4, ResetEffect DEF schedVars
  <2>3. Within(r, 2)
    BY <1>a, <2>1, <2>2 DEF RowBudget
  <2>4. RowBudget(r)'
    BY <2>2, <2>3 DEF RowBudget, Within
  <2> QED
    BY <2>1, <2>2, <2>4, OneRowBudget
<1>5. ASSUME NEW h \in Handlers, DeliveryReplay(h, r)
      PROVE  BudgetInv'
  <2>1. phase \notin Off
    BY <1>5 DEF DeliveryReplay, Serving, Loop, Off
  <2>2. /\ deliveries'[r].state = "pending" /\ deliveries'[r].attempt = 0
        /\ \A s \in Rows : s # r => deliveries'[s] = deliveries[s]
        /\ versions' = versions /\ phase' = phase
    BY <1>5, ReplayEffect DEF schedVars
  <2>3. RowBudget(r)'
    BY <2>2 DEF RowBudget
  <2> QED
    BY <2>1, <2>2, <2>3, OneRowBudget
<1> QED
  BY <1>1, <1>2, <1>3, <1>4, <1>5

\* The steps that create rows, or end several: a new row has used nothing.
LEMMA TablesKeepBudget ==
  ASSUME PlaneInv, MemInv, BudgetInv, boots' = boots,
         \/ \E r \in Rows : ApplyResult(r) /\ ~ApplyFailed(r)
         \/ \E h \in Handlers, q \in Queues, p \in Payloads : MessageSend(h, q, p)
         \/ \E h \in Handlers : CancelAction(h)
  PROVE  BudgetInv'
<1>1. ASSUME versions' = versions, phase \notin Off, phase' = "reaping" => phase = "reaping",
             \A s \in Rows : \/ deliveries'[s] = deliveries[s]
                             \/ deliveries'[s] = PendingDelivery
                             \/ deliveries'[s].state \in {"done", "cancelled"}
      PROVE  BudgetInv'
  <2>1. VersionsGrow
    BY <1>1 DEF VersionsGrow
  <2>2. PendingDelivery.state = "pending" /\ PendingDelivery.attempt = 0
    BY DEF PendingDelivery, NoDelivery
  <2>3. ASSUME NEW s \in Rows PROVE RowBudget(s)'
    <3>1. CASE deliveries'[s] = deliveries[s]
      BY <1>1, <2>1, <3>1, SameBudget DEF BudgetInv
    <3>2. CASE deliveries'[s] = PendingDelivery \/ deliveries'[s].state \in {"done", "cancelled"}
      BY <2>2, <3>2 DEF RowBudget
    <3> QED
      BY <1>1, <3>1, <3>2
  <2> QED
    BY <1>1, <2>3 DEF BudgetInv
<1>2. ASSUME NEW r \in Rows, NEW lines \in Lines, ApplyDone(r, lines)
      PROVE  BudgetInv'
  <2>1. TakeResult(r) /\ deliveries'[r].state = "done" /\ versions' = versions
        /\ \A s \in Rows : s # r => deliveries'[s] \in {PendingDelivery, deliveries[s]}
    BY <1>2, DoneEffect
  <2>2. phase \notin Off /\ phase' # "reaping"
    BY <2>1 DEF TakeResult, Off
  <2> QED
    BY <1>1, <2>1, <2>2
<1>3. ASSUME NEW h \in Handlers, NEW q \in Queues, NEW p \in Payloads, MessageSend(h, q, p)
      PROVE  BudgetInv'
  <2>1. versions' = versions /\ phase' = phase
        /\ \A s \in Rows : deliveries'[s] \in {PendingDelivery, deliveries[s]}
    BY <1>3, SendEffect DEF schedVars
  <2>2. phase \notin Off
    BY <1>3 DEF MessageSend, Serving, Loop, Off
  <2> QED
    BY <1>1, <2>1, <2>2
<1>4. ASSUME NEW h \in Handlers, CancelAction(h)
      PROVE  BudgetInv'
  <2> DEFINE a == handlers[h].action
  <2>1. CancelDeliveries(a) \/ UNCHANGED storeVars
    BY <1>4 DEF CancelAction, HandleCtrl
  <2>2. phase \notin Off /\ phase' # "reaping"
    BY <1>4 DEF CancelAction, HandleCtrl, Wake, Off
  <2>3. versions' = versions
        /\ \A s \in Rows : deliveries'[s] = deliveries[s] \/ deliveries'[s].state = "cancelled"
    BY <2>1, CancelEffect DEF storeVars
  <2> QED
    BY <1>1, <2>2, <2>3
<1> QED
  BY <1>2, <1>3, <1>4 DEF ApplyResult

\* A start of a daemon adds one to the restarts, for the orphans it finds.
LEMMA StartKeepsBudget ==
  ASSUME PlaneInv, MemInv, BudgetInv, StartDaemon
  PROVE  BudgetInv'
<1>1. /\ phase \in Off /\ phase' = "reaping" /\ boots' = boots + 1 /\ boots \in Nat
      /\ UNCHANGED <<versions, deliveries>>
  BY BudgetTypes DEF StartDaemon, Boot, storeVars
<1>2. ASSUME NEW r \in Rows PROVE RowBudget(r)'
  <2>a. RowBudget(r) /\ phase # "reaping"
    BY <1>1 DEF BudgetInv, Off
  <2>1. ASSUME NEW n \in {1, 2}, Within(r, n)
        PROVE  Within(r, n + 1)'
    <3>1. PICK v \in 1..Len(versions[r[2]]) :
            deliveries[r].attempt + n <= versions[r[2]][v].maxAttempts + boots
      BY <2>1 DEF Within
    <3>2. deliveries[r].attempt \in Nat /\ versions[r[2]][v].maxAttempts \in Nat
      BY BudgetTypes
    <3>3. deliveries[r].attempt + (n + 1) <= versions[r[2]][v].maxAttempts + (boots + 1)
      BY ONLY <1>1, <3>1, <3>2, BudgetArithmetic
    <3> QED
      BY <1>1, <3>3 DEF Within
  <2>2. Within(r, 3)' => Within(r, 2)'
    <3> SUFFICES ASSUME NEW v \in 1..Len(versions[r[2]]),
                        deliveries[r].attempt + 3 <= versions[r[2]][v].maxAttempts + (boots + 1)
                 PROVE  deliveries[r].attempt + 2 <= versions[r[2]][v].maxAttempts + (boots + 1)
      BY <1>1 DEF Within
    <3>1. deliveries[r].attempt \in Nat /\ versions[r[2]][v].maxAttempts \in Nat
      BY BudgetTypes
    <3> QED
      BY <1>1, <3>1
  <2>3. (Within(r, 1) => Within(r, 2)') /\ (Within(r, 2) => Within(r, 3)')
    <3>1. 1 + 1 = 2 /\ 2 + 1 = 3
      OBVIOUS
    <3>2. (Within(r, 1) => Within(r, 1 + 1)') /\ (Within(r, 2) => Within(r, 2 + 1)')
      BY <2>1
    <3> QED
      BY <3>1, <3>2
  <2> QED
    BY <1>1, <2>a, <2>2, <2>3 DEF RowBudget
<1> QED
  BY <1>1, <1>2 DEF BudgetInv

\* Every step, and stuttering, keeps the budget.
LEMMA NextKeepsBudget == InductiveInv /\ BudgetInv /\ [Next]_vars => BudgetInv'
<1> SUFFICES ASSUME PlaneInv, MemInv, BudgetInv, [Next]_vars
             PROVE  BudgetInv'
  BY InvParts
<1>1. ASSUME UNCHANGED <<versions, deliveries, boots>>,
             phase' \in Off \/ (phase \notin Off /\ (phase' = "reaping" => phase = "reaping"))
      PROVE  BudgetInv'
  BY <1>1, AllSameBudget DEF VersionsGrow
<1>2. CASE InternalStep /\ UNCHANGED apiVars
  <2>0. boots' = boots
    BY <1>2 DEF apiVars
  <2>1. CASE \/ LoadActions \/ DispatchAborted \/ BeginDrain \/ SeedAndServe
             \/ \E a \in Actions : ActionExhausted(a) \/ DispatchFails(a)
             \/ WakeOnNudge \/ WakeOnRetryTimer \/ WakeOnIdleTimer
    <3>1. UNCHANGED <<versions, deliveries>>
      BY <2>1 DEF LoadActions, DispatchAborted, ActionExhausted, DispatchFails, Advance,
         WakeOnNudge, WakeOnRetryTimer, WakeOnIdleTimer, BeginDrain, SeedAndServe, storeVars
    <3>2. phase \notin Off /\ phase' # "reaping"
      BY <2>1 DEF LoadActions, DispatchAborted, ActionExhausted, DispatchFails, Advance, AtAction,
         WakeOnNudge, WakeOnRetryTimer, WakeOnIdleTimer, BeginDrain, SeedAndServe, Wake, Off
    <3> QED
      BY <1>1, <2>0, <3>1, <3>2
  <2>2. ASSUME NEW r \in Rows,
               \/ \E p \in Pids : StartProcess(r, p)
               \/ SpawnFails(r) \/ PersistPgidFails(r) \/ TaskExits(r) \/ ApplyLost(r)
        PROVE  BudgetInv'
    <3>1. UNCHANGED <<versions, deliveries>>
      BY <2>2 DEF StartProcess, SpawnFails, PersistPgidFails, TaskExits, ApplyLost, storeVars
    <3>2. phase \notin Off /\ (phase' = "reaping" => phase = "reaping")
      <4>1. phase \in Running
        BY <2>2 DEF StartProcess, SpawnFails, Launched, PersistPgidFails, TaskExits, ApplyLost,
           MemInv, WorkersHoldClaims, Running
      <4> QED
        BY <2>2, <4>1 DEF StartProcess, SpawnFails, PersistPgidFails, TaskExits, ApplyLost,
           TakeResult, Running, Loop, Off
    <3> QED
      BY <1>1, <2>0, <3>1, <3>2
  <2>3. ASSUME NEW r \in Rows, PersistPgid(r) \/ TimePasses(r)
        PROVE  BudgetInv'
    <3>1. /\ versions' = versions /\ phase' = phase
          /\ \A s \in Rows : /\ deliveries'[s].state = deliveries[s].state
                             /\ deliveries'[s].attempt = deliveries[s].attempt
      BY <2>3, PgidEffect, GateEffect DEF PersistPgid, schedVars
    <3>2. VersionsGrow
      BY <3>1 DEF VersionsGrow
    <3> QED
      BY <2>0, <3>1, <3>2, AllSameBudget
  <2>4. ASSUME NEW p \in Pids, OrphanExits(p)
        PROVE  BudgetInv'
    <3>1. UNCHANGED <<versions, deliveries, phase>>
      BY <2>4 DEF OrphanExits, storeVars, schedVars
    <3> QED
      BY <1>1, <2>0, <3>1
  <2> QED
    BY <1>2, <2>0, <2>1, <2>2, <2>3, <2>4, RowsKeepBudget, TablesKeepBudget
       DEF InternalStep, LoopStep, ApplyResult, WorkerStep, ReapStep, FaultStep
<1>3. CASE \/ \E a \in Actions : ActionEnable(a) \/ \E h \in Handlers : ActionDisable(h, a)
           \/ \E h \in Handlers : WorkAdded(h) \/ CancelAbandoned(h)
           \/ IdleReadsInFlight \/ IdleReadsBusy \/ StopScheduler \/ UNCHANGED vars
  <2>1. UNCHANGED <<versions, deliveries, boots, phase>>
    BY <1>3 DEF ActionEnable, ActionDisable, SetActionEnabled, WorkAdded, CancelAbandoned,
       IdleReadsInFlight, IdleReadsBusy, StopScheduler, storeVars, schedVars, apiVars, vars
  <2> QED
    BY <1>1, <2>1
<1>4. ASSUME NEW d \in Defs, ActionApply(d)
      PROVE  BudgetInv'
  <2>1. UNCHANGED <<deliveries, phase, boots>>
    BY <1>4 DEF ActionApply, ApplyAction, schedVars, apiVars
  <2> QED
    BY <1>4, <2>1, ApplyGrows, AllSameBudget
<1>5. CASE ClientStep
  <2>1. boots' = boots
    BY <1>5 DEF ClientStep, MessageSend, DeliveryReplay, ActionDisable
  <2> QED
    BY <1>3, <1>5, <2>1, RowsKeepBudget, TablesKeepBudget DEF ClientStep
<1>6. ASSUME NEW h \in Handlers, CancelAction(h)
      PROVE  BudgetInv'
  BY <1>6, TablesKeepBudget DEF CancelAction
<1>7. CASE StopDaemon \/ Crash \/ \E r \in Rows : CrashInReap(r)
  <2>1. UNCHANGED <<versions, deliveries, boots>> /\ phase' \in Off
    BY <1>7 DEF StopDaemon, Drained, Crash, CrashInReap, ReapInterrupted, storeVars, Off
  <2> QED
    BY <1>1, <2>1
<1> QED
  BY <1>2, <1>3, <1>4, <1>5, <1>6, <1>7, StartKeepsBudget DEF Next, ConfigStep

\* In every state the system reaches, a delivery has used no more attempts than
\* a version of its action allows, but for one per restart of the daemon.
THEOREM AttemptsAreWithinBudget == Spec => []AttemptsWithinBudget
<1>1. Init => BudgetInv
  BY DEF Init, StoreInit, SchedulerInit, NoDelivery, BudgetInv, RowBudget, Off
<1>2. InductiveInv /\ BudgetInv => AttemptsWithinBudget
  <2> SUFFICES ASSUME PlaneInv, MemInv, BudgetInv, NEW r \in Rows,
                      deliveries[r].state = "claimed"
               PROVE  \E v \in 1..Len(versions[r[2]]) :
                        deliveries[r].attempt <= versions[r[2]][v].maxAttempts + boots - 1
    BY InvParts DEF AttemptsWithinBudget, ClaimedDeliveries, InState
  <2>1. PICK n \in {1, 2} : Within(r, n)
    BY DEF BudgetInv, RowBudget
  <2>2. PICK v \in 1..Len(versions[r[2]]) :
          deliveries[r].attempt + n <= versions[r[2]][v].maxAttempts + boots
    BY <2>1 DEF Within
  <2>3. /\ deliveries[r].attempt \in Nat /\ boots \in Nat
        /\ versions[r[2]][v].maxAttempts \in Nat
    BY BudgetTypes
  <2>4. deliveries[r].attempt <= versions[r[2]][v].maxAttempts + boots - 1
    <3>1. n \in Nat \ {0}
      OBVIOUS
    <3> QED
      BY ONLY <2>2, <2>3, <3>1, BudgetArithmetic
  <2> QED
    BY <2>4
<1> QED
  BY <1>1, <1>2, NextKeepsBudget, InductiveInvHolds, PTL DEF Spec

-----------------------------------------------------------------------------
(* The snapshot of a dispatch, and a disable that has returned. *)

CancelWaits(a) == \E h \in Handlers : handlers[h].op = "cancel" /\ handlers[h].action = a

\* Only a dispatch has a snapshot, and a disabled action in it is one whose
\* disable still waits for the loop.
SnapInv ==
  /\ phase # "dispatch" => \A a \in Actions : snap[a] = 0
  /\ \A a \in Actions : snap[a] # 0 /\ ~enabled[a] => CancelWaits(a)

\* Steps that change neither the snapshot nor a flag, and end no disable.
LEMMA SameSnap ==
  ASSUME SnapInv, UNCHANGED <<snap, enabled>>, phase = "dispatch" => phase' = "dispatch",
         \A h \in Handlers : handlers[h].op = "cancel" => handlers'[h] = handlers[h]
  PROVE  SnapInv'
<1>1. \A a \in Actions : CancelWaits(a) => CancelWaits(a)'
  BY DEF CancelWaits
<1>2. phase' # "dispatch" => \A a \in Actions : snap'[a] = 0
  BY DEF SnapInv
<1>3. \A a \in Actions : snap'[a] # 0 /\ ~enabled'[a] => CancelWaits(a)'
  BY <1>1 DEF SnapInv
<1> QED
  BY <1>2, <1>3 DEF SnapInv

\* Steps that leave no snapshot.
LEMMA NoSnap ==
  ASSUME \A a \in Actions : snap'[a] = 0
  PROVE  SnapInv'
BY DEF SnapInv

\* A request or a reply in a slot whose request is no disable.
LEMMA OtherSlots ==
  ASSUME MemInv, NEW h \in Handlers, NEW req, SetHandler(h, req), handlers[h].op # "cancel"
  PROVE  \A g \in Handlers : handlers[g].op = "cancel" => handlers'[g] = handlers[g]
BY DEF SetHandler, MemInv, ApiTypeOK

\* Every step, and stuttering, keeps it, if no client gives up on a disable.
LEMMA NextKeepsSnaps ==
  ASSUME "abandon" \notin Ops
  PROVE  InductiveInv /\ SnapInv /\ [Next]_vars => SnapInv'
<1> SUFFICES ASSUME PlaneInv, MemInv, SnapInv, [Next]_vars
             PROVE  SnapInv'
  BY InvParts
<1>a. enabled \in [Actions -> BOOLEAN] /\ handlers \in [Handlers -> Request]
  BY DEF PlaneInv, StoreTypeOK, MemInv, ApiTypeOK
<1>1. CASE InternalStep /\ UNCHANGED apiVars
  <2>0. handlers' = handlers
    BY <1>1 DEF apiVars
  <2>1. CASE LoadActions
    <3>1. \A a \in Actions : snap'[a] # 0 => enabled'[a]
      BY <2>1 DEF LoadActions, storeVars
    <3>2. phase' = "dispatch"
      BY <2>1 DEF LoadActions
    <3> QED
      BY <3>1, <3>2 DEF SnapInv
  <2>2. CASE DispatchAborted
    BY <2>2, NoSnap DEF DispatchAborted
  <2>3. ASSUME NEW a \in Actions, ActionExhausted(a) \/ DispatchFails(a)
        PROVE  SnapInv'
    <3>1. Advance(a)
      BY <2>3 DEF ActionExhausted, DispatchFails
    <3>2. CASE a = NumActions
      BY <3>1, <3>2, NoSnap DEF Advance
    <3>3. CASE a # NumActions
      BY <2>0, <3>1, <3>3, SameSnap DEF Advance, storeVars
    <3> QED
      BY <3>2, <3>3
  <2>4. CASE WakeOnNudge \/ WakeOnRetryTimer \/ WakeOnIdleTimer \/ BeginDrain \/ SeedAndServe
    BY <2>0, <2>4, SameSnap DEF WakeOnNudge, WakeOnRetryTimer, WakeOnIdleTimer, Wake, BeginDrain,
       SeedAndServe, storeVars
  <2>5. ASSUME NEW r \in Rows, NEW a \in Actions, Resolve(r, a) \/ ClaimAndLaunch(r, a)
        PROVE  SnapInv'
    <3>1. UNCHANGED <<snap, phase, enabled>>
      BY <2>5, ResolveEffect, ClaimEffect DEF Resolve, ClaimAndLaunch
    <3> QED
      BY <2>0, <3>1, SameSnap
  <2>6. ASSUME NEW r \in Rows, ApplyResult(r) \/ ApplyLost(r)
        PROVE  SnapInv'
    <3>1. phase # "dispatch" /\ snap' = snap
      BY <2>6 DEF ApplyResult, ApplyDone, ApplyFailed, ApplyLost, TakeResult
    <3> QED
      BY <3>1, NoSnap DEF SnapInv
  <2>7. ASSUME NEW r \in Rows,
               \/ WorkerStep(r) \/ SpawnFails(r) \/ PersistPgidFails(r)
               \/ TimePasses(r) \/ ReapOrphan(r)
        PROVE  SnapInv'
    <3>1. UNCHANGED <<snap, phase, enabled>>
      BY <2>7, PgidEffect, GateEffect, ResetEffect DEF WorkerStep, StartProcess, PersistPgid,
         TaskExits, SpawnFails, PersistPgidFails, TimePasses, ReapOrphan, schedVars, storeVars
    <3> QED
      BY <2>0, <3>1, SameSnap
  <2>8. ASSUME NEW p \in Pids, OrphanExits(p)
        PROVE  SnapInv'
    BY <2>0, <2>8, SameSnap DEF OrphanExits, schedVars, storeVars
  <2> QED
    BY <1>1, <2>1, <2>2, <2>3, <2>4, <2>5, <2>6, <2>7, <2>8
       DEF InternalStep, LoopStep, ReapStep, FaultStep
<1>2. ASSUME NEW h \in Handlers, NEW req, SetHandler(h, req), handlers[h].op # "cancel",
             UNCHANGED <<snap, phase, enabled>>
      PROVE  SnapInv'
  BY <1>2, OtherSlots, SameSnap
<1>3. CASE ClientStep
  <2>1. ASSUME NEW h \in Handlers, NEW q \in Queues, NEW p \in Payloads, MessageSend(h, q, p)
        PROVE  SnapInv'
    <3>1. handlers[h].op # "cancel" /\ \E req : SetHandler(h, req)
      BY <2>1 DEF MessageSend, Free, NoRequest
    <3>2. UNCHANGED <<snap, phase, enabled>>
      BY <2>1, SendEffect DEF schedVars
    <3> QED
      BY <1>2, <3>1, <3>2
  <2>2. ASSUME NEW h \in Handlers, NEW r \in Rows, DeliveryReplay(h, r)
        PROVE  SnapInv'
    <3>1. handlers[h].op # "cancel" /\ \E req : SetHandler(h, req)
      BY <2>2 DEF DeliveryReplay, Free, NoRequest
    <3>2. UNCHANGED <<snap, phase, enabled>>
      BY <2>2, ReplayEffect DEF schedVars
    <3> QED
      BY <1>2, <3>1, <3>2
  <2>3. ASSUME NEW h \in Handlers, NEW a \in Actions, ActionDisable(h, a)
        PROVE  SnapInv'
    <3>1. /\ UNCHANGED <<snap, phase>> /\ handlers[h].op = "none"
          /\ \A b \in Actions : b # a => enabled'[b] = enabled[b]
      BY <2>3, <1>a DEF ActionDisable, SetActionEnabled, Free, NoRequest, schedVars
    <3>2. /\ handlers'[h].op = "cancel" /\ handlers'[h].action = a
          /\ \A g \in Handlers : g # h => handlers'[g] = handlers[g]
      BY <2>3, <1>a DEF ActionDisable, SetHandler, NoRequest
    <3>3. CancelWaits(a)' /\ \A b \in Actions : CancelWaits(b) => CancelWaits(b)'
      BY <3>1, <3>2 DEF CancelWaits
    <3>4. \A b \in Actions : snap'[b] # 0 /\ ~enabled'[b] => CancelWaits(b)'
      BY <3>1, <3>3 DEF SnapInv
    <3> QED
      BY <3>1, <3>4 DEF SnapInv
  <2> QED
    BY <1>3, <2>1, <2>2, <2>3 DEF ClientStep
<1>4. ASSUME NEW a \in Actions, ActionEnable(a)
      PROVE  SnapInv'
  <2>1. /\ UNCHANGED <<snap, phase, handlers>>
        /\ \A b \in Actions : enabled[b] => enabled'[b]
    BY <1>4, <1>a DEF ActionEnable, SetActionEnabled, schedVars, apiVars
  <2>2. \A b \in Actions : CancelWaits(b) => CancelWaits(b)'
    BY <2>1 DEF CancelWaits
  <2>3. \A b \in Actions : snap'[b] # 0 /\ ~enabled'[b] => CancelWaits(b)'
    BY <2>1, <2>2 DEF SnapInv
  <2> QED
    BY <2>1, <2>3 DEF SnapInv
<1>5. CASE \/ \E d \in Defs : ActionApply(d)
           \/ IdleReadsInFlight \/ IdleReadsBusy \/ StopScheduler \/ StartDaemon
           \/ UNCHANGED vars
  <2>1. UNCHANGED <<snap, enabled, handlers>> /\ (phase = "dispatch" => phase' = "dispatch")
    BY <1>5 DEF ActionApply, ApplyAction, IdleReadsInFlight, IdleReadsBusy, StopScheduler,
       StartDaemon, Boot, Off, schedVars, storeVars, apiVars, vars
  <2> QED
    BY <2>1, SameSnap
<1>6. ASSUME NEW h \in Handlers, WorkAdded(h)
      PROVE  SnapInv'
  BY <1>2, <1>6 DEF WorkAdded, storeVars
<1>7. ASSUME NEW h \in Handlers, CancelAction(h)
      PROVE  SnapInv'
  <2>1. phase # "dispatch" /\ snap' = snap
    BY <1>7 DEF CancelAction, HandleCtrl, Wake
  <2> QED
    BY <2>1, NoSnap DEF SnapInv
<1>8. CASE StopDaemon \/ Crash \/ \E r \in Rows : CrashInReap(r)
  BY <1>8, NoSnap DEF StopDaemon, Drained, Crash, CrashInReap, ReapInterrupted, Forget
<1>9. ASSUME NEW h \in Handlers, CancelAbandoned(h)
      PROVE  FALSE
  BY <1>9 DEF CancelAbandoned
<1> QED
  BY <1>1, <1>3, <1>4, <1>5, <1>6, <1>7, <1>8, <1>9 DEF Next, ConfigStep

\* Once action.disable has returned, no dispatch, however old its snapshot,
\* claims for the action until it is enabled again, if clients wait for their
\* replies; CancelAbandoned is what a client that does not wait may see.
THEOREM DisableReturnsAfterClaims ==
  ASSUME "abandon" \notin Ops
  PROVE  Spec => NoClaimAfterDisableReturns
<1> DEFINE Waits == \A r \in Rows :
                      workers[r].st = "none" /\ workers'[r].st # "none" /\ ~enabled[r[2]] =>
                        \E h \in Handlers : handlers[h].op = "cancel" /\ handlers[h].action = r[2]
<1>1. Init => SnapInv
  BY DEF Init, SchedulerInit, SnapInv
<1>2. InductiveInv /\ SnapInv /\ [Next]_vars => Waits
  <2> SUFFICES ASSUME PlaneInv, MemInv, SnapInv, [Next]_vars, NEW r \in Rows,
                      workers[r].st = "none", workers'[r].st # "none", ~enabled[r[2]]
               PROVE  CancelWaits(r[2])
    BY InvParts DEF CancelWaits
  <2>1. ClaimAndLaunch(r, r[2]) /\ r[2] \in Actions
    BY OnlyClaimsLaunch, RowParts
  <2>2. snap[r[2]] # 0
    BY <2>1, ClaimEffect
  <2> QED
    BY <2>1, <2>2 DEF SnapInv
<1>3. InductiveInv /\ SnapInv /\ [Next]_vars => SnapInv'
  BY NextKeepsSnaps
<1> QED
  BY <1>1, <1>2, <1>3, InductiveInvHolds, PTL DEF Spec, NoClaimAfterDisableReturns

-----------------------------------------------------------------------------
(* The refinement: the daemon, its handlers, its crashes and its restarts  *)
(* implement DeliveryPromise.  Each step is shown to be one of the five of *)
(* the promise, or to leave what the promise speaks of alone.              *)

\* The refinement mapping.
Subs == [q \in Queues |-> Subscribers(q)]
Stat == [r \in Rows |-> Status(deliveries[r].state)]
Statuses == {"absent", "open", "done", "dropped", "dead"}

\* What the states of a row mean to the promise.
LEMMA StatusOf ==
  /\ Status("none") = "absent"
  /\ \A x \in ActiveStates : Status(x) = "open"
  /\ Status("done") = "done" /\ Status("dead") = "dead"
  /\ Status("cancelled") = "dropped" /\ Status("filtered") = "dropped"
BY DEF Status, ActiveStates

\* A subscriber is an action.
LEMMA SubsTyped == Subs \in [Queues -> SUBSET Actions] /\ Subs' \in [Queues -> SUBSET Actions]
BY DEF Subs, Subscribers

\* The registry decides who subscribes.
LEMMA SameSubs ==
  ASSUME UNCHANGED <<versions, enabled>>
  PROVE  Subs' = Subs /\ \A q : Subscribers(q)' = Subscribers(q)
BY DEF Subs, Subscribers, Exists, CurrentDef

\* The names of the promise, over the state of the system.
LEMMA Names ==
  /\ Promise!Deliveries = Rows
  /\ Promise!promiseVars = <<messages, Subs, Stat>>
BY DEF Promise!Deliveries, Promise!promiseVars, Rows, Subs, Stat

\* Rows that leave "open" for "dropped" or "dead", or stay as they are.
LEMMA Closes ==
  ASSUME UNCHANGED <<messages, versions, enabled>>,
         \A r \in Rows :
           \/ Status(deliveries'[r].state) = Status(deliveries[r].state)
           \/ /\ Status(deliveries[r].state) = "open"
              /\ Status(deliveries'[r].state) \in {"dropped", "dead"}
  PROVE  Promise!Close
<1>1. Subs' = Subs
  BY SameSubs
<1>2. \A r \in Rows : Stat[r] = Status(deliveries[r].state) /\ Stat'[r] = Status(deliveries'[r].state)
  BY DEF Stat
<1>3. Stat' = [r \in Rows |-> Stat'[r]]
  BY DEF Stat
<1> QED
  BY <1>1, <1>2, <1>3, Names DEF Promise!Close, Subs, Stat

\* The registry changes, nothing else.
LEMMA Reconfigures ==
  ASSUME UNCHANGED <<messages, deliveries>>
  PROVE  Promise!Reconfigure
<1>1. Stat' = Stat
  BY DEF Stat
<1> QED
  BY <1>1, SubsTyped DEF Promise!Reconfigure, Subs, Stat
\* A dead row is replayed.
LEMMA Reopens ==
  ASSUME PlaneInv, NEW h \in Handlers, NEW r \in Rows, DeliveryReplay(h, r)
  PROVE  Promise!Reopen(r)
<1>1. /\ deliveries[r].state = "dead" /\ deliveries'[r].state = "pending"
      /\ \A s \in Rows : s # r => deliveries'[s] = deliveries[s]
      /\ UNCHANGED <<messages, versions, enabled>>
  BY ReplayEffect
<1>2. Subs' = Subs
  BY <1>1, SameSubs
<1>3. Stat[r] = "dead"
  BY <1>1, StatusOf DEF Stat
<1>4. Stat' = [Stat EXCEPT ![r] = "open"]
  <2>1. Status("pending") = "open"
    BY StatusOf DEF ActiveStates
  <2>2. \A s \in Rows : Stat'[s] = IF s = r THEN "open" ELSE Stat[s]
    BY <1>1, <2>1 DEF Stat
  <2>3. Stat' = [s \in Rows |-> Stat'[s]] /\ Stat = [s \in Rows |-> Stat[s]]
    BY DEF Stat
  <2> HIDE DEF Stat
  <2> QED
    BY <2>2, <2>3
<1> QED
  BY <1>1, <1>2, <1>3, <1>4 DEF Promise!Reopen, Subs, Stat

\* What inserting the messages ms, all on queue q, on top of the statuses base,
\* is to the promise.
LEMMA Inserts ==
  ASSUME PlaneInv, NEW ms \in Seq(Message), NEW q, NEW base \in [Rows -> Statuses],
         Len(messages) + Len(ms) <= MaxMessages,
         messages' = messages \o ms,
         \A i \in 1..Len(ms) : ms[i].queue = q,
         \A s \in Rows : Stat'[s] = IF s \in NewRows(Len(ms), q) THEN "open" ELSE base[s]
  PROVE  /\ Promise!Grows
         /\ Promise!Opens(base)
         /\ Promise!NewIds = (Len(messages) + 1)..(Len(messages) + Len(ms))
         /\ Len(messages') = Len(messages) + Len(ms)
         /\ \A i \in Promise!NewIds :
              i - Len(messages) \in 1..Len(ms) /\ messages'[i] = ms[i - Len(messages)]
<1>1. /\ messages \in Seq(Message) /\ Len(messages) \in Nat /\ Len(ms) \in Nat
  BY DEF PlaneInv, StoreTypeOK
<1>2. /\ Len(messages') = Len(messages) + Len(ms)
      /\ \A i \in 1..Len(messages) : messages'[i] = messages[i]
      /\ \A i \in (Len(messages) + 1)..(Len(messages) + Len(ms)) :
           i - Len(messages) \in 1..Len(ms) /\ messages'[i] = ms[i - Len(messages)]
  BY <1>1
<1>3. Promise!NewIds = (Len(messages) + 1)..(Len(messages) + Len(ms))
  BY <1>2 DEF Promise!NewIds
<1>4. Promise!Grows
  BY <1>1, <1>2 DEF Promise!Grows
<1>5. \A s \in Rows : s \in NewRows(Len(ms), q)
                        <=> s[1] \in Promise!NewIds /\ s[2] \in Subs[messages'[s[1]].queue]
  <2> SUFFICES ASSUME NEW s \in Rows, s[1] \in Promise!NewIds
               PROVE  s[2] \in Subscribers(q) <=> s[2] \in Subs[messages'[s[1]].queue]
    BY <1>3 DEF NewRows
  <2> DEFINE m == ms[s[1] - Len(messages)]
  <2>1. s[1] - Len(messages) \in 1..Len(ms) /\ messages'[s[1]] = m
    BY <1>2, <1>3
  <2>2. m \in Message /\ m.queue = q
    BY <2>1
  <2>3. q \in Queues
    BY <2>2 DEF Message
  <2>4. messages'[s[1]].queue = q
    BY <2>1, <2>2
  <2> QED
    BY <2>3, <2>4 DEF Subs
<1>6. Stat' = [s \in Rows |-> IF s[1] \in Promise!NewIds /\ s[2] \in Subs[messages'[s[1]].queue]
                              THEN "open" ELSE base[s]]
  <2>1. \A s \in Rows : Stat'[s] = IF s[1] \in Promise!NewIds /\ s[2] \in Subs[messages'[s[1]].queue]
                                   THEN "open" ELSE base[s]
    BY <1>5
  <2>2. Stat' = [s \in Rows |-> Stat'[s]]
    BY DEF Stat
  <2> QED
    BY <2>1, <2>2
<1>7. Promise!Opens(base)
  BY <1>6, Names DEF Promise!Opens, Subs, Stat
<1> QED
  BY <1>2, <1>3, <1>4, <1>7

\* Every row has a status.
LEMMA StatTyped == PlaneInv => Stat \in [Rows -> Statuses]
<1> SUFFICES ASSUME PlaneInv, NEW r \in Rows
             PROVE  Status(deliveries[r].state) \in Statuses
  BY DEF Stat
<1>1. deliveries[r].state \in States \cup {"none"}
  BY DEF PlaneInv, StoreTypeOK, Delivery
<1>2. \A x \in States \cup {"none"} : Status(x) \in Statuses
  BY StatusOf DEF States, ActiveStates, Statuses
<1> QED
  BY <1>1, <1>2

\* message.send publishes.
LEMMA Publishes ==
  ASSUME PlaneInv, NEW h \in Handlers, NEW q \in Queues, NEW p \in Payloads,
         MessageSend(h, q, p)
  PROVE  Promise!Publish
<1>1. PICK m \in Message : /\ m.queue = q /\ m.hops = 0 /\ m.origin = NoRow
                           /\ m.trace = Len(messages) + 1
                           /\ messages' = messages \o <<m>>
  BY SendEffect
<1>2. /\ Len(messages) + 1 <= MaxMessages
      /\ \A s \in Rows : deliveries'[s] = IF s \in NewRows(1, q) THEN PendingDelivery
                                          ELSE deliveries[s]
      /\ UNCHANGED <<versions, enabled>>
  BY SendEffect
<1> DEFINE ms == <<m>>
<1>3. ms \in Seq(Message) /\ Len(ms) = 1 /\ ms[1] = m /\ \A i \in 1..Len(ms) : ms[i].queue = q
  BY <1>1
<1>4. messages' = messages \o ms
  BY <1>1
<1> HIDE DEF ms
<1>5. \A s \in Rows : Stat'[s] = IF s \in NewRows(Len(ms), q) THEN "open" ELSE Stat[s]
  <2>1. Status(PendingDelivery.state) = "open"
    BY StatusOf DEF PendingDelivery, NoDelivery, ActiveStates
  <2> QED
    BY <1>2, <1>3, <2>1 DEF Stat
<1>6. /\ Promise!Grows /\ Promise!Opens(Stat)
      /\ Promise!NewIds = (Len(messages) + 1)..(Len(messages) + Len(ms))
      /\ Len(messages') = Len(messages) + Len(ms)
      /\ \A i \in Promise!NewIds :
           i - Len(messages) \in 1..Len(ms) /\ messages'[i] = ms[i - Len(messages)]
  BY <1>2, <1>3, <1>4, <1>5, StatTyped, Inserts
<1>7. Len(messages) \in Nat
  BY DEF PlaneInv, StoreTypeOK
<1>8. Len(messages') = Len(messages) + 1 /\ messages'[Len(messages')] = m
  <2>1. Len(messages) + 1 \in Promise!NewIds /\ Len(messages') = Len(messages) + 1
    BY <1>3, <1>6, <1>7
  <2>2. (Len(messages) + 1) - Len(messages) = 1
    BY <1>7
  <2> QED
    BY <1>3, <1>6, <2>1, <2>2
<1>9. Subs' = Subs
  BY <1>2, SameSubs
<1>10. /\ messages'[Len(messages')].origin = NoRow
       /\ messages'[Len(messages')].hops = 0
       /\ messages'[Len(messages')].trace = Len(messages')
  BY <1>1, <1>8
<1> QED
  BY <1>6, <1>8, <1>9, <1>10 DEF Promise!Publish, Subs, Stat

\* A message that is executed for has hops left.
LEMMA ClaimsHaveHops ==
  ASSUME PlaneInv, NEW r \in Rows, deliveries[r].state = "claimed", messages[r[1]] \in Message
  PROVE  messages[r[1]].hops + 1 <= MaxHops
<1>1. Vet(PinnedDef(r), messages[r[1]]) = "claim"
  BY DEF PlaneInv, ClaimsAreVetted, ClaimedDeliveries, InState
<1>2. ~(messages[r[1]].hops >= MaxHops)
  BY <1>1 DEF Vet
<1>3. messages[r[1]].hops \in Nat /\ MaxHops \in Nat
  BY SchedulerAssumption DEF Message
<1> QED
  BY <1>2, <1>3

\* apply of a success finishes its delivery, outputs and all.
LEMMA Finishes ==
  ASSUME PlaneInv, MemInv, NEW r \in Rows, NEW lines \in Lines, ApplyDone(r, lines)
  PROVE  Promise!Finish(r)
<1>0. PICK outs \in Seq(Message) :
        LET q == PinnedDef(r).output IN
        /\ deliveries[r].state = "claimed" /\ workers[r].st = "exited" /\ TakeResult(r)
        /\ Len(messages) + Len(outs) <= MaxMessages
        /\ messages' = messages \o outs
        /\ q = NoQueue => outs = <<>>
        /\ \A i \in 1..Len(outs) :
             /\ outs[i].queue = q /\ outs[i].hops = messages[r[1]].hops + 1
             /\ outs[i].origin = r /\ outs[i].trace = messages[r[1]].trace
        /\ deliveries'[r].state = "done" /\ deliveries'[r].pgid = NoPid
        /\ \A s \in Rows : s # r =>
             deliveries'[s] = IF s \in NewRows(Len(outs), q) THEN PendingDelivery
                              ELSE deliveries[s]
        /\ active' = active + Len(outs) * Cardinality(Subscribers(q)) - 1
        /\ UNCHANGED <<versions, enabled>>
  BY DoneEffect
<1> DEFINE q == PinnedDef(r).output
<1>1. /\ deliveries[r].state = "claimed" /\ deliveries'[r].state = "done"
      /\ Len(messages) + Len(outs) <= MaxMessages
      /\ messages' = messages \o outs
      /\ \A i \in 1..Len(outs) :
           /\ outs[i].queue = q /\ outs[i].hops = messages[r[1]].hops + 1
           /\ outs[i].origin = r /\ outs[i].trace = messages[r[1]].trace
      /\ \A s \in Rows : s # r =>
           deliveries'[s] = IF s \in NewRows(Len(outs), q) THEN PendingDelivery
                            ELSE deliveries[s]
      /\ UNCHANGED <<versions, enabled>>
  BY <1>0
<1> HIDE DEF q
<1> DEFINE base == [Stat EXCEPT ![r] = "done"]
<1>2. Stat \in [Rows -> Statuses] /\ Len(outs) \in Nat
  BY StatTyped
<1>3. base \in [Rows -> Statuses] /\ \A s \in Rows : base[s] = IF s = r THEN "done" ELSE Stat[s]
  BY <1>2 DEF Statuses
<1> HIDE DEF base
<1>4. r \notin NewRows(Len(outs), q)
  BY <1>1, <1>2, NewRowsCounted
<1>5. \A s \in Rows : Stat'[s] = IF s \in NewRows(Len(outs), q) THEN "open" ELSE base[s]
  <2>1. Status(PendingDelivery.state) = "open"
    BY StatusOf DEF PendingDelivery, NoDelivery, ActiveStates
  <2>2. \A s \in Rows : /\ Stat'[s] = Status(deliveries'[s].state)
                        /\ Stat[s] = Status(deliveries[s].state)
    BY DEF Stat
  <2> QED
    BY <1>1, <1>3, <1>4, <2>1, <2>2, StatusOf
<1>6. /\ Promise!Grows /\ Promise!Opens(base)
      /\ \A i \in Promise!NewIds :
           i - Len(messages) \in 1..Len(outs) /\ messages'[i] = outs[i - Len(messages)]
  BY <1>1, <1>3, <1>5, Inserts
<1>7. messages[r[1]] \in Message
  BY <1>1, Lookups DEF MemInv
<1>8. \A i \in Promise!NewIds : /\ messages'[i].origin = r
                                /\ messages'[i].trace = messages[r[1]].trace
                                /\ messages'[i].hops = messages[r[1]].hops + 1
                                /\ messages'[i].hops <= MaxHops
  BY <1>1, <1>6, <1>7, ClaimsHaveHops
<1>9. Subs' = Subs
  BY <1>1, SameSubs
<1>10. Stat[r] = "open"
  BY <1>1, StatusOf DEF Stat, ActiveStates
<1> QED
  BY <1>6, <1>8, <1>9, <1>10 DEF Promise!Finish, Subs, Stat, base

\* The steps of the promise, as one of them.
LEMMA PromiseSteps ==
  /\ Promise!Close => Promise!PromiseNext
  /\ Promise!Publish => Promise!PromiseNext
  /\ Promise!Reconfigure => Promise!PromiseNext
  /\ \A r \in Rows : Promise!Finish(r) \/ Promise!Reopen(r) => Promise!PromiseNext
BY Names DEF Promise!PromiseNext

\* One row changes, within "open" or away from it, or none does.
LEMMA RowCloses ==
  ASSUME UNCHANGED <<messages, versions, enabled>>, NEW r \in Rows,
         deliveries[r].state \in ActiveStates,
         deliveries'[r].state \in ActiveStates \cup {"cancelled", "dead", "filtered"},
         \A s \in Rows : s # r => deliveries'[s] = deliveries[s]
  PROVE  Promise!PromiseNext
<1>1. Status(deliveries[r].state) = "open"
  BY StatusOf
<1>2. Status(deliveries'[r].state) \in {"open", "dropped", "dead"}
  BY StatusOf
<1>3. ASSUME NEW s \in Rows
      PROVE  \/ Status(deliveries'[s].state) = Status(deliveries[s].state)
             \/ /\ Status(deliveries[s].state) = "open"
                /\ Status(deliveries'[s].state) \in {"dropped", "dead"}
  BY <1>1, <1>2
<1> QED
  BY <1>3, Closes, PromiseSteps

\* Every step of the system is a step of the promise, or none.
LEMMA NextMaps ==
  InductiveInv /\ [Next]_vars => [Promise!PromiseNext]_(Promise!promiseVars)
<1> SUFFICES ASSUME PlaneInv, MemInv, [Next]_vars
             PROVE  Promise!PromiseNext
  BY InvParts
<1>1. ASSUME UNCHANGED <<messages, versions, enabled, deliveries>>
      PROVE  Promise!PromiseNext
  BY <1>1, Closes, PromiseSteps
<1>2. ASSUME NEW r \in Rows, NEW a \in Actions, Resolve(r, a) \/ ClaimAndLaunch(r, a)
      PROVE  Promise!PromiseNext
  <2>1. CASE Resolve(r, a)
    BY <2>1, ResolveEffect, RowCloses DEF ActiveStates
  <2>2. CASE ClaimAndLaunch(r, a)
    BY <2>2, ClaimEffect, RowCloses DEF ActiveStates
  <2> QED
    BY <1>2, <2>1, <2>2
<1>3. ASSUME NEW r \in Rows, PersistPgid(r) \/ TimePasses(r) \/ ReapOrphan(r) \/ ApplyFailed(r)
      PROVE  Promise!PromiseNext
  <2>1. CASE PersistPgid(r)
    BY <2>1, PgidEffect, RowCloses DEF ActiveStates
  <2>2. CASE TimePasses(r)
    BY <2>2, GateEffect, RowCloses DEF ActiveStates
  <2>3. CASE ReapOrphan(r)
    BY <2>3, ResetEffect, RowCloses DEF ActiveStates
  <2>4. CASE ApplyFailed(r)
    BY <2>4, FailEffect, RowCloses DEF ActiveStates
  <2> QED
    BY <1>3, <2>1, <2>2, <2>3, <2>4
<1>4. ASSUME NEW r \in Rows, NEW lines \in Lines, ApplyDone(r, lines)
      PROVE  Promise!PromiseNext
  BY <1>4, Finishes, PromiseSteps
<1>5. CASE InternalStep
  <2>1. CASE \/ LoadActions \/ DispatchAborted \/ BeginDrain \/ SeedAndServe
             \/ \E a \in Actions : ActionExhausted(a) \/ DispatchFails(a)
             \/ WakeOnNudge \/ WakeOnRetryTimer \/ WakeOnIdleTimer
    BY <1>1, <2>1 DEF LoadActions, DispatchAborted, ActionExhausted, DispatchFails, Advance,
       WakeOnNudge, WakeOnRetryTimer, WakeOnIdleTimer, BeginDrain, SeedAndServe, storeVars
  <2>2. ASSUME NEW r \in Rows,
               \/ \E p \in Pids : StartProcess(r, p)
               \/ SpawnFails(r) \/ PersistPgidFails(r) \/ TaskExits(r) \/ ApplyLost(r)
        PROVE  Promise!PromiseNext
    BY <1>1, <2>2 DEF StartProcess, SpawnFails, PersistPgidFails, TaskExits, ApplyLost, storeVars
  <2>3. ASSUME NEW p \in Pids, OrphanExits(p)
        PROVE  Promise!PromiseNext
    BY <1>1, <2>3 DEF OrphanExits, storeVars
  <2> QED
    BY <1>2, <1>3, <1>4, <1>5, <2>1, <2>2, <2>3
       DEF InternalStep, LoopStep, ApplyResult, WorkerStep, ReapStep, FaultStep
<1>6. CASE ClientStep
  <2>1. ASSUME NEW h \in Handlers, NEW a \in Actions, ActionDisable(h, a)
        PROVE  Promise!PromiseNext
    BY <2>1, Reconfigures, PromiseSteps DEF ActionDisable, SetActionEnabled
  <2> QED
    BY <1>6, <2>1, Publishes, Reopens, PromiseSteps DEF ClientStep
<1>7. CASE ConfigStep
  BY <1>7, Reconfigures, PromiseSteps
     DEF ConfigStep, ActionEnable, ActionApply, SetActionEnabled, ApplyAction
<1>8. ASSUME NEW h \in Handlers, CancelAction(h)
      PROVE  Promise!PromiseNext
  <2> DEFINE a == handlers[h].action
  <2>1. CancelDeliveries(a) \/ UNCHANGED storeVars
    BY <1>8 DEF CancelAction, HandleCtrl
  <2>2. CASE CancelDeliveries(a)
    <3>1. /\ UNCHANGED <<messages, versions, enabled>>
          /\ \A r \in Rows : \/ deliveries'[r] = deliveries[r]
                             \/ /\ deliveries[r].state \in ActiveStates
                                /\ deliveries'[r].state = "cancelled"
      BY <2>2, CancelEffect DEF ActiveStates
    <3> QED
      BY <3>1, Closes, PromiseSteps, StatusOf
  <2> QED
    BY <1>1, <2>1, <2>2 DEF storeVars
<1>9. CASE \/ \E h \in Handlers : WorkAdded(h) \/ CancelAbandoned(h)
           \/ IdleReadsInFlight \/ IdleReadsBusy \/ StopScheduler \/ UNCHANGED vars
           \/ StopDaemon \/ Crash \/ StartDaemon \/ \E r \in Rows : CrashInReap(r)
  <2>1. UNCHANGED storeVars
    BY <1>9 DEF WorkAdded, CancelAbandoned, IdleReadsInFlight, IdleReadsBusy, StopScheduler, vars,
       StopDaemon, Drained, Crash, StartDaemon, Boot, CrashInReap, ReapInterrupted
  <2> QED
    BY <1>1, <2>1 DEF storeVars
<1> QED
  BY <1>5, <1>6, <1>7, <1>8, <1>9 DEF Next

\* The daemon implements the promise: whatever crashes, restarts, retries, write
\* errors and concurrent requests do, the tables go through the steps of
\* DeliveryPromise only, for every number of messages, actions and handlers.
THEOREM ImplementsThePromise == Spec => ImplementsPromise
<1>1. Init => Promise!PromiseInit
  <2> SUFFICES ASSUME Init
               PROVE  Promise!PromiseInit
    OBVIOUS
  <2>1. messages = <<>> /\ \A r \in Rows : deliveries[r].state = "none"
    BY DEF Init, StoreInit, NoDelivery
  <2>2. Stat = [r \in Rows |-> "absent"]
    BY <2>1, StatusOf DEF Stat
  <2> QED
    BY <2>1, <2>2, SubsTyped, Names DEF Promise!PromiseInit, Subs, Stat
<1> QED
  BY <1>1, NextMaps, InductiveInvHolds, PTL DEF Spec, ImplementsPromise, Promise!PromiseSpec

=============================================================================
