------------------------------ MODULE Lifecycle ------------------------------
(***************************************************************************)
(* How sonata daemons and the commands that start and stop them share a    *)
(* state directory (internal/daemon, internal/cli): two flock(2) files, a  *)
(* PID in one of them, and a Unix socket whose path anyone may unlink.     *)
(*                                                                         *)
(*   lock       holder of sonata.lock: a daemon, or a command that tries   *)
(*              it for a moment in RunningPID.                             *)
(*   startLock  holder of sonata.start.lock.                               *)
(*   pidFile    the PID in sonata.lock; Nobody when it cannot be parsed.   *)
(*   socket     the daemon that bound the socket file; Nobody: no file.    *)
(*   daemon     where each process is in daemon.Run:                       *)
(*              waiting (AcquireWait), locked, blank (the PID truncated),  *)
(*              titled (written), swept (stale socket removed), bound      *)
(*              (listening; opens the store and reaps), serving, closed    *)
(*              (listener closed, requests finish), draining (the          *)
(*              scheduler's tasks end), leaving (socket removed);          *)
(*              refused: exited because the lock was held; dead.           *)
(*   term       SIGTERM was caught.                                        *)
(*   ticks      time spent waiting, closed or draining.                    *)
(*   parent     the command that spawned a daemon and still runs: a child  *)
(*              it never waits for stays a zombie until then.              *)
(*   pc         where each command is; pid: the PID it spawned or stops;   *)
(*              conn: the daemon its health probe is connected to.         *)
(*   disturbed  history, read by properties only: a daemon was run by      *)
(*              hand, a command was interrupted, or `down` was given.      *)
(***************************************************************************)
EXTENDS Naturals, FiniteSets

CONSTANTS
  Daemons,        \* PIDs of daemons; one is used again once nothing names it
  Clients,        \* command-line processes
  Nobody,
  Commands,       \* of "ensure" (up, and every data command) and "down"
  ShutdownGrace,  \* bound on closed
  TermGrace,      \* bound on draining: SIGTERM to SIGKILL of a task
  LockWait,       \* bound on waiting
  Faults          \* what may happen: the members of Incidents

\* A daemon reaches its idle timeout, is killed, or fails to start or to serve; a
\* command is interrupted; a daemon is run in the foreground.
Incidents == {"idle", "crash", "failure", "abandon", "foreground"}

ASSUME LifecycleAssumption ==
  /\ Nobody \notin Daemons \cup Clients
  /\ Daemons \cap Clients = {}
  /\ Commands \subseteq {"ensure", "down"}
  /\ ShutdownGrace \in Nat /\ TermGrace \in Nat /\ LockWait \in Nat
  /\ Faults \subseteq Incidents

VARIABLES lock, startLock, pidFile, socket, daemon, term, ticks, parent, pc, pid, conn,
          disturbed

files      == <<lock, startLock, pidFile, socket>>
daemonVars == <<daemon, term, ticks, parent>>
clientVars == <<pc, pid, conn>>
vars       == <<files, daemonVars, clientVars, disturbed>>

Dead     == {"dead", "refused"}
Starting == {"waiting", "locked", "blank", "titled", "swept", "bound"}
Stopping == {"closed", "draining", "leaving"}

\* The phases in which a daemon listens, holds the lock, and has the store.
ListenPhases == {"bound", "serving"}
LockPhases   == {"locked", "blank", "titled", "swept", "bound", "serving"} \cup Stopping
StorePhases  == {"bound", "serving", "closed", "draining"}

CommandStates ==
  {"idle", "interrupted", "single", "probe", "asking", "sweep", "spawn", "ready", "greeting", "who",
   "whoasking", "try", "holding", "read", "term", "poll", "kill", "unlink"}

\* Every file, process and command is in one of its states.
TypeOK ==
  /\ lock \in Daemons \cup Clients \cup {Nobody}
  /\ startLock \in Clients \cup {Nobody}
  /\ pidFile \in Daemons \cup {Nobody}
  /\ socket \in Daemons \cup {Nobody}
  /\ daemon \in [Daemons -> {"new", "serving"} \cup Dead \cup Starting \cup Stopping]
  /\ term \in [Daemons -> BOOLEAN]
  /\ ticks \in [Daemons -> 0..(LockWait + ShutdownGrace + TermGrace)]
  /\ parent \in [Daemons -> Clients \cup {Nobody}]
  /\ pc \in [Clients -> CommandStates]
  /\ pid \in [Clients -> Daemons \cup {Nobody}]
  /\ conn \in [Clients -> Daemons \cup {Nobody}]
  /\ disturbed \in BOOLEAN

Init ==
  /\ lock = Nobody /\ startLock = Nobody /\ pidFile = Nobody /\ socket = Nobody
  /\ daemon = [d \in Daemons |-> "new"]
  /\ term = [d \in Daemons |-> FALSE]
  /\ ticks = [d \in Daemons |-> 0]
  /\ parent = [d \in Daemons |-> Nobody]
  /\ pc = [c \in Clients |-> "idle"]
  /\ pid = [c \in Clients |-> Nobody]
  /\ conn = [c \in Clients |-> Nobody]
  /\ disturbed = FALSE

-----------------------------------------------------------------------------
(* daemon.Run. *)

\* Time passes in ticks; a bounded wait that has used up its bound ends first.
Limit(phase) == CASE phase = "waiting"  -> LockWait
                  [] phase = "closed"   -> ShutdownGrace
                  [] phase = "draining" -> TermGrace
                  [] phase = "leaving"  -> 0

Timed(d) == daemon[d] \in {"waiting"} \cup Stopping

\* Mutated form: no wait has a deadline.
Tick_NoDeadline ==
  /\ \E d \in Daemons : Timed(d)
  /\ ticks' = [d \in Daemons |-> IF Timed(d) THEN ticks[d] + 1 ELSE ticks[d]]
  /\ UNCHANGED <<files, daemon, term, parent, clientVars, disturbed>>

Tick ==
  /\ \E d \in Daemons : Timed(d)
  /\ \A d \in Daemons : Timed(d) => ticks[d] < Limit(daemon[d])
  /\ ticks' = [d \in Daemons |-> IF Timed(d) THEN ticks[d] + 1 ELSE ticks[d]]
  /\ UNCHANGED <<files, daemon, term, parent, clientVars, disturbed>>

Goto(d, phase) ==
  /\ daemon' = [daemon EXCEPT ![d] = phase]
  /\ ticks' = [ticks EXCEPT ![d] = 0]

TakeLock(d) ==
  /\ daemon[d] = "waiting"
  /\ lock = Nobody
  /\ lock' = d
  /\ Goto(d, "locked")
  /\ UNCHANGED <<startLock, pidFile, socket, term, parent, clientVars>>

\* Mutated form: the lock is tried once.
LockRefused_AtOnce(d) ==
  /\ daemon[d] = "waiting"
  /\ lock # Nobody
  /\ Goto(d, "refused")
  /\ UNCHANGED <<files, term, parent, clientVars>>

\* AcquireWait gives up at its deadline.
LockRefused(d) ==
  /\ daemon[d] = "waiting"
  /\ lock # Nobody
  /\ ticks[d] = LockWait
  /\ Goto(d, "refused")
  /\ UNCHANGED <<files, term, parent, clientVars>>

\* WritePID truncates first and writes second.
TruncatePID(d) ==
  /\ daemon[d] = "locked"
  /\ pidFile' = Nobody
  /\ Goto(d, "blank")
  /\ UNCHANGED <<lock, startLock, socket, term, parent, clientVars>>

WritePID(d) ==
  /\ daemon[d] = "blank"
  /\ pidFile' = d
  /\ Goto(d, "titled")
  /\ UNCHANGED <<lock, startLock, socket, term, parent, clientVars>>

RemoveStaleSocket(d) ==
  /\ daemon[d] = "titled"
  /\ socket' = Nobody
  /\ Goto(d, "swept")
  /\ UNCHANGED <<lock, startLock, pidFile, term, parent, clientVars>>

Listen(d) ==
  /\ daemon[d] = "swept"
  /\ socket = Nobody
  /\ socket' = d
  /\ Goto(d, "bound")
  /\ UNCHANGED <<lock, startLock, pidFile, term, parent, clientVars>>

\* The store is open, orphans are reaped, the scheduler is ready.
Serve(d) ==
  /\ daemon[d] = "bound"
  /\ Goto(d, "serving")
  /\ UNCHANGED <<files, term, parent, clientVars>>

\* A step of the start fails: the deferred calls run, and one that removes the
\* socket among them once it is bound.
StartupFails(d) ==
  /\ "failure" \in Faults
  /\ daemon[d] \in {"locked", "blank", "titled", "swept", "bound"}
  /\ socket' = IF daemon[d] = "bound" THEN Nobody ELSE socket
  /\ Goto(d, "leaving")
  /\ UNCHANGED <<lock, startLock, pidFile, term, parent, clientVars>>

\* Serve returns an error: Run returns without a Shutdown.
ServeFails(d) ==
  /\ "failure" \in Faults
  /\ daemon[d] = "serving"
  /\ socket' = Nobody
  /\ Goto(d, "draining")
  /\ term' = [term EXCEPT ![d] = FALSE]
  /\ UNCHANGED <<lock, startLock, pidFile, parent, clientVars>>

\* A signal, or the idle timeout: Shutdown closes the listener, which unlinks
\* the path.
CloseListener(d) ==
  /\ daemon[d] = "serving"
  /\ term[d] \/ "idle" \in Faults
  /\ socket' = Nobody
  /\ Goto(d, "closed")
  /\ UNCHANGED <<lock, startLock, pidFile, term, parent, clientVars>>

\* Mutated form: the lock is released before the scheduler is drained.
RequestsDone_Unlocks(d) ==
  /\ daemon[d] = "closed"
  /\ Goto(d, "draining")
  /\ term' = [term EXCEPT ![d] = FALSE]
  /\ lock' = Nobody
  /\ UNCHANGED <<startLock, pidFile, socket, parent, clientVars>>

\* Run returns: signals get their default action back, the scheduler is stopped.
RequestsDone(d) ==
  /\ daemon[d] = "closed"
  /\ Goto(d, "draining")
  /\ term' = [term EXCEPT ![d] = FALSE]
  /\ UNCHANGED <<files, parent, clientVars>>

\* The scheduler has drained, the store is closed, the socket path removed.
DrainDone(d) ==
  /\ daemon[d] = "draining"
  /\ socket' = Nobody
  /\ Goto(d, "leaving")
  /\ UNCHANGED <<lock, startLock, pidFile, term, parent, clientVars>>

\* The process ends, whatever it was doing; flock goes with it.
Exit(d) ==
  /\ Goto(d, "dead")
  /\ term' = [term EXCEPT ![d] = FALSE]
  /\ lock' = IF lock = d THEN Nobody ELSE lock

Release(d) ==
  /\ daemon[d] = "leaving"
  /\ Exit(d)
  /\ UNCHANGED <<startLock, pidFile, socket, parent, clientVars>>

Running(d) == daemon[d] \notin {"new"} \cup Dead

Crash(d) ==
  /\ "crash" \in Faults
  /\ Running(d)
  /\ Exit(d)
  /\ UNCHANGED <<startLock, pidFile, socket, parent, clientVars>>

-----------------------------------------------------------------------------
(* Commands. *)

\* The kernel gives out a PID that no process, file or command still names.
Unused(d) ==
  /\ daemon[d] \in {"new"} \cup Dead
  /\ parent[d] = Nobody /\ pidFile # d /\ socket # d
  /\ \A c \in Clients : pid[c] # d /\ conn[c] # d

Launch(d, c) ==
  /\ Unused(d)
  /\ Goto(d, "waiting")
  /\ parent' = [parent EXCEPT ![d] = c]
  /\ UNCHANGED term

\* `sonata daemon`, run by hand or by a supervisor: no start lock.
Foreground(d) ==
  /\ "foreground" \in Faults
  /\ Launch(d, Nobody)
  /\ disturbed' = TRUE
  /\ UNCHANGED <<files, clientVars>>

\* Every step a daemon takes, or that happens to it.
DaemonStep(d) ==
  \/ Foreground(d)
  \/ /\ \/ TakeLock(d) \/ LockRefused(d) \/ TruncatePID(d) \/ WritePID(d)
        \/ RemoveStaleSocket(d) \/ Listen(d) \/ Serve(d) \/ CloseListener(d)
        \/ RequestsDone(d) \/ DrainDone(d) \/ Release(d)
        \/ StartupFails(d) \/ ServeFails(d) \/ Crash(d)
     /\ UNCHANGED disturbed

At(c, where) == pc[c] = where

Move(c, where) == pc' = [pc EXCEPT ![c] = where]

\* The command's process ends: its locks are free, its children reparented.
End(c, how) ==
  /\ pc' = [pc EXCEPT ![c] = how]
  /\ pid' = [pid EXCEPT ![c] = Nobody]
  /\ conn' = [conn EXCEPT ![c] = Nobody]
  /\ parent' = [d \in Daemons |-> IF parent[d] = c THEN Nobody ELSE parent[d]]
  /\ startLock' = IF startLock = c THEN Nobody ELSE startLock
  /\ lock' = IF lock = c THEN Nobody ELSE lock
  /\ UNCHANGED <<pidFile, socket, daemon, term, ticks>>

Finish(c) == End(c, "idle")

\* A command is not running: the last one returned, or was interrupted.
Ended(c) == pc[c] \in {"idle", "interrupted"}

\* Alive: kill(pid, 0) also succeeds for a zombie.
Alive(d) == Running(d) \/ (daemon[d] \in Dead /\ parent[d] # Nobody)

\* The dial reaches a listener.
Dialable == socket # Nobody /\ daemon[socket] \in ListenPhases

\* A probe: ErrNoDaemon, or connected and waiting for the answer.
Dial(c, from, absent, asking) ==
  /\ At(c, from)
  /\ IF Dialable
     THEN Move(c, asking) /\ conn' = [conn EXCEPT ![c] = socket]
     ELSE Move(c, absent) /\ UNCHANGED conn
  /\ UNCHANGED <<files, daemonVars, pid>>

Answered(c) == daemon[conn[c]] = "serving"

\* Begin EnsureRunning: wait for the start lock; give up when it stays held.
EnsureRunning(c) ==
  /\ "ensure" \in Commands
  /\ Ended(c)
  /\ Move(c, "single")
  /\ UNCHANGED <<files, daemonVars, pid, conn, disturbed>>

\* Mutated form: the probe does not wait for the start lock.
TakeStartLock_NoWait(c) ==
  /\ At(c, "single")
  /\ startLock' = c
  /\ Move(c, "probe")
  /\ UNCHANGED <<lock, pidFile, socket, daemonVars, pid, conn>>

TakeStartLock(c) ==
  /\ At(c, "single")
  /\ startLock = Nobody
  /\ startLock' = c
  /\ Move(c, "probe")
  /\ UNCHANGED <<lock, pidFile, socket, daemonVars, pid, conn>>

StartLockTimesOut(c) ==
  /\ At(c, "single")
  /\ startLock # Nobody
  /\ Finish(c)

EnsureProbe(c) == Dial(c, "probe", "sweep", "asking")

\* A healthy daemon, or an error that is not ErrNoDaemon: the command ends.
EnsureProbeEnds(c) ==
  /\ At(c, "asking")
  /\ Finish(c)

\* Remove the socket file taken to be stale.
EnsureSweep(c) ==
  /\ At(c, "sweep")
  /\ socket' = Nobody
  /\ Move(c, "spawn")
  /\ UNCHANGED <<lock, startLock, pidFile, daemonVars, pid, conn>>

Spawn(c, d) ==
  /\ At(c, "spawn")
  /\ Launch(d, c)
  /\ Move(c, "ready")
  /\ pid' = [pid EXCEPT ![c] = d]
  /\ UNCHANGED <<files, conn>>

SpawnFails(c) ==
  /\ At(c, "spawn")
  /\ Finish(c)

\* WaitReady polls.
WaitReady(c) == Dialable /\ Dial(c, "ready", "ready", "greeting")

\* The spawned daemon answered, or another one did, which is an error.
Ready(c) ==
  /\ At(c, "greeting")
  /\ Answered(c)
  /\ Finish(c)

\* The connection broke: poll on.
GreetingLost(c) ==
  /\ At(c, "greeting")
  /\ daemon[conn[c]] \notin ListenPhases
  /\ Move(c, "ready")
  /\ conn' = [conn EXCEPT ![c] = Nobody]
  /\ UNCHANGED <<files, daemonVars, pid>>

\* The ready timeout: stop the half-started child.
ReadyTimesOut(c) ==
  /\ pc[c] \in {"ready", "greeting"}
  /\ Move(c, "term")
  /\ conn' = [conn EXCEPT ![c] = Nobody]
  /\ UNCHANGED <<files, daemonVars, pid>>

\* `sonata down`: resolveDaemonPID probes first ...
Down(c) ==
  /\ "down" \in Commands
  /\ Ended(c)
  /\ Move(c, "who")
  /\ disturbed' = TRUE
  /\ UNCHANGED <<files, daemonVars, pid, conn>>

DownProbe(c) == Dial(c, "who", "try", "whoasking")

DownProbeAnswers(c) ==
  /\ At(c, "whoasking")
  /\ Answered(c)
  /\ Move(c, "term")
  /\ pid' = [pid EXCEPT ![c] = conn[c]]
  /\ conn' = [conn EXCEPT ![c] = Nobody]
  /\ UNCHANGED <<files, daemonVars>>

DownProbeFails(c) ==
  /\ At(c, "whoasking")
  /\ ~Answered(c)
  /\ Finish(c)

\* ... and falls back to RunningPID: try the lock, and read the PID if held.
RunningPID(c) ==
  /\ At(c, "try")
  /\ IF lock = Nobody
     THEN lock' = c /\ Move(c, "holding")
     ELSE UNCHANGED lock /\ Move(c, "read")
  /\ UNCHANGED <<startLock, pidFile, socket, daemonVars, pid, conn>>

NothingRuns(c) ==
  /\ At(c, "holding")
  /\ Finish(c)

ReadPID(c) ==
  /\ At(c, "read")
  /\ pidFile # Nobody
  /\ Move(c, "term")
  /\ pid' = [pid EXCEPT ![c] = pidFile]
  /\ UNCHANGED <<files, daemonVars, conn>>

PIDUnreadable(c) ==
  /\ At(c, "read")
  /\ pidFile = Nobody
  /\ Finish(c)

\* Stop: SIGTERM.  It ends a process that has not installed its handler yet, or
\* has removed it again; a serving daemon catches it; ESRCH ends the command.
SigTerm(c) ==
  LET d == pid[c] IN
  /\ At(c, "term")
  /\ Alive(d)
  /\ Move(c, "poll")
  /\ \/ daemon[d] \in {"serving", "closed"} /\ term' = [term EXCEPT ![d] = TRUE]
        /\ UNCHANGED <<lock, daemon, ticks>>
     \/ Running(d) /\ daemon[d] \notin {"serving", "closed"} /\ Exit(d)
     \/ ~Running(d) /\ UNCHANGED <<lock, daemon, term, ticks>>
  /\ UNCHANGED <<startLock, pidFile, socket, parent, pid, conn>>

StopAlreadyGone(c) ==
  /\ At(c, "term")
  /\ ~Alive(pid[c])
  /\ Finish(c)

\* Mutated form: only the socket is waited for.
Stopped_SocketOnly(c) ==
  /\ At(c, "poll")
  /\ socket = Nobody
  /\ Finish(c)

Stopped(c) ==
  /\ At(c, "poll")
  /\ ~Alive(pid[c])
  /\ socket = Nobody
  /\ Finish(c)

StopTimesOut(c) ==
  /\ At(c, "poll")
  /\ Alive(pid[c]) \/ socket # Nobody
  /\ Move(c, "kill")
  /\ UNCHANGED <<files, daemonVars, pid, conn>>

\* Mutated form: no SIGKILL.
SigKill_Skipped(c) ==
  /\ At(c, "kill")
  /\ Move(c, "unlink")
  /\ UNCHANGED <<files, daemonVars, pid, conn>>

\* SIGKILL takes effect at once here; the kernel may need a moment, for which Stop
\* does not wait.
SigKill(c) ==
  /\ At(c, "kill")
  /\ Move(c, "unlink")
  /\ IF Running(pid[c]) THEN Exit(pid[c])
     ELSE UNCHANGED <<lock, daemon, term, ticks>>
  /\ UNCHANGED <<startLock, pidFile, socket, parent, pid, conn>>

\* Stop clears the socket path, and its command ends.
StopUnlinks(c) ==
  /\ At(c, "unlink")
  /\ socket' = Nobody
  /\ pc' = [pc EXCEPT ![c] = "idle"]
  /\ pid' = [pid EXCEPT ![c] = Nobody]
  /\ parent' = [d \in Daemons |-> IF parent[d] = c THEN Nobody ELSE parent[d]]
  /\ startLock' = IF startLock = c THEN Nobody ELSE startLock
  /\ UNCHANGED <<lock, pidFile, daemon, term, ticks, conn>>

\* The command is interrupted; it may leave a daemon that is still starting.
Abandon(c) ==
  /\ "abandon" \in Faults
  /\ ~Ended(c)
  /\ End(c, "interrupted")
  /\ disturbed' = TRUE

ClientStep(c) ==
  /\ \/ TakeStartLock(c) \/ StartLockTimesOut(c) \/ EnsureProbe(c) \/ EnsureProbeEnds(c)
     \/ EnsureSweep(c) \/ SpawnFails(c) \/ \E d \in Daemons : Spawn(c, d)
     \/ WaitReady(c) \/ Ready(c) \/ GreetingLost(c) \/ ReadyTimesOut(c)
     \/ DownProbe(c) \/ DownProbeAnswers(c) \/ DownProbeFails(c)
     \/ RunningPID(c) \/ NothingRuns(c) \/ ReadPID(c) \/ PIDUnreadable(c)
     \/ SigTerm(c) \/ StopAlreadyGone(c) \/ Stopped(c) \/ StopTimesOut(c)
     \/ SigKill(c) \/ StopUnlinks(c)
  /\ UNCHANGED disturbed

Next ==
  \/ \E d \in Daemons : DaemonStep(d)
  \/ \E c \in Clients : EnsureRunning(c) \/ Down(c) \/ ClientStep(c) \/ Abandon(c)
  \/ Tick

Spec == Init /\ [][Next]_vars

\* A command's process runs, and every wait of it has a deadline.  Nothing is
\* assumed of daemons, which may hang in any phase.
FairSpec == Spec /\ \A c \in Clients : WF_vars(ClientStep(c))
-----------------------------------------------------------------------------
(* Properties. *)

\* One daemon at a time has the store open, from before it reaps orphans until
\* its last task has ended: a daemon never reaps the tasks of a live one.
OneDaemonHasTheStore ==
  \A d, e \in Daemons :
    daemon[d] \in StorePhases /\ daemon[e] \in StorePhases => d = e

\* Every daemon that is past AcquireWait and has not exited holds the lock.
LockHeld == \A d \in Daemons : daemon[d] \in LockPhases => lock = d

\* A command that signals has a PID, one that waits for an answer a connection.
CommandsNameDaemons ==
  \A c \in Clients :
    /\ pc[c] \in {"ready", "greeting", "term", "poll", "kill", "unlink"} => pid[c] \in Daemons
    /\ pc[c] \in {"asking", "greeting", "whoasking"} => conn[c] \in Daemons

\* The inductive invariant behind the theorems of LifecycleProofs.
LifecycleInv == TypeOK /\ LockHeld /\ CommandsNameDaemons

\* Run unlinks the socket path before it listens, when it fails to start, when
\* it closes its listener and when it leaves; never while another daemon listens
\* there.
RunSparesOtherSockets ==
  [][socket # Nobody /\ socket' # socket /\ UNCHANGED pc =>
       \/ daemon[socket] \notin ListenPhases
       \/ daemon'[socket] # daemon[socket]]_vars

\* Commands that find no daemon at the same moment collapse into one spawn:
\* besides daemons that are on their way out there is at most one, as long as
\* only EnsureRunning has been at work and no command was interrupted.
SingleFlight ==
  ~disturbed => \A d, e \in Daemons :
    /\ daemon[d] \in Starting \cup {"serving"}
    /\ daemon[e] \in Starting \cup {"serving"}
    => d = e

\* As long as only EnsureRunning has been at work, no daemon is cut off from its
\* clients by the removal of its socket file.
ServingIsReachable ==
  ~disturbed => \A d \in Daemons : daemon[d] = "serving" => socket = d

\* How long a daemon that stops has been at it, at most.
Elapsed(d) ==
  CASE daemon[d] = "closed"   -> ticks[d]
    [] daemon[d] = "draining" -> ShutdownGrace + ticks[d]
    [] daemon[d] = "leaving"  -> ShutdownGrace + TermGrace

\* As long as only EnsureRunning has been at work, a successor gives up on the
\* lock only when its holder is on its way out, and no sooner than lockWait into
\* that: with the code's 7 s and 5 s never while requests finish, nor in the
\* first 2 s of the drain.
RefusalsAreLate ==
  [][\A d, e \in Daemons :
       /\ ~disturbed
       /\ daemon[d] = "waiting" /\ daemon'[d] = "refused" /\ lock = e
       => daemon[e] \in Stopping /\ LockWait <= Elapsed(e)]_vars

\* Stop returns only when the process it was asked to stop has ended, or has been
\* sent SIGKILL, which ends it at once in this model.
StopMeansDead ==
  [][\A c \in Clients :
       pc[c] \in {"term", "poll", "unlink"} /\ pc'[c] = "idle" =>
         daemon'[pid[c]] \in Dead]_vars

\* However a daemon hangs, Stop ends it, unless it is interrupted: SIGTERM is
\* followed by SIGKILL.
StopEndsTheProcess ==
  \A c \in Clients, d \in Daemons :
    (pc[c] = "poll" /\ pid[c] = d) ~> (~Running(d) \/ pc[c] = "interrupted")

-----------------------------------------------------------------------------
(* A statement of the code's comments that it does not keep. *)

\* lockWait: a client "spawns a successor - which must outlast the
\* predecessor's drain": no daemon gives up on a lock whose holder is leaving.
SuccessorOutlastsDrain ==
  [][\A d, e \in Daemons :
       daemon[d] = "waiting" /\ daemon'[d] = "refused" /\ lock = e =>
         daemon[e] \notin Stopping]_vars

=============================================================================
