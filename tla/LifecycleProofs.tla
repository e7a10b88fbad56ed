-------------------------- MODULE LifecycleProofs --------------------------
(***************************************************************************)
(* Theorems about Lifecycle, for any number of daemons and commands and    *)
(* any time limits.  That one daemon has the store rests on the lock       *)
(* alone: commands remove sockets, kill daemons and try the lock as they   *)
(* like.  What a start promises holds for as long as no command stops a    *)
(* daemon or is interrupted, and rests on the start lock.                  *)
(***************************************************************************)
EXTENDS Lifecycle, TLAPS

\* A daemon that moves on between two phases keeps the types.
LEMMA GotoKeepsType ==
  ASSUME TypeOK, NEW d \in Daemons,
         NEW phase \in {"new", "serving"} \cup Dead \cup Starting \cup Stopping,
         Goto(d, phase)
  PROVE  /\ daemon' \in [Daemons -> {"new", "serving"} \cup Dead \cup Starting \cup Stopping]
         /\ ticks' \in [Daemons -> 0..(LockWait + ShutdownGrace + TermGrace)]
         /\ \A e \in Daemons : daemon'[e] = IF e = d THEN phase ELSE daemon[e]
<1>1. 0 \in 0..(LockWait + ShutdownGrace + TermGrace)
  BY LifecycleAssumption
<1> QED
  BY <1>1 DEF TypeOK, Goto

\* The end of a process frees the lock only if it held it.
LEMMA ExitKeepsInv ==
  ASSUME LifecycleInv, NEW d \in Daemons, Exit(d)
  PROVE  /\ daemon' \in [Daemons -> {"new", "serving"} \cup Dead \cup Starting \cup Stopping]
         /\ ticks' \in [Daemons -> 0..(LockWait + ShutdownGrace + TermGrace)]
         /\ term' \in [Daemons -> BOOLEAN]
         /\ lock' \in Daemons \cup Clients \cup {Nobody}
         /\ LockHeld'
<1>1. "dead" \in {"new", "serving"} \cup Dead \cup Starting \cup Stopping
  BY DEF Dead
<1>2. /\ daemon' \in [Daemons -> {"new", "serving"} \cup Dead \cup Starting \cup Stopping]
      /\ ticks' \in [Daemons -> 0..(LockWait + ShutdownGrace + TermGrace)]
      /\ \A e \in Daemons : daemon'[e] = IF e = d THEN "dead" ELSE daemon[e]
  BY <1>1, GotoKeepsType DEF LifecycleInv, Exit
<1>3. term' \in [Daemons -> BOOLEAN]
  BY DEF Exit, LifecycleInv, TypeOK
<1>4. lock' \in Daemons \cup Clients \cup {Nobody}
  BY DEF Exit, LifecycleInv, TypeOK
<1>5. LockHeld'
  BY <1>2 DEF Exit, LifecycleInv, LockHeld, LockPhases, Stopping
<1> QED
  BY <1>2, <1>3, <1>4, <1>5

\* Every step remembers a disturbance or makes one.
LEMMA DisturbedTyped ==
  ASSUME TypeOK, [Next]_vars
  PROVE  disturbed' \in BOOLEAN /\ (~disturbed' => ~disturbed)
<1>1. disturbed' = TRUE \/ disturbed' = disturbed
  BY DEF Next, DaemonStep, Foreground, ClientStep, EnsureRunning, Down, Abandon, Tick, vars
<1>2. disturbed \in BOOLEAN
  BY DEF TypeOK
<1>3. CASE disturbed' = TRUE
  BY <1>3
<1>4. CASE disturbed' = disturbed
  BY <1>2, <1>4
<1> QED
  BY <1>1, <1>3, <1>4

\* A command that ends can free only a lock that no daemon holds.
LEMMA EndKeepsInv ==
  ASSUME LifecycleInv, NEW c \in Clients, NEW how \in {"idle", "interrupted"}, End(c, how),
         disturbed' \in BOOLEAN
  PROVE  LifecycleInv'
<1> USE DEF LifecycleInv, End
<1>1. TypeOK'
  <2>1. /\ pc' \in [Clients -> CommandStates]
        /\ pid' \in [Clients -> Daemons \cup {Nobody}]
        /\ conn' \in [Clients -> Daemons \cup {Nobody}]
        /\ parent' \in [Daemons -> Clients \cup {Nobody}]
    BY DEF TypeOK, CommandStates
  <2>2. startLock' \in Clients \cup {Nobody} /\ lock' \in Daemons \cup Clients \cup {Nobody}
    BY DEF TypeOK
  <2> QED
    BY <2>1, <2>2 DEF TypeOK
<1>2. LockHeld'
  BY LifecycleAssumption DEF LockHeld
<1>3. CommandsNameDaemons'
  BY DEF CommandsNameDaemons, TypeOK
<1> QED
  BY <1>1, <1>2, <1>3

\* The steps of daemon.Run.
LEMMA RunKeepsInv ==
  ASSUME LifecycleInv, disturbed' \in BOOLEAN, NEW d \in Daemons, DaemonStep(d)
  PROVE  LifecycleInv'
<1> USE DEF LifecycleInv
<1>0. ASSUME UNCHANGED clientVars
      PROVE  CommandsNameDaemons'
  BY <1>0 DEF CommandsNameDaemons, clientVars
<1>1. CASE Release(d) \/ Crash(d)
  <2>1. Exit(d) /\ UNCHANGED <<startLock, pidFile, socket, parent, clientVars>>
    BY <1>1 DEF Release, Crash
  <2> QED
    BY <1>0, <2>1, ExitKeepsInv DEF TypeOK, clientVars
<1>2. ASSUME NEW phase \in {"serving", "refused"} \cup Starting \cup Stopping, Goto(d, phase),
             lock' \in Daemons \cup Clients \cup {Nobody},
             pidFile' \in Daemons \cup {Nobody},
             socket' \in Daemons \cup {Nobody},
             term' \in [Daemons -> BOOLEAN],
             parent' \in [Daemons -> Clients \cup {Nobody}],
             UNCHANGED <<startLock, clientVars>>
      PROVE  /\ TypeOK'
             /\ \A e \in Daemons : daemon'[e] = IF e = d THEN phase ELSE daemon[e]
  <2>1. phase \in {"new", "serving"} \cup Dead \cup Starting \cup Stopping
    BY <1>2 DEF Dead
  <2>2. /\ daemon' \in [Daemons -> {"new", "serving"} \cup Dead \cup Starting \cup Stopping]
        /\ ticks' \in [Daemons -> 0..(LockWait + ShutdownGrace + TermGrace)]
        /\ \A e \in Daemons : daemon'[e] = IF e = d THEN phase ELSE daemon[e]
    BY <1>2, <2>1, GotoKeepsType
  <2> QED
    BY <1>2, <2>2 DEF TypeOK, clientVars
<1>3. CASE TakeLock(d)
  <2>1. TypeOK' /\ \A e \in Daemons : daemon'[e] = IF e = d THEN "locked" ELSE daemon[e]
    BY <1>2, <1>3 DEF TakeLock, Starting, TypeOK
  <2>2. LockHeld'
    BY <1>3, <2>1, LifecycleAssumption DEF TakeLock, LockHeld
  <2> QED
    BY <1>0, <1>3, <2>1, <2>2 DEF TakeLock
<1>4. CASE LockRefused(d)
  <2>1. TypeOK' /\ \A e \in Daemons : daemon'[e] = IF e = d THEN "refused" ELSE daemon[e]
    BY <1>2, <1>4 DEF LockRefused, files, TypeOK
  <2> QED
    BY <1>0, <1>4, <2>1 DEF LockRefused, files, LockHeld, LockPhases, Stopping
<1>5. ASSUME NEW phase \in {"serving"} \cup Starting \cup Stopping, Goto(d, phase),
             daemon[d] \in LockPhases, lock' = lock,
             pidFile' \in Daemons \cup {Nobody},
             socket' \in Daemons \cup {Nobody},
             term' \in [Daemons -> BOOLEAN],
             UNCHANGED <<startLock, parent, clientVars>>
      PROVE  LifecycleInv'
  <2>1. TypeOK' /\ \A e \in Daemons : daemon'[e] = IF e = d THEN phase ELSE daemon[e]
    BY <1>2, <1>5 DEF TypeOK
  <2> QED
    BY <1>0, <1>5, <2>1 DEF LockHeld
<1>6. CASE TruncatePID(d) \/ WritePID(d)
  BY <1>5, <1>6 DEF TruncatePID, WritePID, Starting, LockPhases, TypeOK
<1>7. CASE RemoveStaleSocket(d) \/ Listen(d)
  BY <1>5, <1>7 DEF RemoveStaleSocket, Listen, Starting, LockPhases, TypeOK
<1>8. CASE Serve(d)
  BY <1>5, <1>8 DEF Serve, files, LockPhases, TypeOK
<1>9. CASE StartupFails(d) \/ CloseListener(d) \/ DrainDone(d)
  BY <1>5, <1>9 DEF StartupFails, CloseListener, DrainDone, Stopping, LockPhases, TypeOK
<1>10. CASE RequestsDone(d) \/ ServeFails(d)
  <2>1. term' \in [Daemons -> BOOLEAN]
    BY <1>10 DEF RequestsDone, ServeFails, TypeOK
  <2> QED
    BY <1>5, <1>10, <2>1 DEF RequestsDone, ServeFails, files, Stopping, LockPhases, TypeOK
<1>11. CASE Foreground(d)
  <2>1. parent' \in [Daemons -> Clients \cup {Nobody}]
    BY <1>11 DEF Foreground, Launch, TypeOK
  <2>2. TypeOK' /\ \A e \in Daemons : daemon'[e] = IF e = d THEN "waiting" ELSE daemon[e]
    BY <1>2, <1>11, <2>1 DEF Foreground, Launch, files, Starting, TypeOK
  <2> QED
    BY <1>0, <1>11, <2>2 DEF Foreground, files, LockHeld, LockPhases, Stopping
<1> QED
  BY <1>1, <1>3, <1>4, <1>6, <1>7, <1>8, <1>9, <1>10, <1>11 DEF DaemonStep

\* The steps of a command, interrupted ones included.
LEMMA CommandKeepsInv ==
  ASSUME LifecycleInv, disturbed' \in BOOLEAN, NEW c \in Clients,
         EnsureRunning(c) \/ Down(c) \/ ClientStep(c) \/ Abandon(c)
  PROVE  LifecycleInv'
<1> USE DEF LifecycleInv
<1>1. CASE \/ StartLockTimesOut(c) \/ EnsureProbeEnds(c) \/ SpawnFails(c) \/ Ready(c)
           \/ DownProbeFails(c) \/ NothingRuns(c) \/ PIDUnreadable(c)
           \/ StopAlreadyGone(c) \/ Stopped(c) \/ Abandon(c)
  BY <1>1, EndKeepsInv DEF StartLockTimesOut, EnsureProbeEnds, SpawnFails, Ready,
     DownProbeFails, NothingRuns, PIDUnreadable, StopAlreadyGone, Stopped, Abandon, Finish
<1> DEFINE Named(w, p, k) ==
             /\ w \in {"ready", "greeting", "term", "poll", "kill", "unlink"} => p \in Daemons
             /\ w \in {"asking", "greeting", "whoasking"} => k \in Daemons
<1>2. ASSUME NEW w \in CommandStates, NEW p \in Daemons \cup {Nobody},
             NEW k \in Daemons \cup {Nobody}, Named(w, p, k),
             pc' = [pc EXCEPT ![c] = w],
             pid' = [pid EXCEPT ![c] = p], conn' = [conn EXCEPT ![c] = k]
      PROVE  /\ pc' \in [Clients -> CommandStates]
             /\ pid' \in [Clients -> Daemons \cup {Nobody}]
             /\ conn' \in [Clients -> Daemons \cup {Nobody}]
             /\ CommandsNameDaemons'
  <2>1. /\ pc' \in [Clients -> CommandStates]
        /\ pid' \in [Clients -> Daemons \cup {Nobody}]
        /\ conn' \in [Clients -> Daemons \cup {Nobody}]
    BY <1>2 DEF TypeOK
  <2>2. CommandsNameDaemons'
    BY <1>2 DEF TypeOK, CommandsNameDaemons
  <2> QED
    BY <2>1, <2>2
<1>3. /\ pid[c] \in Daemons \cup {Nobody} /\ pid = [pid EXCEPT ![c] = pid[c]]
      /\ conn[c] \in Daemons \cup {Nobody} /\ conn = [conn EXCEPT ![c] = conn[c]]
      /\ Named(pc[c], pid[c], conn[c])
  BY DEF TypeOK, CommandsNameDaemons
<1>4. ASSUME NEW w \in CommandStates, NEW p \in Daemons \cup {Nobody},
             NEW k \in Daemons \cup {Nobody}, Named(w, p, k),
             pc' = [pc EXCEPT ![c] = w],
             pid' = [pid EXCEPT ![c] = p], conn' = [conn EXCEPT ![c] = k],
             socket' \in Daemons \cup {Nobody},
             startLock' \in Clients \cup {Nobody},
             parent' \in [Daemons -> Clients \cup {Nobody}],
             UNCHANGED <<lock, pidFile, daemon, term, ticks>>
      PROVE  LifecycleInv'
  <2>1. /\ pc' \in [Clients -> CommandStates]
        /\ pid' \in [Clients -> Daemons \cup {Nobody}]
        /\ conn' \in [Clients -> Daemons \cup {Nobody}]
        /\ CommandsNameDaemons'
    BY <1>2, <1>4
  <2> QED
    BY <1>4, <2>1 DEF TypeOK, LockHeld
<1>5. CASE EnsureRunning(c) \/ Down(c) \/ StopTimesOut(c)
  BY <1>3, <1>4, <1>5 DEF EnsureRunning, Down, StopTimesOut, Move, At, files, daemonVars,
     TypeOK, CommandStates
<1>6. CASE TakeStartLock(c) \/ EnsureSweep(c)
  BY <1>3, <1>4, <1>6 DEF TakeStartLock, EnsureSweep, Move, At, daemonVars, TypeOK,
     CommandStates
<1>7. ASSUME NEW from, NEW absent, NEW asking, Dial(c, from, absent, asking),
             <<from, absent, asking>> \in
               {<<"probe", "sweep", "asking">>, <<"ready", "ready", "greeting">>,
                <<"who", "try", "whoasking">>}
      PROVE  LifecycleInv'
  <2>1. CASE Dialable
    <3>1. socket \in Daemons
      BY <2>1 DEF Dialable, TypeOK
    <3> QED
      BY <1>3, <1>4, <1>7, <2>1, <3>1 DEF Dial, Move, At, files, daemonVars, TypeOK,
         CommandStates
  <2>2. CASE ~Dialable
    BY <1>3, <1>4, <1>7, <2>2 DEF Dial, Move, At, files, daemonVars, TypeOK, CommandStates
  <2> QED
    BY <2>1, <2>2
<1>8. CASE EnsureProbe(c) \/ WaitReady(c) \/ DownProbe(c)
  BY <1>7, <1>8 DEF EnsureProbe, WaitReady, DownProbe
<1>9. CASE GreetingLost(c) \/ ReadyTimesOut(c)
  BY <1>3, <1>4, <1>9 DEF GreetingLost, ReadyTimesOut, Move, At, files, daemonVars, TypeOK,
     CommandStates
<1>10. CASE DownProbeAnswers(c)
  BY <1>3, <1>4, <1>10 DEF DownProbeAnswers, Move, At, files, daemonVars, TypeOK,
     CommandStates
<1>11. CASE ReadPID(c)
  BY <1>3, <1>4, <1>11 DEF ReadPID, Move, At, files, daemonVars, TypeOK, CommandStates
<1>12. CASE StopUnlinks(c)
  <2>1. parent' \in [Daemons -> Clients \cup {Nobody}]
    BY <1>12 DEF StopUnlinks, TypeOK
  <2> QED
    BY <1>3, <1>4, <1>12, <2>1 DEF StopUnlinks, At, TypeOK, CommandStates
<1>13. ASSUME NEW d \in Daemons, Spawn(c, d)
       PROVE  LifecycleInv'
  <2>1. "waiting" \in {"new", "serving"} \cup Dead \cup Starting \cup Stopping
    BY DEF Starting
  <2>2. /\ daemon' \in [Daemons -> {"new", "serving"} \cup Dead \cup Starting \cup Stopping]
        /\ ticks' \in [Daemons -> 0..(LockWait + ShutdownGrace + TermGrace)]
        /\ \A e \in Daemons : daemon'[e] = IF e = d THEN "waiting" ELSE daemon[e]
    BY <1>13, <2>1, GotoKeepsType DEF Spawn, Launch
  <2>3. /\ pc' \in [Clients -> CommandStates]
        /\ pid' \in [Clients -> Daemons \cup {Nobody}]
        /\ conn' \in [Clients -> Daemons \cup {Nobody}]
        /\ CommandsNameDaemons'
    BY <1>2, <1>3, <1>13 DEF Spawn, Move, At, CommandStates
  <2>4. parent' \in [Daemons -> Clients \cup {Nobody}]
    BY <1>13 DEF Spawn, Launch, TypeOK
  <2>5. TypeOK'
    BY <1>13, <2>2, <2>3, <2>4 DEF Spawn, Launch, files, TypeOK
  <2>6. LockHeld'
    BY <1>13, <2>2 DEF Spawn, files, LockHeld, LockPhases, Stopping
  <2> QED
    BY <2>3, <2>5, <2>6
<1>14. CASE RunningPID(c)
  <2>1. /\ pc' \in [Clients -> CommandStates]
        /\ pid' \in [Clients -> Daemons \cup {Nobody}]
        /\ conn' \in [Clients -> Daemons \cup {Nobody}]
        /\ CommandsNameDaemons'
    BY <1>2, <1>3, <1>14 DEF RunningPID, Move, At, CommandStates
  <2>2. TypeOK'
    BY <1>14, <2>1 DEF RunningPID, daemonVars, TypeOK
  <2>3. LockHeld'
    BY <1>14, LifecycleAssumption DEF RunningPID, daemonVars, LockHeld
  <2> QED
    BY <2>1, <2>2, <2>3
<1>15. CASE SigTerm(c) \/ SigKill(c)
  <2>1. pid[c] \in Daemons
    BY <1>3, <1>15 DEF SigTerm, SigKill, At
  <2>2. /\ pc' \in [Clients -> CommandStates]
        /\ pid' \in [Clients -> Daemons \cup {Nobody}]
        /\ conn' \in [Clients -> Daemons \cup {Nobody}]
        /\ CommandsNameDaemons'
    BY <1>2, <1>3, <1>15 DEF SigTerm, SigKill, Move, At, CommandStates
  <2>3. UNCHANGED <<startLock, pidFile, socket, parent>>
    BY <1>15 DEF SigTerm, SigKill
  <2>4. CASE UNCHANGED <<lock, daemon, ticks>> /\ term' \in [Daemons -> BOOLEAN]
    BY <2>2, <2>3, <2>4 DEF TypeOK, LockHeld
  <2>5. CASE Exit(pid[c])
    BY <2>1, <2>2, <2>3, <2>5, ExitKeepsInv DEF TypeOK
  <2>6. \/ Exit(pid[c])
        \/ /\ UNCHANGED <<lock, daemon, ticks>>
           /\ term' = term \/ term' = [term EXCEPT ![pid[c]] = TRUE]
    BY <1>15 DEF SigTerm, SigKill
  <2>7. term' = [term EXCEPT ![pid[c]] = TRUE] => term' \in [Daemons -> BOOLEAN]
    BY DEF TypeOK
  <2>8. term' = term => term' \in [Daemons -> BOOLEAN]
    BY DEF TypeOK
  <2> QED
    BY <2>4, <2>5, <2>6, <2>7, <2>8
<1> QED
  BY <1>1, <1>5, <1>6, <1>8, <1>9, <1>10, <1>11, <1>12, <1>13, <1>14, <1>15 DEF ClientStep

\* Time never runs past the deadline of a wait.
LEMMA TickKeepsInv ==
  ASSUME LifecycleInv, disturbed' \in BOOLEAN, Tick
  PROVE  LifecycleInv'
<1> USE DEF LifecycleInv, Tick
<1>1. ASSUME NEW d \in Daemons, Timed(d)
      PROVE  ticks[d] + 1 \in 0..(LockWait + ShutdownGrace + TermGrace)
  <2>1. Limit(daemon[d]) \in 0..(LockWait + ShutdownGrace + TermGrace)
    BY <1>1, LifecycleAssumption DEF Timed, Limit, Stopping
  <2>2. ticks[d] \in Nat /\ ticks[d] < Limit(daemon[d])
    BY <1>1 DEF TypeOK
  <2> QED
    BY <2>1, <2>2, LifecycleAssumption
<1>2. ticks' \in [Daemons -> 0..(LockWait + ShutdownGrace + TermGrace)]
  BY <1>1 DEF TypeOK
<1>3. TypeOK'
  BY <1>2 DEF TypeOK, files, clientVars
<1> QED
  BY <1>3 DEF LockHeld, CommandsNameDaemons, files, clientVars

\* The inductive invariant holds in every state, for any number of daemons and
\* commands and any time limits.
THEOREM LifecycleInvHolds == Spec => []LifecycleInv
<1>1. Init => LifecycleInv
  <2> SUFFICES ASSUME Init PROVE LifecycleInv
    OBVIOUS
  <2>1. ticks \in [Daemons -> 0..(LockWait + ShutdownGrace + TermGrace)]
    BY LifecycleAssumption DEF Init
  <2>2. term \in [Daemons -> BOOLEAN]
    BY DEF Init
  <2>3. TypeOK
    BY <2>1, <2>2 DEF Init, TypeOK, CommandStates
  <2> QED
    BY <2>3 DEF Init, LifecycleInv, LockHeld, CommandsNameDaemons, LockPhases, Stopping
<1>2. LifecycleInv /\ [Next]_vars => LifecycleInv'
  <2> SUFFICES ASSUME LifecycleInv, [Next]_vars PROVE LifecycleInv'
    OBVIOUS
  <2>1. CASE UNCHANGED vars
    BY <2>1 DEF LifecycleInv, TypeOK, LockHeld, CommandsNameDaemons, vars, files, daemonVars,
       clientVars
  <2>2. disturbed' \in BOOLEAN
    BY DisturbedTyped DEF LifecycleInv
  <2> QED
    BY <2>1, <2>2, RunKeepsInv, CommandKeepsInv, TickKeepsInv DEF Next
<1> QED
  BY <1>1, <1>2, PTL DEF Spec

\* Every file, daemon and command of the lifecycle keeps its type; in
\* particular no wait of daemon.Run lasts longer than its limit.
THEOREM LifecycleTypeCorrect == Spec => []TypeOK
<1>1. LifecycleInv => TypeOK
  BY DEF LifecycleInv
<1> QED
  BY <1>1, LifecycleInvHolds, PTL

\* The lock is what keeps a second daemon from the store: whoever reaps orphans
\* or runs tasks holds sonata.lock, from before it listens until it has drained.
THEOREM StoreHasOneDaemon == Spec => []OneDaemonHasTheStore
<1>1. LifecycleInv => OneDaemonHasTheStore
  BY DEF LifecycleInv, LockHeld, OneDaemonHasTheStore, StorePhases, LockPhases, Stopping
<1> QED
  BY <1>1, LifecycleInvHolds, PTL

\* A step of daemon.Run unlinks the socket path only when nobody, or only the
\* daemon that takes the step, listens there.
LEMMA RunSparesSockets ==
  ASSUME LifecycleInv, NEW d \in Daemons, DaemonStep(d),
         socket # Nobody, socket' # socket
  PROVE  daemon[socket] \notin ListenPhases \/ daemon'[socket] # daemon[socket]
<1>1. /\ daemon[d] \in LockPhases
      /\ daemon'[d] # daemon[d]
  <2>1. PICK phase : Goto(d, phase) /\ phase # daemon[d] /\ daemon[d] \in LockPhases
    BY DEF DaemonStep, CloseListener, StartupFails, ServeFails, Crash, Foreground, Launch,
       TakeLock, LockRefused, TruncatePID, WritePID, RemoveStaleSocket, Listen, Serve, RequestsDone,
       DrainDone, Release, Exit, files, LockPhases, Stopping
  <2> QED
    BY <2>1 DEF Goto, LifecycleInv, TypeOK
<1>2. socket \in Daemons
  BY DEF LifecycleInv, TypeOK
<1>3. daemon[socket] \in ListenPhases => socket = d
  BY <1>1, <1>2 DEF LifecycleInv, LockHeld, ListenPhases, LockPhases
<1> QED
  BY <1>1, <1>3

\* No step of daemon.Run takes the socket away from another daemon that listens
\* on it: every removal of the path it makes is under the lock.
THEOREM RunSparesSocketsAlways == Spec => RunSparesOtherSockets
<1> DEFINE Spares == socket # Nobody /\ socket' # socket /\ UNCHANGED pc =>
                       \/ daemon[socket] \notin ListenPhases
                       \/ daemon'[socket] # daemon[socket]
<1>1. LifecycleInv /\ [Next]_vars => [Spares]_vars
  <2> SUFFICES ASSUME LifecycleInv, Next, socket # Nobody, socket' # socket, UNCHANGED pc
               PROVE  \/ daemon[socket] \notin ListenPhases
                      \/ daemon'[socket] # daemon[socket]
    OBVIOUS
  <2>1. ASSUME NEW c \in Clients,
               EnsureRunning(c) \/ Down(c) \/ ClientStep(c) \/ Abandon(c)
        PROVE  FALSE
    <3>1. pc[c] = pc'[c]
      OBVIOUS
    <3>2. CASE EnsureSweep(c)
      BY <3>1, <3>2 DEF EnsureSweep, At, Move, LifecycleInv, TypeOK
    <3>3. CASE StopUnlinks(c)
      BY <3>1, <3>3 DEF StopUnlinks, At, LifecycleInv, TypeOK
    <3> QED
      BY <2>1, <3>2, <3>3 DEF ClientStep, EnsureRunning, Down, Abandon, TakeStartLock,
         StartLockTimesOut, EnsureProbe, EnsureProbeEnds, SpawnFails, Spawn, WaitReady, Ready,
         GreetingLost, ReadyTimesOut, DownProbe, DownProbeAnswers, DownProbeFails, RunningPID,
         NothingRuns, ReadPID, PIDUnreadable, SigTerm, StopAlreadyGone, Stopped, StopTimesOut,
         SigKill, Dial, Finish, End, files
  <2>2. ~Tick
    BY DEF Tick, files
  <2> QED
    BY <2>1, <2>2, RunSparesSockets DEF Next
<1> QED
  BY <1>1, LifecycleInvHolds, PTL DEF Spec, RunSparesOtherSockets
-----------------------------------------------------------------------------
(* Stop, whatever else happens.                                            *)

\* A PID that the PID file or a command names is that of a process which was
\* started, and Stop comes to the socket only after that process has ended.
NamesAreUsed ==
  /\ pidFile # Nobody => daemon[pidFile] # "new"
  /\ \A c \in Clients :
       /\ pid[c] # Nobody => daemon[pid[c]] # "new"
       /\ pc[c] = "unlink" => daemon[pid[c]] \in Dead

\* No process becomes unborn, and one that has ended stays so until its PID is
\* given out again.
LEMMA PhasesAdvance ==
  ASSUME LifecycleInv, Next, NEW e \in Daemons
  PROVE  /\ daemon[e] # "new" => daemon'[e] # "new"
         /\ daemon[e] \in Dead /\ daemon'[e] \notin Dead => Unused(e)
<1>1. ASSUME NEW d \in Daemons, NEW phase, phase # "new", Goto(d, phase),
             daemon[d] \notin Dead \/ Unused(d) \/ phase \in Dead
      PROVE  /\ daemon[e] # "new" => daemon'[e] # "new"
             /\ daemon[e] \in Dead /\ daemon'[e] \notin Dead => Unused(e)
  BY <1>1 DEF Goto, LifecycleInv, TypeOK
<1>2. ASSUME NEW d \in Daemons, DaemonStep(d)
      PROVE  /\ daemon[e] # "new" => daemon'[e] # "new"
             /\ daemon[e] \in Dead /\ daemon'[e] \notin Dead => Unused(e)
  <2>1. PICK phase : /\ Goto(d, phase) /\ phase # "new"
                     /\ daemon[d] \notin Dead \/ Unused(d) \/ phase \in Dead
    BY <1>2 DEF DaemonStep, CloseListener, StartupFails, ServeFails, Crash, Foreground, Launch,
       TakeLock, LockRefused, TruncatePID, WritePID, RemoveStaleSocket, Listen, Serve,
       RequestsDone, DrainDone, Release, Exit, Dead
  <2> QED BY <1>1, <2>1
<1>3. ASSUME NEW c \in Clients, EnsureRunning(c) \/ Down(c) \/ ClientStep(c) \/ Abandon(c)
      PROVE  /\ daemon[e] # "new" => daemon'[e] # "new"
             /\ daemon[e] \in Dead /\ daemon'[e] \notin Dead => Unused(e)
  <2>1. CASE daemon' = daemon
    BY <2>1
  <2>2. ASSUME NEW d \in Daemons, Spawn(c, d)
        PROVE  /\ daemon[e] # "new" => daemon'[e] # "new"
               /\ daemon[e] \in Dead /\ daemon'[e] \notin Dead => Unused(e)
    BY <1>1, <2>2 DEF Spawn, Launch
  <2>3. CASE Exit(pid[c]) /\ pid[c] \in Daemons
    BY <1>1, <2>3 DEF Exit, Dead
  <2>4. SigTerm(c) \/ SigKill(c) => (Exit(pid[c]) /\ pid[c] \in Daemons) \/ daemon' = daemon
    BY DEF SigTerm, SigKill, At, LifecycleInv, CommandsNameDaemons
  <2>5. \/ SigTerm(c) \/ SigKill(c) \/ \E d \in Daemons : Spawn(c, d)
        \/ daemon' = daemon
    BY <1>3 DEF ClientStep, EnsureRunning, Down, Abandon, TakeStartLock,
         StartLockTimesOut, EnsureProbe, EnsureProbeEnds, EnsureSweep, SpawnFails, WaitReady,
         Ready, GreetingLost, ReadyTimesOut, DownProbe, DownProbeAnswers, DownProbeFails,
         RunningPID, NothingRuns, ReadPID, PIDUnreadable, StopAlreadyGone, Stopped,
         StopTimesOut, StopUnlinks, Dial, Finish, End, daemonVars
  <2> QED BY <2>1, <2>2, <2>3, <2>4, <2>5
<1>4. ASSUME Tick PROVE daemon' = daemon
  BY <1>4 DEF Tick
<1> QED BY <1>2, <1>3, <1>4 DEF Next

\* Every step keeps the names in use.
LEMMA NamesStep ==
  ASSUME LifecycleInv, NamesAreUsed, [Next]_vars
  PROVE  NamesAreUsed'
<1>1. CASE UNCHANGED vars
  BY <1>1 DEF NamesAreUsed, vars, files, daemonVars, clientVars
<1> SUFFICES ASSUME Next PROVE NamesAreUsed'
  BY <1>1
<1>2. \A e \in Daemons : /\ daemon[e] # "new" => daemon'[e] # "new"
                         /\ daemon[e] \in Dead /\ daemon'[e] \notin Dead => Unused(e)
  BY PhasesAdvance
<1>3. /\ pidFile \in Daemons \cup {Nobody} /\ pid \in [Clients -> Daemons \cup {Nobody}]
      /\ daemon \in [Daemons -> {"new", "serving"} \cup Dead \cup Starting \cup Stopping]
      /\ pc \in [Clients -> CommandStates] /\ conn \in [Clients -> Daemons \cup {Nobody}]
      /\ \A c \in Clients : pc[c] \in {"term", "poll", "kill", "unlink"} => pid[c] \in Daemons
  BY DEF LifecycleInv, TypeOK, CommandsNameDaemons
<1>4. \A c \in Clients, e \in Daemons :
        /\ pid[c] = e => daemon'[e] # "new"
        /\ pid[c] = e /\ pc[c] = "unlink" => daemon'[e] \in Dead
  BY <1>2, LifecycleAssumption DEF NamesAreUsed, Unused
<1>5. pidFile # Nobody => daemon'[pidFile] # "new"
  BY <1>2, <1>3 DEF NamesAreUsed
<1>6. CASE \E d \in Daemons : DaemonStep(d)
  <2>1. PICK d \in Daemons : DaemonStep(d)
    BY <1>6
  <2>2. UNCHANGED clientVars
    BY <2>1 DEF DaemonStep, CloseListener, StartupFails, ServeFails, Crash, Foreground, Launch,
       TakeLock, LockRefused, TruncatePID, WritePID, RemoveStaleSocket, Listen, Serve,
       RequestsDone, DrainDone, Release, Exit
  <2>3. pidFile' \in {pidFile, Nobody} \/ WritePID(d)
    BY <2>1 DEF DaemonStep, CloseListener, StartupFails, ServeFails, Crash, Foreground, Launch,
       TakeLock, LockRefused, TruncatePID, RemoveStaleSocket, Listen, Serve,
       RequestsDone, DrainDone, Release, Exit, files
  <2>4. WritePID(d) => pidFile' = d /\ daemon'[d] # "new"
    BY <1>3 DEF WritePID, Goto
  <2> QED BY <1>3, <1>4, <1>5, <2>2, <2>3, <2>4 DEF NamesAreUsed, clientVars
<1>7. CASE Tick
  BY <1>3, <1>4, <1>5, <1>7 DEF Tick, NamesAreUsed, files, clientVars
<1>8. CASE \E c \in Clients : EnsureRunning(c) \/ Down(c) \/ ClientStep(c) \/ Abandon(c)
  <2>1. PICK c \in Clients : EnsureRunning(c) \/ Down(c) \/ ClientStep(c) \/ Abandon(c)
    BY <1>8
  <2>2. /\ pidFile' = pidFile
        /\ \A e \in Clients \ {c} : pc'[e] = pc[e] /\ pid'[e] = pid[e]
    BY <2>1, <1>3 DEF ClientStep, EnsureRunning, Down, Abandon, TakeStartLock,
         StartLockTimesOut, EnsureProbe, EnsureProbeEnds, EnsureSweep, SpawnFails, WaitReady,
         Ready, GreetingLost, ReadyTimesOut, DownProbe, DownProbeAnswers, DownProbeFails,
         RunningPID, NothingRuns, ReadPID, PIDUnreadable, StopAlreadyGone, Stopped,
         StopTimesOut, StopUnlinks, Dial, Finish, End, files, Spawn, SigTerm, SigKill, Move
  <2>3. pid'[c] # Nobody => daemon'[pid'[c]] # "new"
    <3>1. CASE pid'[c] \in {Nobody, pid[c]}
      BY <1>3, <1>4, <3>1
    <3>2. ASSUME NEW d \in Daemons, Spawn(c, d) PROVE daemon'[pid'[c]] # "new"
      BY <1>3, <3>2 DEF Spawn, Launch, Goto
    <3>3. CASE DownProbeAnswers(c)
      BY <1>3, <3>3 DEF DownProbeAnswers, Answered, LifecycleInv, CommandsNameDaemons, At,
         daemonVars
    <3>4. CASE ReadPID(c)
      BY <1>3, <1>5, <3>4 DEF ReadPID
    <3>5. \/ DownProbeAnswers(c) \/ ReadPID(c) \/ \E d \in Daemons : Spawn(c, d)
          \/ pid'[c] \in {Nobody, pid[c]}
      BY <2>1, <1>3 DEF ClientStep, EnsureRunning, Down, Abandon, TakeStartLock,
         StartLockTimesOut, EnsureProbe, EnsureProbeEnds, EnsureSweep, SpawnFails, WaitReady,
         Ready, GreetingLost, ReadyTimesOut, DownProbe, DownProbeFails,
         RunningPID, NothingRuns, PIDUnreadable, StopAlreadyGone, Stopped,
         StopTimesOut, StopUnlinks, Dial, Finish, End, SigTerm, SigKill
    <3> QED BY <3>1, <3>2, <3>3, <3>4, <3>5
  <2>4. pc'[c] = "unlink" => daemon'[pid'[c]] \in Dead
    <3>1. pc'[c] = "unlink" => SigKill(c)
      BY <2>1, <1>3 DEF ClientStep, EnsureRunning, Down, Abandon, TakeStartLock,
         StartLockTimesOut, EnsureProbe, EnsureProbeEnds, EnsureSweep, SpawnFails, WaitReady,
         Ready, GreetingLost, ReadyTimesOut, DownProbe, DownProbeAnswers, DownProbeFails,
         RunningPID, NothingRuns, ReadPID, PIDUnreadable, StopAlreadyGone, Stopped,
         StopTimesOut, StopUnlinks, Dial, Finish, End, Spawn, SigTerm, Move
    <3>2. SigKill(c) => daemon'[pid'[c]] \in Dead
      BY <1>3, LifecycleAssumption DEF SigKill, At, Running, Exit, Goto, Dead, NamesAreUsed
    <3> QED BY <3>1, <3>2
  <2> QED BY <1>3, <1>4, <1>5, <2>2, <2>3, <2>4 DEF NamesAreUsed
<1> QED BY <1>6, <1>7, <1>8 DEF Next

\* down and the stop of a child that was not ready in time return only when the
\* process they were to stop has ended, even if its PID file, its socket or its
\* lock have changed hands meanwhile (Stop, spawn.go).
THEOREM StopLeavesItDead == Spec => StopMeansDead
<1> DEFINE Ends == \A c \in Clients :
                     pc[c] \in {"term", "poll", "unlink"} /\ pc'[c] = "idle" =>
                       daemon'[pid[c]] \in Dead
<1>1. Init => NamesAreUsed
  BY DEF Init, NamesAreUsed
<1>2. LifecycleInv /\ NamesAreUsed /\ [Next]_vars => [Ends]_vars
  <2> SUFFICES ASSUME LifecycleInv, NamesAreUsed, Next, NEW c \in Clients,
                      pc[c] \in {"term", "poll", "unlink"}, pc'[c] = "idle"
               PROVE  daemon'[pid[c]] \in Dead
    OBVIOUS
  <2>1. /\ pid[c] \in Daemons /\ pid[c] # Nobody
        /\ pc \in [Clients -> CommandStates]
        /\ daemon \in [Daemons -> {"new", "serving"} \cup Dead \cup Starting \cup Stopping]
    BY LifecycleAssumption DEF LifecycleInv, TypeOK, CommandsNameDaemons
  <2>2. PICK e \in Clients : EnsureRunning(e) \/ Down(e) \/ ClientStep(e) \/ Abandon(e)
    <3>1. ASSUME NEW d \in Daemons, DaemonStep(d) PROVE UNCHANGED pc
      BY <3>1 DEF DaemonStep, CloseListener, StartupFails, ServeFails, Crash, Foreground, Launch,
         TakeLock, LockRefused, TruncatePID, WritePID, RemoveStaleSocket, Listen, Serve,
         RequestsDone, DrainDone, Release, Exit, clientVars
    <3>2. Tick => UNCHANGED pc
      BY DEF Tick, clientVars
    <3> QED BY <3>1, <3>2 DEF Next
  <2>3. StopAlreadyGone(c) \/ Stopped(c) \/ StopUnlinks(c)
    BY <2>1, <2>2 DEF ClientStep, EnsureRunning, Down, Abandon, TakeStartLock,
       StartLockTimesOut, EnsureProbe, EnsureProbeEnds, EnsureSweep, SpawnFails, WaitReady,
       Ready, GreetingLost, ReadyTimesOut, DownProbe, DownProbeAnswers, DownProbeFails,
       RunningPID, NothingRuns, ReadPID, PIDUnreadable, StopAlreadyGone, Stopped, SigKill,
       StopTimesOut, StopUnlinks, Dial, Finish, End, Spawn, SigTerm, Move, At, Ended
  <2>4. daemon' = daemon
    BY <2>3 DEF StopAlreadyGone, Stopped, StopUnlinks, Finish, End
  <2>5. daemon[pid[c]] \in Dead
    <3>1. CASE StopUnlinks(c)
      BY <3>1 DEF StopUnlinks, At, NamesAreUsed
    <3>2. CASE StopAlreadyGone(c) \/ Stopped(c)
      BY <2>1, <3>2 DEF StopAlreadyGone, Stopped, Alive, Running, NamesAreUsed
    <3> QED BY <2>3, <3>1, <3>2
  <2> QED BY <2>4, <2>5
<1>3. LifecycleInv /\ NamesAreUsed /\ [Next]_vars => NamesAreUsed'
  BY NamesStep
<1> QED
  BY <1>1, <1>2, <1>3, LifecycleInvHolds, PTL DEF Spec, StopMeansDead

-----------------------------------------------------------------------------
(* Starting: up and the data commands alone, never interrupted.            *)

\* A daemon that serves or is about to; a command that has spawned one and not
\* yet let go of it; one that holds the start lock.
Live     == Starting \cup {"serving"}
Launched == {"ready", "greeting", "term", "poll", "kill", "unlink"}
Holding  == {"probe", "asking", "sweep", "spawn"} \cup Launched

\* EnsureRunning is under the start lock; it spawns when no daemon serves or is
\* about to, and the only one that is afterwards is the child.
EnsureInv(c) ==
  /\ pc[c] \in {"idle", "single"} \cup Holding
  /\ pc[c] \in Holding => startLock = c
  /\ pc[c] \in {"sweep", "spawn"} => \A d \in Daemons : daemon[d] \notin Live
  /\ pc[c] \in Launched => \A d \in Daemons : daemon[d] \in Live => d = pid[c]

\* When nobody is spawning, whoever is live serves.
LiveAreServing ==
  (\A c \in Clients : pc[c] \notin Launched) =>
    \A d \in Daemons : daemon[d] \in Live => daemon[d] = "serving"

\* The socket file is the listener's.
ListenerHasSocket == \A d \in Daemons : daemon[d] \in ListenPhases => socket = d

\* Only daemons take the lock, and those that have it are past AcquireWait.
LockIsADaemons == lock # Nobody => lock \in Daemons /\ daemon[lock] \in LockPhases

WithinLimit == \A d \in Daemons : Timed(d) => ticks[d] <= Limit(daemon[d])

\* A daemon that waits for the lock waits for one that stops, and has not waited
\* longer than that one has been stopping.
WaitsForStopping ==
  \A d, e \in Daemons :
    daemon[d] = "waiting" /\ lock = e =>
      daemon[e] \in Stopping /\ ticks[d] <= Elapsed(e)

FlightInv ==
  /\ \A c \in Clients : EnsureInv(c)
  /\ LiveAreServing /\ ListenerHasSocket
  /\ LockIsADaemons /\ WithinLimit /\ WaitsForStopping

\* At most one daemon serves or is about to.
LEMMA FlightIsSingle ==
  ASSUME FlightInv, NEW d \in Daemons, NEW e \in Daemons, daemon[d] \in Live, daemon[e] \in Live
  PROVE  d = e
<1>1. CASE \E c \in Clients : pc[c] \in Launched
  BY <1>1 DEF FlightInv, EnsureInv
<1>2. CASE \A c \in Clients : pc[c] \notin Launched
  BY <1>2 DEF FlightInv, LiveAreServing, ListenerHasSocket, ListenPhases
<1> QED BY <1>1, <1>2

\* Every step of a daemon, by where it goes.
LEMMA DaemonMoves ==
  ASSUME LifecycleInv, ~disturbed', NEW d \in Daemons, DaemonStep(d)
  PROVE  /\ UNCHANGED <<startLock, clientVars>>
         /\ \E q :
              /\ Goto(d, q)
              /\ \/ /\ daemon[d] = "waiting" /\ q = "locked"
                    /\ lock = Nobody /\ lock' = d /\ socket' = socket
                 \/ daemon[d] = "waiting" /\ q = "refused" /\ lock' = lock /\ socket' = socket
                 \/ /\ daemon[d] \in {"locked", "blank", "titled"}
                    /\ q \in {"blank", "titled", "swept"} /\ lock' = lock
                 \/ daemon[d] = "swept" /\ q = "bound" /\ lock' = lock /\ socket' = d
                 \/ daemon[d] = "bound" /\ q = "serving" /\ lock' = lock /\ socket' = socket
                 \/ /\ daemon[d] \in LockPhases \ Stopping /\ q \in Stopping /\ lock' = lock
                 \/ daemon[d] = "closed" /\ q = "draining" /\ lock' = lock
                 \/ daemon[d] = "draining" /\ q = "leaving" /\ lock' = lock
                 \/ /\ q = "dead" /\ socket' = socket
                    /\ lock' = IF lock = d THEN Nobody ELSE lock
<1> USE DEF LockPhases, Stopping
<1>1. ~Foreground(d)
  BY DEF Foreground
<1>2. CASE TakeLock(d)
  BY <1>2 DEF TakeLock
<1>3. CASE LockRefused(d)
  BY <1>3 DEF LockRefused, files
<1>4. CASE TruncatePID(d) \/ WritePID(d) \/ RemoveStaleSocket(d)
  BY <1>4 DEF TruncatePID, WritePID, RemoveStaleSocket
<1>5. CASE Listen(d) \/ Serve(d)
  BY <1>5 DEF Listen, Serve, files
<1>6. CASE CloseListener(d) \/ StartupFails(d) \/ ServeFails(d)
  BY <1>6 DEF CloseListener, StartupFails, ServeFails
<1>7. CASE RequestsDone(d) \/ DrainDone(d)
  BY <1>7 DEF RequestsDone, DrainDone, files
<1>8. CASE Release(d) \/ Crash(d)
  BY <1>8 DEF Release, Crash, Exit
<1> QED BY <1>1, <1>2, <1>3, <1>4, <1>5, <1>6, <1>7, <1>8 DEF DaemonStep

\* A step that starts no daemon keeps what a command knows.
LEMMA EnsureFrame ==
  ASSUME NEW c \in Clients, EnsureInv(c), pc'[c] = pc[c], pid'[c] = pid[c],
         pc[c] \in Holding => startLock' = startLock,
         \A d \in Daemons : daemon'[d] \in Live => daemon[d] \in Live \/ pc[c] \notin Holding
  PROVE  EnsureInv(c)'
BY DEF EnsureInv, Holding, Launched

\* A wait for the lock and the stop of its holder run on the same clock.
LEMMA DaemonFlight ==
  ASSUME LifecycleInv, LifecycleInv', ~disturbed', FlightInv, NEW d \in Daemons, DaemonStep(d)
  PROVE  FlightInv'
<1>1. PICK q :
        /\ Goto(d, q)
        /\ \/ /\ daemon[d] = "waiting" /\ q = "locked"
              /\ lock = Nobody /\ lock' = d /\ socket' = socket
           \/ daemon[d] = "waiting" /\ q = "refused" /\ lock' = lock /\ socket' = socket
           \/ /\ daemon[d] \in {"locked", "blank", "titled"}
              /\ q \in {"blank", "titled", "swept"} /\ lock' = lock
           \/ daemon[d] = "swept" /\ q = "bound" /\ lock' = lock /\ socket' = d
           \/ daemon[d] = "bound" /\ q = "serving" /\ lock' = lock /\ socket' = socket
           \/ /\ daemon[d] \in LockPhases \ Stopping /\ q \in Stopping /\ lock' = lock
           \/ daemon[d] = "closed" /\ q = "draining" /\ lock' = lock
           \/ daemon[d] = "draining" /\ q = "leaving" /\ lock' = lock
           \/ /\ q = "dead" /\ socket' = socket
              /\ lock' = IF lock = d THEN Nobody ELSE lock
  BY DaemonMoves
<1>2. UNCHANGED <<startLock, pc, pid, conn>>
  BY DaemonMoves DEF clientVars
<1>3. /\ \A e \in Daemons : daemon'[e] = IF e = d THEN q ELSE daemon[e]
      /\ \A e \in Daemons : ticks'[e] = IF e = d THEN 0 ELSE ticks[e]
      /\ \A e \in Daemons : ticks[e] \in Nat
      /\ \A e \in Daemons : daemon[e] \in LockPhases => lock = e
      /\ lock \in Daemons \cup Clients \cup {Nobody}
  BY <1>1, LifecycleAssumption DEF Goto, LifecycleInv, TypeOK, LockHeld
<1>4. q \in Live => daemon[d] \in Live \ {"serving"}
  BY <1>1 DEF Live, Starting, Stopping
<1>5. q # "waiting" /\ q \in {"locked", "refused", "blank", "titled", "swept", "bound",
                              "serving", "dead"} \cup Stopping
  BY <1>1 DEF Stopping
<1>6. ASSUME NEW c \in Clients PROVE EnsureInv(c)'
  BY <1>2, <1>3, <1>4, EnsureFrame DEF FlightInv
<1>7. LiveAreServing'
  BY <1>2, <1>3, <1>4 DEF FlightInv, LiveAreServing
<1>8. ListenerHasSocket'
  <2> SUFFICES ASSUME NEW e \in Daemons, daemon'[e] \in ListenPhases PROVE socket' = e
    BY DEF ListenerHasSocket
  <2>1. CASE e = d
    BY <1>1, <1>3, <2>1 DEF ListenPhases, Stopping, FlightInv, ListenerHasSocket
  <2>2. CASE e # d
    <3>1. socket = e /\ daemon'[e] = daemon[e] /\ daemon[e] \in ListenPhases
      BY <1>3, <2>2 DEF FlightInv, ListenerHasSocket
    <3>2. socket # Nobody
      BY <3>1, LifecycleAssumption
    <3> QED BY <3>1, <3>2, RunSparesSockets
  <2> QED BY <2>1, <2>2
<1>9. LockIsADaemons'
  BY <1>1, <1>3, LifecycleAssumption DEF FlightInv, LockIsADaemons, LockPhases, Stopping
<1>10. WithinLimit'
  <2>1. q \in Stopping => Limit(q) \in Nat
    BY LifecycleAssumption DEF Stopping, Limit
  <2> QED BY <1>3, <1>5, <2>1 DEF FlightInv, WithinLimit, Timed, Stopping
<1>11. WaitsForStopping'
  <2> SUFFICES ASSUME NEW x \in Daemons, NEW e \in Daemons, daemon'[x] = "waiting", lock' = e
               PROVE  daemon'[e] \in Stopping /\ ticks'[x] <= Elapsed(e)'
    BY DEF WaitsForStopping
  <2>1. x # d /\ daemon[x] = "waiting" /\ ticks'[x] = ticks[x]
    BY <1>3, <1>5
  <2>2. lock = e
    <3>1. ~(daemon[d] = "waiting" /\ q = "locked")
      BY <2>1, FlightIsSingle DEF Live, Starting
    <3> QED BY <1>1, <3>1, LifecycleAssumption DEF Stopping
  <2>3. daemon[e] \in Stopping /\ ticks[x] <= Elapsed(e)
    BY <2>1, <2>2 DEF FlightInv, WaitsForStopping
  <2>4. CASE e # d
    BY <1>3, <2>1, <2>3, <2>4 DEF Elapsed
  <2>5. CASE e = d
    <3>1. \/ daemon[d] = "closed" /\ q = "draining"
          \/ daemon[d] = "draining" /\ q = "leaving"
      BY <1>1, <2>2, <2>3, <2>5, LifecycleAssumption DEF Stopping
    <3>2. /\ daemon[d] = "closed" => ticks[d] <= ShutdownGrace
          /\ daemon[d] = "draining" => ticks[d] <= TermGrace
      BY DEF FlightInv, WithinLimit, Timed, Stopping, Limit
    <3>3. ticks[x] \in Nat /\ ticks[d] \in Nat /\ ticks'[d] = 0 /\ daemon'[d] = q
      BY <1>3
    <3>4. CASE daemon[d] = "closed"
      <4>1. ticks[x] <= ticks[d] /\ q = "draining"
        BY <2>3, <2>5, <3>1, <3>4 DEF Elapsed
      <4>2. Elapsed(d)' = ShutdownGrace + 0
        BY <3>3, <4>1 DEF Elapsed
      <4> QED BY <2>1, <2>5, <3>2, <3>3, <3>4, <4>1, <4>2, LifecycleAssumption DEF Stopping
    <3>5. CASE daemon[d] = "draining"
      <4>1. ticks[x] <= ShutdownGrace + ticks[d] /\ q = "leaving"
        BY <2>3, <2>5, <3>1, <3>5 DEF Elapsed
      <4>2. Elapsed(d)' = ShutdownGrace + TermGrace
        BY <3>3, <4>1 DEF Elapsed
      <4> QED BY <2>1, <2>5, <3>2, <3>3, <3>5, <4>1, <4>2, LifecycleAssumption DEF Stopping
    <3> QED BY <3>1, <3>4, <3>5
  <2> QED BY <2>4, <2>5
<1> QED BY <1>6, <1>7, <1>8, <1>9, <1>10, <1>11 DEF FlightInv

\* A step of a command that no daemon, and no lock of one, takes part in.
LEMMA QuietFlight ==
  ASSUME LifecycleInv, FlightInv, NEW c \in Clients,
         UNCHANGED <<lock, daemon, ticks>>,
         \A e \in Clients \ {c} : pc'[e] = pc[e] /\ pid'[e] = pid[e],
         startLock' = startLock \/ startLock \in {c, Nobody},
         EnsureInv(c)', ListenerHasSocket',
         pc[c] \in Launched /\ pc'[c] \notin Launched =>
           \A d \in Daemons : daemon[d] \in Live => daemon[d] = "serving"
  PROVE  FlightInv'
<1>1. ASSUME NEW e \in Clients PROVE EnsureInv(e)'
  <2>1. CASE e # c
    <3>1. pc[e] \in Holding => startLock' = startLock
      BY <2>1, LifecycleAssumption DEF FlightInv, EnsureInv
    <3> QED BY <2>1, <3>1, EnsureFrame DEF FlightInv
  <2> QED BY <2>1
<1>2. LiveAreServing'
  BY DEF FlightInv, LiveAreServing
<1>3. LockIsADaemons' /\ WithinLimit' /\ WaitsForStopping'
  BY DEF FlightInv, LockIsADaemons, WithinLimit, WaitsForStopping, Timed, Elapsed
<1> QED BY <1>1, <1>2, <1>3 DEF FlightInv

\* A process is killed, and its killer moves on.
LEMMA KillFlight ==
  ASSUME LifecycleInv, FlightInv, NEW c \in Clients, NEW d \in Daemons, Exit(d),
         NEW w \in Launched, pc[c] \in Launched, pc' = [pc EXCEPT ![c] = w],
         UNCHANGED <<startLock, socket, pid>>
  PROVE  FlightInv'
<1>1. /\ \A e \in Daemons : daemon'[e] = IF e = d THEN "dead" ELSE daemon[e]
      /\ \A e \in Daemons : ticks'[e] = IF e = d THEN 0 ELSE ticks[e]
      /\ lock' = IF lock = d THEN Nobody ELSE lock
  BY DEF Exit, Goto, LifecycleInv, TypeOK
<1>2. \A e \in Clients : pc'[e] = IF e = c THEN w ELSE pc[e]
  BY DEF LifecycleInv, TypeOK
<1>3. "dead" \notin Live \cup ListenPhases \cup Stopping
  BY DEF Live, Starting, ListenPhases, Stopping
<1>4. ASSUME NEW e \in Clients PROVE EnsureInv(e)'
  <2>1. CASE e # c
    BY <1>1, <1>2, <1>3, <2>1, EnsureFrame DEF FlightInv
  <2>2. CASE e = c
    BY <1>1, <1>2, <1>3, <2>2 DEF FlightInv, EnsureInv, Holding, Launched
  <2> QED BY <2>1, <2>2
<1>5. LiveAreServing'
  BY <1>2 DEF LiveAreServing
<1>6. ListenerHasSocket'
  BY <1>1, <1>3 DEF FlightInv, ListenerHasSocket
<1>7. LockIsADaemons'
  BY <1>1 DEF FlightInv, LockIsADaemons
<1>8. WithinLimit'
  BY <1>1, <1>3 DEF FlightInv, WithinLimit, Timed
<1>9. WaitsForStopping'
  <2> SUFFICES ASSUME NEW x \in Daemons, NEW e \in Daemons, daemon'[x] = "waiting", lock' = e
               PROVE  daemon'[e] \in Stopping /\ ticks'[x] <= Elapsed(e)'
    BY DEF WaitsForStopping
  <2>1. x # d /\ e # d /\ lock = e /\ daemon[x] = "waiting"
    BY <1>1, LifecycleAssumption
  <2> QED BY <1>1, <2>1 DEF FlightInv, WaitsForStopping, Elapsed
<1> QED BY <1>4, <1>5, <1>6, <1>7, <1>8, <1>9 DEF FlightInv

\* A daemon is spawned when none is live: it waits at most for one that stops.
LEMMA SpawnFlight ==
  ASSUME LifecycleInv, FlightInv, NEW c \in Clients, NEW d \in Daemons, Spawn(c, d)
  PROVE  FlightInv'
<1>1. /\ \A e \in Daemons : daemon'[e] = IF e = d THEN "waiting" ELSE daemon[e]
      /\ \A e \in Daemons : ticks'[e] = IF e = d THEN 0 ELSE ticks[e]
      /\ \A e \in Clients : pc'[e] = IF e = c THEN "ready" ELSE pc[e]
      /\ \A e \in Clients : pid'[e] = IF e = c THEN d ELSE pid[e]
      /\ lock' = lock /\ startLock' = startLock /\ socket' = socket
      /\ pc[c] = "spawn" /\ daemon[d] \in {"new"} \cup Dead
  BY DEF Spawn, Launch, Unused, Move, At, Goto, files, LifecycleInv, TypeOK
<1>2. startLock = c /\ \A e \in Daemons : daemon[e] \notin Live
  BY <1>1 DEF FlightInv, EnsureInv, Holding
<1>3. "waiting" \in Live /\ "waiting" \notin ListenPhases \cup Stopping
  BY DEF Live, Starting, ListenPhases, Stopping
<1>4. ASSUME NEW e \in Clients PROVE EnsureInv(e)'
  <2>1. CASE e # c
    BY <1>1, <1>2, <2>1, EnsureFrame DEF FlightInv, EnsureInv
  <2>2. CASE e = c
    BY <1>1, <1>2, <2>2 DEF EnsureInv, Holding, Launched
  <2> QED BY <2>1, <2>2
<1>5. LiveAreServing'
  BY <1>1 DEF LiveAreServing, Launched
<1>6. ListenerHasSocket'
  BY <1>1, <1>3 DEF FlightInv, ListenerHasSocket
<1>7. LockIsADaemons' /\ lock # d
  BY <1>1, LifecycleAssumption DEF FlightInv, LockIsADaemons, LockPhases, Stopping, Dead
<1>8. WithinLimit'
  <2>1. 0 <= Limit("waiting")
    BY LifecycleAssumption DEF Limit
  <2> QED BY <1>1, <2>1 DEF FlightInv, WithinLimit, Timed
<1>9. WaitsForStopping'
  <2> SUFFICES ASSUME NEW x \in Daemons, NEW e \in Daemons, daemon'[x] = "waiting", lock' = e
               PROVE  daemon'[e] \in Stopping /\ ticks'[x] <= Elapsed(e)'
    BY DEF WaitsForStopping
  <2>1. x = d
    BY <1>1, <1>2, <1>3
  <2>2. lock = e /\ e # d /\ daemon[e] \in LockPhases
    BY <1>1, <1>7, LifecycleAssumption DEF FlightInv, LockIsADaemons
  <2>3. daemon[e] \in Stopping
    BY <1>2, <2>2 DEF LockPhases, Live, Starting
  <2>4. ticks[e] \in Nat /\ ticks'[x] = 0 /\ ticks'[e] = ticks[e] /\ daemon'[e] = daemon[e]
    BY <1>1, <2>1, <2>2, LifecycleAssumption DEF LifecycleInv, TypeOK
  <2>5. Elapsed(e)' \in Nat
    BY <2>3, <2>4, LifecycleAssumption DEF Elapsed, Stopping
  <2> QED BY <2>3, <2>4, <2>5
<1> QED BY <1>4, <1>5, <1>6, <1>7, <1>8, <1>9 DEF FlightInv

\* Every step of a command.
LEMMA CommandFlight ==
  ASSUME LifecycleInv, NamesAreUsed, ~disturbed', FlightInv, NEW c \in Clients,
         EnsureRunning(c) \/ Down(c) \/ ClientStep(c) \/ Abandon(c)
  PROVE  FlightInv'
<1> USE DEF Holding, Launched
<1>1. /\ pc \in [Clients -> CommandStates] /\ pid \in [Clients -> Daemons \cup {Nobody}]
      /\ EnsureInv(c) /\ ListenerHasSocket
      /\ lock # c
      /\ pc[c] \in Launched => pid[c] \in Daemons
  BY LifecycleAssumption DEF LifecycleInv, TypeOK, FlightInv, LockIsADaemons,
     CommandsNameDaemons
<1>2. ASSUME NEW w \in {"idle", "single"} \cup Holding, pc' = [pc EXCEPT ![c] = w],
             UNCHANGED <<lock, daemon, ticks, socket, startLock, pid>>,
             pc[c] \in Launched <=> w \in Launched, pc[c] \in Holding <=> w \in Holding,
             w \in {"sweep", "spawn"} => \A d \in Daemons : daemon[d] \notin Live
      PROVE  FlightInv'
  <2>1. pc'[c] = w /\ \A e \in Clients \ {c} : pc'[e] = pc[e]
    BY <1>1, <1>2
  <2>2. EnsureInv(c)'
    BY <1>1, <1>2, <2>1 DEF EnsureInv
  <2>3. ListenerHasSocket'
    BY <1>1, <1>2 DEF ListenerHasSocket
  <2> QED BY <1>2, <2>1, <2>2, <2>3, QuietFlight
<1>3. ASSUME Finish(c), pc[c] \in Launched =>
                          \A d \in Daemons : daemon[d] \in Live => daemon[d] = "serving"
      PROVE  FlightInv'
  <2>1. /\ pc'[c] = "idle" /\ UNCHANGED <<lock, daemon, ticks, socket>>
        /\ \A e \in Clients \ {c} : pc'[e] = pc[e] /\ pid'[e] = pid[e]
        /\ startLock' = startLock \/ startLock \in {c, Nobody}
    BY <1>1, <1>3 DEF Finish, End
  <2>2. EnsureInv(c)' /\ ListenerHasSocket'
    BY <1>1, <2>1 DEF EnsureInv, ListenerHasSocket
  <2> QED BY <1>3, <2>1, <2>2, QuietFlight
<1>4. ASSUME pc[c] \in Launched, ~Running(pid[c]), NEW d \in Daemons
      PROVE  daemon[d] \notin Live
  BY <1>1, <1>4 DEF EnsureInv, Running, Live, Starting, Dead
<1>5. CASE EnsureRunning(c)
  <2>1. pc[c] = "idle"
    BY <1>1, <1>5 DEF EnsureRunning, Ended, EnsureInv
  <2> QED BY <1>2, <1>5, <2>1 DEF EnsureRunning, Move, files, daemonVars
<1>6. CASE TakeStartLock(c)
  <2>1. /\ pc[c] = "single" /\ pc'[c] = "probe" /\ startLock = Nobody /\ startLock' = c
        /\ UNCHANGED <<lock, daemon, ticks, socket, pid>>
        /\ \A e \in Clients \ {c} : pc'[e] = pc[e]
    BY <1>1, <1>6 DEF TakeStartLock, At, Move, daemonVars
  <2>2. EnsureInv(c)' /\ ListenerHasSocket'
    BY <1>1, <2>1 DEF EnsureInv, ListenerHasSocket
  <2> QED BY <2>1, <2>2, QuietFlight
<1>7. CASE StartLockTimesOut(c) \/ EnsureProbeEnds(c) \/ SpawnFails(c)
  BY <1>3, <1>7 DEF StartLockTimesOut, EnsureProbeEnds, SpawnFails, At
<1>8. CASE EnsureProbe(c)
  <2>1. pc[c] = "probe" /\ UNCHANGED <<lock, daemon, ticks, socket, startLock, pid>>
    BY <1>8 DEF EnsureProbe, Dial, At, files, daemonVars
  <2>2. CASE Dialable
    BY <1>2, <1>8, <2>1, <2>2 DEF EnsureProbe, Dial, Move
  <2>3. CASE ~Dialable
    <3>1. \A e \in Clients : pc[e] \notin Launched
      BY <1>1, <2>1 DEF FlightInv, EnsureInv
    <3>2. ASSUME NEW d \in Daemons, daemon[d] \in Live PROVE FALSE
      <4>1. daemon[d] = "serving" /\ socket = d
        BY <3>1, <3>2 DEF FlightInv, LiveAreServing, ListenerHasSocket, ListenPhases
      <4> QED BY <2>3, <4>1, LifecycleAssumption DEF Dialable, ListenPhases
    <3> QED BY <1>2, <1>8, <2>1, <2>3, <3>2 DEF EnsureProbe, Dial, Move
  <2> QED BY <2>2, <2>3
<1>9. CASE EnsureSweep(c)
  <2>1. /\ pc[c] = "sweep" /\ pc'[c] = "spawn"
        /\ UNCHANGED <<lock, daemon, ticks, startLock, pid>>
        /\ \A e \in Clients \ {c} : pc'[e] = pc[e]
    BY <1>1, <1>9 DEF EnsureSweep, At, Move, daemonVars
  <2>2. EnsureInv(c)'
    BY <1>1, <2>1 DEF EnsureInv
  <2>3. ListenerHasSocket'
    BY <1>1, <2>1 DEF EnsureInv, ListenerHasSocket, ListenPhases, Live, Starting
  <2> QED BY <2>1, <2>2, <2>3, QuietFlight
<1>10. CASE \E d \in Daemons : Spawn(c, d)
  BY <1>10, SpawnFlight
<1>11. CASE WaitReady(c) \/ GreetingLost(c) \/ ReadyTimesOut(c) \/ StopTimesOut(c)
  BY <1>2, <1>11 DEF WaitReady, GreetingLost, ReadyTimesOut, StopTimesOut, Dial, Move, At, files,
     daemonVars
<1>12. CASE Ready(c)
  <2>1. daemon[conn[c]] = "serving" /\ conn[c] \in Daemons /\ pc[c] = "greeting"
    BY <1>12 DEF Ready, Answered, At, LifecycleInv, CommandsNameDaemons
  <2>2. \A d \in Daemons : daemon[d] \in Live => d = conn[c]
    BY <1>1, <2>1 DEF EnsureInv, Live
  <2> QED BY <1>3, <1>12, <2>1, <2>2 DEF Ready
<1>13. CASE StopAlreadyGone(c) \/ Stopped(c)
  BY <1>3, <1>4, <1>13 DEF StopAlreadyGone, Stopped, At, Alive
<1>14. CASE SigTerm(c) \/ SigKill(c)
  <2>1. /\ pc[c] \in {"term", "kill"} /\ UNCHANGED <<socket, startLock, pid>>
        /\ pc' = [pc EXCEPT ![c] = "poll"] \/ pc' = [pc EXCEPT ![c] = "unlink"]
        /\ Exit(pid[c]) \/ UNCHANGED <<lock, daemon, ticks>>
    BY <1>14 DEF SigTerm, SigKill, At, Move
  <2>2. CASE Exit(pid[c])
    BY <1>1, <2>1, <2>2, KillFlight
  <2>3. CASE UNCHANGED <<lock, daemon, ticks>>
    BY <1>2, <2>1, <2>3
  <2> QED BY <2>1, <2>2, <2>3
<1>15. CASE StopUnlinks(c)
  <2>1. /\ pc[c] = "unlink" /\ pc'[c] = "idle" /\ UNCHANGED <<lock, daemon, ticks>>
        /\ \A e \in Clients \ {c} : pc'[e] = pc[e] /\ pid'[e] = pid[e]
        /\ startLock' = startLock \/ startLock \in {c, Nobody}
    BY <1>1, <1>15 DEF StopUnlinks, At
  <2>2. \A d \in Daemons : daemon[d] \notin Live
    BY <1>4, <2>1 DEF NamesAreUsed, Running
  <2>3. EnsureInv(c)' /\ ListenerHasSocket'
    BY <2>1, <2>2 DEF EnsureInv, ListenerHasSocket, ListenPhases, Live, Starting
  <2> QED BY <2>1, <2>2, <2>3, QuietFlight
<1>16. ~Down(c) /\ ~Abandon(c)
  BY DEF Down, Abandon
<1>17. ~(\/ DownProbe(c) \/ DownProbeAnswers(c) \/ DownProbeFails(c) \/ RunningPID(c)
         \/ NothingRuns(c) \/ ReadPID(c) \/ PIDUnreadable(c))
  BY <1>1 DEF DownProbe, DownProbeAnswers, DownProbeFails, RunningPID, NothingRuns, ReadPID,
     PIDUnreadable, Dial, At, EnsureInv
<1> QED BY <1>5, <1>6, <1>7, <1>8, <1>9, <1>10, <1>11, <1>12, <1>13, <1>14, <1>15, <1>16, <1>17
        DEF ClientStep

\* Time passes for the one that waits as for the one that stops.
LEMMA TickFlight ==
  ASSUME LifecycleInv, FlightInv, Tick
  PROVE  FlightInv'
<1>1. UNCHANGED <<lock, startLock, socket, daemon, pc, pid>>
  BY DEF Tick, files, clientVars
<1>2. \A d \in Daemons : /\ ticks[d] \in Nat
                         /\ ticks'[d] = IF Timed(d) THEN ticks[d] + 1 ELSE ticks[d]
                         /\ Timed(d) => ticks[d] < Limit(daemon[d])
  BY LifecycleAssumption DEF Tick, LifecycleInv, TypeOK
<1>3. (\A c \in Clients : EnsureInv(c)') /\ LiveAreServing' /\ ListenerHasSocket'
      /\ LockIsADaemons'
  BY <1>1 DEF FlightInv, EnsureInv, LiveAreServing, ListenerHasSocket, LockIsADaemons
<1>4. WithinLimit'
  <2> SUFFICES ASSUME NEW d \in Daemons, Timed(d) PROVE ticks'[d] <= Limit(daemon[d])
    BY <1>1 DEF WithinLimit, Timed
  <2>1. Limit(daemon[d]) \in Nat
    BY LifecycleAssumption DEF Timed, Stopping, Limit
  <2> QED BY <1>2, <2>1
<1>5. WaitsForStopping'
  <2> SUFFICES ASSUME NEW d \in Daemons, NEW e \in Daemons, daemon[d] = "waiting", lock = e
               PROVE  daemon[e] \in Stopping /\ ticks'[d] <= Elapsed(e)'
    BY <1>1 DEF WaitsForStopping
  <2>1. daemon[e] \in Stopping /\ ticks[d] <= Elapsed(e)
    BY DEF FlightInv, WaitsForStopping
  <2>2. /\ ticks[d] \in Nat /\ ticks'[d] = ticks[d] + 1
        /\ ticks[e] \in Nat /\ ticks'[e] = ticks[e] + 1
        /\ ticks[e] < Limit(daemon[e])
    BY <1>2, <2>1 DEF Timed
  <2>3. daemon[e] # "leaving"
    BY <2>2 DEF Limit
  <2>4. Elapsed(e)' = Elapsed(e) + 1 /\ Elapsed(e) \in Nat
    <3>1. CASE daemon[e] = "closed"
      BY <1>1, <2>2, <3>1 DEF Elapsed
    <3>2. CASE daemon[e] = "draining"
      BY <1>1, <2>2, <3>2, LifecycleAssumption DEF Elapsed
    <3> QED BY <2>1, <2>3, <3>1, <3>2 DEF Stopping
  <2> QED BY <2>1, <2>2, <2>4
<1> QED BY <1>3, <1>4, <1>5 DEF FlightInv

\* As long as up and the data commands alone have been at work, the start lock
\* makes of any number of them one spawn, and every bounded wait runs on one clock.
THEOREM FlightInvHolds == Spec => [](LifecycleInv /\ NamesAreUsed /\ (~disturbed => FlightInv))
<1>1. Init => NamesAreUsed /\ FlightInv
  BY LifecycleAssumption DEF Init, NamesAreUsed, FlightInv, EnsureInv, LiveAreServing,
     ListenerHasSocket, LockIsADaemons, WithinLimit, WaitsForStopping, Timed, Live, Starting,
     ListenPhases, Holding, Launched, Stopping
<1>2. LifecycleInv /\ LifecycleInv' /\ NamesAreUsed /\ (~disturbed => FlightInv) /\ [Next]_vars
        => NamesAreUsed' /\ (~disturbed' => FlightInv')
  <2> SUFFICES ASSUME LifecycleInv, LifecycleInv', NamesAreUsed, ~disturbed => FlightInv,
                      [Next]_vars
               PROVE  NamesAreUsed' /\ (~disturbed' => FlightInv')
    OBVIOUS
  <2>1. NamesAreUsed'
    BY NamesStep
  <2>2. ASSUME ~disturbed' PROVE FlightInv'
    <3>1. FlightInv
      BY <2>2, DisturbedTyped DEF LifecycleInv
    <3>2. CASE UNCHANGED vars
      BY <3>1, <3>2 DEF vars, files, daemonVars, clientVars, FlightInv, EnsureInv, LiveAreServing,
         ListenerHasSocket, LockIsADaemons, WithinLimit, WaitsForStopping, Timed, Elapsed
    <3> QED BY <2>2, <3>1, <3>2, DaemonFlight, CommandFlight, TickFlight DEF Next
  <2> QED BY <2>1, <2>2
<1> QED BY <1>1, <1>2, LifecycleInvHolds, PTL DEF Spec

\* Commands that miss a daemon at the same moment start one between them, for any
\* number of commands (EnsureRunning, ensure.go).
THEOREM StartsCollapse == Spec => []SingleFlight
<1>1. (~disturbed => FlightInv) => SingleFlight
  BY FlightIsSingle DEF SingleFlight, Live
<1> QED BY <1>1, FlightInvHolds, PTL

\* No daemon that serves is cut off from its clients: neither the sweep of a
\* stale socket before a spawn nor a predecessor that leaves late unlinks its path.
THEOREM ServingStaysReachable == Spec => []ServingIsReachable
<1>1. (~disturbed => FlightInv) => ServingIsReachable
  BY DEF FlightInv, ListenerHasSocket, ServingIsReachable, ListenPhases
<1> QED BY <1>1, FlightInvHolds, PTL

\* A successor that gives up on the lock does so no sooner than lockWait into its
\* predecessor's shutdown and drain, for every value of the three limits: what
\* lockWait buys (daemon.go), short of outlasting the drain.
THEOREM RefusalsComeLate == Spec => RefusalsAreLate
<1> DEFINE Late == \A d, e \in Daemons :
                     /\ ~disturbed
                     /\ daemon[d] = "waiting" /\ daemon'[d] = "refused" /\ lock = e
                     => daemon[e] \in Stopping /\ LockWait <= Elapsed(e)
<1>1. LifecycleInv /\ (~disturbed => FlightInv) /\ [Next]_vars => [Late]_vars
  <2> SUFFICES ASSUME LifecycleInv, FlightInv, Next, NEW d \in Daemons, NEW e \in Daemons,
                      daemon[d] = "waiting", daemon'[d] = "refused", lock = e
               PROVE  daemon[e] \in Stopping /\ LockWait <= Elapsed(e)
    OBVIOUS
  <2>1. daemon \in [Daemons -> {"new", "serving"} \cup Dead \cup Starting \cup Stopping]
    BY DEF LifecycleInv, TypeOK
  <2>2. ticks[d] = LockWait
    <3>1. ASSUME NEW f \in Daemons, DaemonStep(f) PROVE ticks[d] = LockWait
      <4>1. CASE LockRefused(f)
        BY <2>1, <4>1 DEF LockRefused, Goto
      <4>2. ASSUME NEW q, Goto(f, q), q # "refused" PROVE FALSE
        BY <2>1, <4>2 DEF Goto
      <4> QED BY <3>1, <4>1, <4>2 DEF DaemonStep, CloseListener, StartupFails, ServeFails, Crash,
                 Foreground, Launch, TakeLock, TruncatePID, WritePID, RemoveStaleSocket, Listen,
                 Serve, RequestsDone, DrainDone, Release, Exit
    <3>2. ASSUME NEW c \in Clients, EnsureRunning(c) \/ Down(c) \/ ClientStep(c) \/ Abandon(c)
          PROVE  FALSE
      <4>1. daemon' # daemon
        OBVIOUS
      <4>2. ASSUME NEW f \in Daemons, Spawn(c, f) PROVE FALSE
        BY <2>1, <4>2 DEF Spawn, Launch, Goto
      <4>3. ASSUME Exit(pid[c]) PROVE FALSE
        BY <2>1, <4>3 DEF Exit, Goto
      <4>4. ~SigTerm(c) /\ ~SigKill(c)
        BY <4>1, <4>3 DEF SigTerm, SigKill
      <4> QED BY <3>2, <4>1, <4>2, <4>4 DEF ClientStep, EnsureRunning, Down, Abandon,
                 TakeStartLock, StartLockTimesOut, EnsureProbe, EnsureProbeEnds, EnsureSweep,
                 SpawnFails, WaitReady, Ready, GreetingLost, ReadyTimesOut, DownProbe,
                 DownProbeAnswers, DownProbeFails, RunningPID, NothingRuns, ReadPID,
                 PIDUnreadable, StopAlreadyGone, Stopped, StopTimesOut, StopUnlinks, Dial,
                 Finish, End, daemonVars
    <3>3. ~Tick
      BY DEF Tick
    <3> QED BY <3>1, <3>2, <3>3 DEF Next
  <2>3. daemon[e] \in Stopping /\ ticks[d] <= Elapsed(e)
    BY DEF FlightInv, WaitsForStopping
  <2> QED BY <2>2, <2>3
<1> QED BY <1>1, FlightInvHolds, PTL DEF Spec, RefusalsAreLate

=============================================================================
