------------------------------ MODULE Command ------------------------------
(***************************************************************************)
(* A sonata command from its command line to its exit code (internal/cli,  *)
(* internal/api), with the daemon it may start and the registry and the    *)
(* message log that its request changes (internal/store).                  *)
(*                                                                         *)
(* A command is a process; what it was asked is its invocation: the        *)
(* operation, the sources of its configuration, the action's name, the     *)
(* document and its form, and a fault in its input.  "post" is a caller    *)
(* that speaks to the socket without the command line's checks.            *)
(*                                                                         *)
(*   pc       new; lock, probe, spawn, ready (EnsureRunning); request,     *)
(*            await (post); daemon (runs one in the foreground); exited.   *)
(*   exit     the exit code.                                               *)
(*   daemon   the daemon that a command spawned or became: its state, the  *)
(*            configuration it resolved and its idle timeout.              *)
(*   socket   <<path, daemon>>: which daemon the file at path leads to.    *)
(*   db       by database path: the versions of each action and the        *)
(*            messages, by the command that sent them.                     *)
(*   req      a command's request: none, queued (at a daemon), served,     *)
(*            dropped; at: the daemon; answer: what its handler returned.  *)
(*   snap     the rows that a daemon's scheduler last loaded; cache: the   *)
(*            compiled programs it keeps.                                  *)
(***************************************************************************)
EXTENDS Workflow, Config

CONSTANTS
  Commands,
  Invocations,
  None

ASSUME CommandAssumption ==
  /\ None \notin Invocations \cup Commands \cup Document \cup 0..3
  /\ \A i \in Invocations :
       /\ i.op \in {"send", "apply", "post", "enable", "disable", "show", "status", "up", "daemon"}
       /\ i.fault \in {"none", "flag", "output", "config", "args", "read", "input", "null"}
       /\ i.fault = "null" => i.op = "send"
       /\ IsSources(i.src)
       /\ (i.op = "apply" /\ i.fault = "none") \/ i.op = "post" => i.doc \in Document
       /\ i.op \in {"enable", "disable", "show"} => i.name \in Names \cup {""}

VARIABLES pc, inv, exit, daemon, socket, db, req, at, answer, snap, cache

clientVars == <<pc, inv, exit>>
reqVars    == <<req, at, answer>>
schedVars  == <<snap, cache>>
vars       == <<clientVars, daemon, socket, db, reqVars, schedVars>>

Cfg(c) == Load(inv[c].src)

Databases ==
  LET cfgs == {Load(i.src) : i \in Invocations}
  IN  {f["database"] : f \in cfgs} \cup {Append(f["state_dir"], "sonata.db") : f \in cfgs}

NoDaemon == [state |-> "none", cfg |-> None, idle |-> 0]
NoAnswer == [status |-> "none", version |-> 0]

InitProcesses ==
  /\ pc = [c \in Commands |-> "new"]
  /\ inv = [c \in Commands |-> None]
  /\ exit = [c \in Commands |-> None]
  /\ daemon = [c \in Commands |-> NoDaemon]
  /\ socket = {}
  /\ req = [c \in Commands |-> "none"]
  /\ at = [c \in Commands |-> None]
  /\ answer = [c \in Commands |-> NoAnswer]
  /\ snap = [c \in Commands |-> None]
  /\ cache = [c \in Commands |-> {}]

Init ==
  /\ InitProcesses
  /\ db = [f \in Databases |-> [versions |-> [n \in Names |-> <<>>], messages |-> {}]]

-----------------------------------------------------------------------------
(* The command before it needs a daemon.                                   *)

\* The exit codes of root.go.
ExitOK          == 0
ExitNotRunning  == 1
ExitUsage       == 2
ExitOperational == 3

Exit(c, code) ==
  /\ pc' = [pc EXCEPT ![c] = "exited"]
  /\ exit' = [exit EXCEPT ![c] = code]

\* Flags, arguments and configuration.  "flag": one does not parse; "output": not
\* table or json; "config": --config cannot be read; "args": a wrong number of
\* arguments, which cobra reports without an exit code.
PreRun(i) ==
  CASE i.fault \in {"flag", "output"} -> ExitUsage
    [] i.fault \in {"config", "args"} -> ExitOperational
    [] OTHER                          -> None

\* "read": stdin fails; "input": no payload, not JSON, or a header without a key;
\* "null": a payload that is null, or no name of a queue, is left to the daemon.
CheckSend(i) ==
  CASE i.fault = "read"  -> ExitOperational
    [] i.fault = "input" -> ExitUsage
    [] OTHER             -> None

\* Mutated form: apply leaves validation to the daemon.
CheckApply_NoValidation(i) == CheckSend(i)

\* "input": no -f, or nothing on stdin.
CheckApply(i) ==
  CASE i.fault = "read"                                -> ExitOperational
    [] i.fault = "input"                               -> ExitUsage
    [] i.fault = "none" /\ ~Accepted(i.doc, i.form)    -> ExitUsage
    [] OTHER                                           -> None

\* "input": a negative --version.
CheckShow(i) == IF i.fault = "input" THEN ExitUsage ELSE None

\* Why a command gives up before it looks for a daemon.
Refusal(i) ==
  CASE PreRun(i) # None                       -> PreRun(i)
    [] PreRun(i) = None /\ i.op = "send"      -> CheckSend(i)
    [] PreRun(i) = None /\ i.op = "apply"     -> CheckApply(i)
    [] PreRun(i) = None /\ i.op = "show"      -> CheckShow(i)
    [] OTHER                                  -> None

\* Where an operation goes once its input is in order.
FirstStep(op) ==
  CASE op \in {"status", "post"} -> "request"
    [] op = "daemon"             -> "daemon"
    [] OTHER                     -> "lock"

Begin(c, i) ==
  /\ pc[c] = "new"
  /\ inv' = [inv EXCEPT ![c] = i]
  /\ IF Refusal(i) # None
       THEN Exit(c, Refusal(i)) /\ UNCHANGED daemon
       ELSE /\ pc' = [pc EXCEPT ![c] = FirstStep(i.op)]
            /\ daemon' = IF i.op = "daemon"
                           THEN [daemon EXCEPT ![c] = [state |-> "starting", cfg |-> Load(i.src),
                                                       idle |-> IdleTimeout(i.src)]]
                           ELSE daemon
            /\ UNCHANGED exit
  /\ UNCHANGED <<socket, db, reqVars, schedVars>>

-----------------------------------------------------------------------------
(* EnsureRunning, under the start lock of the state directory.             *)

Ensuring == {"probe", "spawn", "ready"}

\* The daemon that answers at a path.
Listeners(path) == {s[2] : s \in {t \in socket : t[1] = path}}

StartLockHolders(dir) == {c \in Commands : pc[c] \in Ensuring /\ Cfg(c)["state_dir"] = dir}

\* MkdirAll fails on an empty state directory.
AcquireStartLock(c) ==
  /\ pc[c] = "lock"
  /\ IF Cfg(c)["state_dir"] = <<>>
       THEN Exit(c, ExitOperational)
       ELSE \/ /\ StartLockHolders(Cfg(c)["state_dir"]) = {}
               /\ pc' = [pc EXCEPT ![c] = "probe"]
               /\ UNCHANGED exit
            \/ /\ StartLockHolders(Cfg(c)["state_dir"]) # {}
               /\ Exit(c, ExitOperational)
  /\ UNCHANGED <<inv, daemon, socket, db, reqVars, schedVars>>

\* EnsureRunning has found or started the daemon.
Ensured(c) ==
  IF inv[c].op = "up"
    THEN Exit(c, ExitOK)
    ELSE pc' = [pc EXCEPT ![c] = "request"] /\ UNCHANGED exit

\* The probe fails in another way than for want of a daemon when the daemon dies
\* under it.
Probe(c) ==
  /\ pc[c] = "probe"
  /\ IF Listeners(Cfg(c)["socket"]) = {}
       THEN pc' = [pc EXCEPT ![c] = "spawn"] /\ UNCHANGED exit
       ELSE Ensured(c) \/ Exit(c, ExitOperational)
  /\ UNCHANGED <<inv, daemon, socket, db, reqVars, schedVars>>

\* The socket file goes, whoever is behind it by now, and the child starts.
Spawn(c) ==
  LET i    == inv[c]
      idle == IF i.op = "up" THEN IdleTimeout(i.src) ELSE Cfg(c)["idle"]
      src  == ChildSources(Cfg(c), i.src.env, idle)
  IN  /\ pc[c] = "spawn"
      /\ socket' = {s \in socket : s[1] # Cfg(c)["socket"]}
      /\ daemon' = [daemon EXCEPT ![c] = [state |-> "starting", cfg |-> Load(src),
                                          idle |-> IdleTimeout(src)]]
      /\ pc' = [pc EXCEPT ![c] = "ready"]
      /\ UNCHANGED <<inv, exit, db, reqVars, schedVars>>

Alive(d) == daemon[d].state \in {"starting", "serving"}

\* Mutated form: a request outlives the daemon it was made to.
Gone_KeepsRequests(d) ==
  /\ daemon' = [daemon EXCEPT ![d].state = "gone"]
  /\ socket' = {s \in socket : s[2] # d}
  /\ snap' = [snap EXCEPT ![d] = None]
  /\ cache' = [cache EXCEPT ![d] = {}]
  /\ UNCHANGED reqVars

\* What a daemon's end leaves: no listener, no memory, no answer to what it had
\* not answered.
Gone(d) ==
  /\ daemon' = [daemon EXCEPT ![d].state = "gone"]
  /\ socket' = {s \in socket : s[2] # d}
  /\ req' = [c \in Commands |-> IF at[c] = d /\ req[c] = "queued" THEN "dropped" ELSE req[c]]
  /\ snap' = [snap EXCEPT ![d] = None]
  /\ cache' = [cache EXCEPT ![d] = {}]
  /\ UNCHANGED <<at, answer>>

\* WaitReady: the child answers; another daemon does; nobody does in time, and
\* the child is stopped.
WaitReady(c) ==
  /\ pc[c] = "ready"
  /\ Listeners(Cfg(c)["socket"]) # {}
  /\ IF c \in Listeners(Cfg(c)["socket"]) THEN Ensured(c) ELSE Exit(c, ExitOperational)
  /\ UNCHANGED <<inv, daemon, socket, db, reqVars, schedVars>>

NotReady(c) ==
  /\ pc[c] = "ready"
  /\ Listeners(Cfg(c)["socket"]) = {}
  /\ Exit(c, ExitOperational)
  /\ Gone(c)
  /\ UNCHANGED <<inv, db>>

\* The row that governs: the latest version, or what a first one starts from.
Current(V) == IF V = <<>> THEN [def |-> None, enabled |-> TRUE] ELSE V[Len(V)]

-----------------------------------------------------------------------------
(* The daemon: Run's way to its first request, and its end.                *)

\* It takes the lock of its state directory, unlinks its socket, binds it again
\* and serves.
Serve(d) ==
  /\ daemon[d].state = "starting"
  /\ daemon[d].cfg["state_dir"] # <<>>
  /\ \A e \in Commands : daemon[e].state = "serving"
       => daemon[e].cfg["state_dir"] # daemon[d].cfg["state_dir"]
  /\ daemon' = [daemon EXCEPT ![d].state = "serving"]
  /\ socket' = {s \in socket : s[1] # daemon[d].cfg["socket"]}
                 \cup {<<daemon[d].cfg["socket"], d>>}
  /\ UNCHANGED <<clientVars, db, reqVars, schedVars>>

\* It fails to start (the lock is held, no state directory), stops or is killed;
\* a foreground daemon takes its command with it.
Dies(d) ==
  /\ Alive(d)
  /\ Gone(d)
  /\ IF pc[d] = "daemon"
       THEN \E code \in {ExitOK, ExitOperational} :
              /\ code = ExitOK => daemon[d].state = "serving"
              /\ Exit(d, code)
       ELSE UNCHANGED <<pc, exit>>
  /\ UNCHANGED <<inv, db>>

\* The scheduler loads the current rows.
LoadActions(d) ==
  LET V == db[daemon[d].cfg["database"]].versions
  IN  /\ daemon[d].state = "serving"
      /\ snap' = [snap EXCEPT ![d] =
                    [n \in {m \in Names : V[m] # <<>>} |->
                       [version |-> Len(V[n]), def |-> Current(V[n]).def]]]
      /\ UNCHANGED <<clientVars, daemon, socket, db, reqVars, cache>>

\* Cache.Get, for a row of the snapshot: an entry is never replaced.
CacheGet(d, n) ==
  /\ daemon[d].state = "serving" /\ snap[d] # None
  /\ n \in DOMAIN snap[d]
  /\ ~\E e \in cache[d] : e.name = n /\ e.version = snap[d][n].version
  /\ cache' = [cache EXCEPT ![d] = @ \cup {[name |-> n, version |-> snap[d][n].version,
                                            programs |-> Compile(snap[d][n].def)]}]
  /\ UNCHANGED <<clientVars, daemon, socket, db, reqVars, snap>>

-----------------------------------------------------------------------------
(* The request, its handler, and the answer.                               *)

\* The dial: nobody listens, or the request is at the daemon.  status asks for
\* the daemon's health and no more.
Request(c) ==
  LET L == Listeners(Cfg(c)["socket"])
  IN  /\ pc[c] = "request"
      /\ IF L = {}
           THEN /\ Exit(c, IF inv[c].op = "status" THEN ExitNotRunning ELSE ExitOperational)
                /\ UNCHANGED reqVars
           ELSE /\ at' = [at EXCEPT ![c] = CHOOSE d \in L : TRUE]
                /\ req' = [req EXCEPT ![c] = "queued"]
                /\ pc' = [pc EXCEPT ![c] = "await"]
                /\ UNCHANGED <<exit, answer>>
      /\ UNCHANGED <<inv, daemon, socket, db, schedVars>>

\* Mutated form: a new version starts out enabled.
ApplyAction_Enables(V, def) ==
  IF V # <<>> /\ Current(V).def = def THEN V ELSE Append(V, [def |-> def, enabled |-> TRUE])

\* Mutated form: the current row is replaced.
ApplyAction_InPlace(V, def) ==
  IF V = <<>> THEN <<[def |-> def, enabled |-> TRUE]>>
  ELSE [V EXCEPT ![Len(V)].def = def]

\* A definition equal to the current one changes nothing; a new version inherits
\* the flag of the current one.
ApplyAction(V, def) ==
  IF V # <<>> /\ Current(V).def = def
    THEN V
    ELSE Append(V, [def |-> def, enabled |-> Current(V).enabled])

\* The flag of the current version, which exists.
SetActionEnabled(V, enabled) == [V EXCEPT ![Len(V)].enabled = enabled]

Reply(status, version) == [status |-> status, version |-> version]

\* Each handler gives the database after it and its answer.
Invalid(D) == <<D, Reply("invalid", 0)>>

messageSend(c, D) ==
  IF inv[c].fault = "null" THEN Invalid(D)
  ELSE <<[D EXCEPT !.messages = @ \cup {c}], Reply("ok", 0)>>

\* The daemon parses again what it is sent.
actionApply(D, doc) ==
  LET new == ApplyAction(D.versions[doc.name], Canonical(doc))
  IN  IF Accepted(doc, "json")
        THEN <<[D EXCEPT !.versions[doc.name] = new], Reply("ok", Len(new))>>
        ELSE Invalid(D)

setActionEnabled(D, n, enabled) ==
  IF n = "" THEN Invalid(D)
  ELSE IF D.versions[n] = <<>>
    THEN <<D, Reply("not_found", 0)>>
    ELSE <<[D EXCEPT !.versions[n] = SetActionEnabled(@, enabled)],
           Reply("ok", Len(D.versions[n]))>>

actionShow(D, n) ==
  IF n = "" THEN Invalid(D)
  ELSE <<D, IF D.versions[n] = <<>> THEN Reply("not_found", 0) ELSE Reply("ok", Len(D.versions[n]))>>

\* The request a command makes: apply sends its canonical form; status asks for
\* the daemon's health.
Handled(c, D) ==
  LET i == inv[c]
  IN  CASE i.op = "send"                 -> messageSend(c, D)
        [] i.op = "apply"                -> actionApply(D, Canonical(i.doc))
        [] i.op = "post"                 -> actionApply(D, i.doc)
        [] i.op \in {"enable", "disable"} -> setActionEnabled(D, i.name, i.op = "enable")
        [] i.op = "show"                 -> actionShow(D, i.name)
        [] i.op = "status"               -> <<D, Reply("ok", 0)>>

\* The handler, whether or not its client still waits.  After the flag is off
\* the scheduler may fail to cancel.
Handle(c) ==
  LET f == daemon[at[c]].cfg["database"]
      h == Handled(c, db[f])
  IN  /\ req[c] = "queued"
      /\ req' = [req EXCEPT ![c] = "served"]
      /\ db' = [db EXCEPT ![f] = h[1]]
      /\ \E status \in {h[2].status} \cup (IF inv[c].op = "disable" THEN {"internal"} ELSE {}) :
           answer' = [answer EXCEPT ![c] = [h[2] EXCEPT !.status = status]]
      /\ UNCHANGED <<clientVars, daemon, socket, at, schedVars>>

\* The handler's transaction fails.
HandlerFails(c) ==
  /\ req[c] = "queued" /\ inv[c].op # "status"
  /\ req' = [req EXCEPT ![c] = "served"]
  /\ answer' = [answer EXCEPT ![c] = Reply("internal", 0)]
  /\ UNCHANGED <<clientVars, daemon, socket, db, at, schedVars>>

\* The client is gone, and with it the handler's context.
Cancelled(c) ==
  /\ req[c] = "queued" /\ pc[c] = "exited"
  /\ req' = [req EXCEPT ![c] = "dropped"]
  /\ UNCHANGED <<clientVars, daemon, socket, db, at, answer, schedVars>>

Answered(c) ==
  /\ pc[c] = "await" /\ req[c] = "served"
  /\ Exit(c, IF answer[c].status = "ok" THEN ExitOK ELSE ExitOperational)
  /\ UNCHANGED <<inv, daemon, socket, db, reqVars, schedVars>>

\* Mutated form: a reply that cannot be read passes for an empty one.
Unanswered_Ignored(c) ==
  /\ pc[c] = "await"
  /\ Exit(c, ExitOK)
  /\ UNCHANGED <<inv, daemon, socket, db, reqVars, schedVars>>

\* The connection breaks or the client's ten seconds pass, before the handler or
\* after it.
Unanswered(c) ==
  /\ pc[c] = "await"
  /\ Exit(c, ExitOperational)
  /\ UNCHANGED <<inv, daemon, socket, db, reqVars, schedVars>>

-----------------------------------------------------------------------------

Next ==
  \E c \in Commands :
    \/ \E i \in Invocations : Begin(c, i)
    \/ AcquireStartLock(c) \/ Probe(c) \/ Spawn(c) \/ WaitReady(c) \/ NotReady(c)
    \/ Serve(c) \/ Dies(c) \/ LoadActions(c)
    \/ \E n \in Names : CacheGet(c, n)
    \/ Request(c) \/ Handle(c) \/ HandlerFails(c) \/ Cancelled(c)
    \/ Answered(c) \/ Unanswered(c)

Spec == Init /\ [][Next]_vars

-----------------------------------------------------------------------------
(* Properties.                                                             *)

Versions == UNION {{db[f].versions[n] : n \in Names} : f \in Databases}

\* Every variable has its type; a command has an exit code once it has exited; a
\* path leads to one daemon at most, which runs.
TypeOK ==
  /\ \A c \in Commands :
       /\ pc[c] \in {"new", "lock", "request", "await", "daemon", "exited"} \cup Ensuring
       /\ (inv[c] = None) = (pc[c] = "new")
       /\ inv[c] # None => inv[c] \in Invocations
       /\ (exit[c] # None) = (pc[c] = "exited")
       /\ exit[c] # None => exit[c] \in 0..3
       /\ daemon[c].state \in {"none", "starting", "serving", "gone"}
       /\ req[c] \in {"none", "queued", "served", "dropped"}
       /\ (at[c] = None) = (req[c] = "none")
       /\ at[c] # None => at[c] \in Commands
       /\ req[c] = "queued" => daemon[at[c]].state = "serving"
       /\ answer[c].status \in {"none", "ok", "invalid", "not_found", "internal"}
  /\ \A s \in socket : daemon[s[2]].state = "serving"
  /\ \A s, t \in socket : s[1] = t[1] => s = t
  /\ \A f \in Databases : db[f].messages \subseteq Commands
  /\ \A V \in Versions : \A k \in DOMAIN V : V[k].enabled \in BOOLEAN

\* Exit code 0 is a promise: the daemon that answered has the message, or the
\* definition as the version it reported, or the action, in its database,
\* whichever process fails afterwards (send, actionApply, Client.post).  A loss of
\* power, which synchronous(NORMAL) does not guard a commit against, is not among
\* the failures.
SuccessIsDurable ==
  \A c \in Commands :
    LET i == inv[c]
        D == db[daemon[at[c]].cfg["database"]]
    IN  exit[c] = ExitOK =>
          /\ i.op \in {"send", "apply", "post", "enable", "disable", "show"} => at[c] # None
          /\ i.op = "send" => c \in D.messages
          /\ i.op \in {"apply", "post"} =>
               /\ answer[c].version \in DOMAIN D.versions[i.doc.name]
               /\ D.versions[i.doc.name][answer[c].version].def = Canonical(i.doc)
          /\ i.op \in {"enable", "disable", "show"} =>
               answer[c].version \in DOMAIN D.versions[i.name]

\* A definition that the command line accepts the daemon does not call invalid:
\* what it is sent is the canonical form of what was parsed (actionApply).
ClientChecksSuffice ==
  \A c \in Commands : answer[c].status = "invalid" => inv[c].op # "apply"

\* A definition without what formatting leaves open.
Bare(d) ==
  <<d.name, d.inputs, d.output, d.concurrency, d.maxAttempts, d.instr.command, d.instr.timeout,
    IF d.joinTimeout = Unset THEN Unset ELSE d.joinTimeout.value>>

\* Applying again what differs only in its formatting, as a file or over the
\* socket, adds no version (ApplyAction, Canonical).  (An explicit null inside the
\* instructions, which normalize keeps, is not in the documents of Workflow.)
ReapplyIsNoOp ==
  \A V \in Versions : \A k \in 2..Len(V) : Bare(V[k].def) # Bare(V[k - 1].def)

\* Once a disable has succeeded, and nobody has enabled the action, it stays
\* disabled through any number of new versions (ApplyAction: "editing a disabled
\* action must never silently re-enable it").
DisableSticks ==
  \A c \in Commands :
    LET f == daemon[at[c]].cfg["database"]
    IN  /\ exit[c] = ExitOK /\ inv[c].op = "disable"
        /\ \A e \in Commands : req[e] # "none" /\ daemon[at[e]].cfg["database"] = f
             => inv[e].op # "enable" \/ inv[e].name # inv[c].name
        => ~Current(db[f].versions[inv[c].name]).enabled

\* The programs that a scheduler keeps under an action's version are those of the
\* definition stored as that version, by whichever daemon it was stored (Cache:
\* "an entry is valid forever once built").
CacheCoherent ==
  \A d \in Commands : \A e \in cache[d] :
    LET V == db[daemon[d].cfg["database"]].versions[e.name]
    IN  e.version \in DOMAIN V /\ e.programs = Compile(V[e.version].def)

\* The child of EnsureRunning resolves the configuration that its parent had,
\* whatever file, flags and variables that came from, so that it listens where
\* its parent looks for it (Config.Env).  Two settings are exempt: an empty log
\* level, which reads as unset, and an idle timeout of zero given as a flag.
SpawnedAlike ==
  \A c \in Commands :
    daemon[c] # NoDaemon /\ inv[c].op # "daemon" =>
      /\ \A k \in Keys : ~(k = "log_level" /\ Cfg(c)[k] = <<>>) => daemon[c].cfg[k] = Cfg(c)[k]
      /\ LET asked == IF inv[c].op = "up" THEN IdleTimeout(inv[c].src) ELSE Cfg(c)["idle"]
         IN  asked > 0 => daemon[c].idle = asked

=============================================================================
