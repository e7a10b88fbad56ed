------------------------------ MODULE Executor ------------------------------
(***************************************************************************)
(* One call of Execute (internal/executor): a task process in a group of   *)
(* its own, the goroutine in cmd.Wait, the ones that copy the input to its *)
(* stdin and its stdout into the capped buffer, and the select that a      *)
(* deadline, a cancellation or too much output sends into killGroup.       *)
(*                                                                         *)
(*   life     each process of the task: "unborn", "alive", "dead".         *)
(*   member   it is in the group that kill(-pgid) reaches; setsid(2) takes *)
(*            a descendant out of it.                                      *)
(*   holds    it has the write end of the output pipe open.                *)
(*   reads    it has the read end of the input pipe open.                  *)
(*   exit     how the leader ended: "ok", "fail", "signal".                *)
(*   piped    bytes written and not copied yet; stored, dropped: what the  *)
(*            capped buffer kept, and discarded beyond its cap.            *)
(*   unread   input that has to be read before the rest fits the pipe;     *)
(*            feeding: the goroutine that writes the input has not ended.  *)
(*   waited   the one-slot channel done: cmd.Wait has returned.            *)
(*   ctx      the context: "live", "deadline" or "cancelled".              *)
(*   pc       where Execute is; cause: which case of select it took, once  *)
(*            one was taken; waitErr, timedOut, result: its variables.     *)
(***************************************************************************)
EXTENDS Naturals, FiniteSets

CONSTANTS
  Leader,      \* the process cmd.Start creates
  Kids,        \* its descendants
  StdoutCap,   \* spec.StdoutCap; zero: no limit
  HasTimeout,  \* spec.Timeout > 0
  Escapes,     \* whether descendants may leave the group
  MaxBytes,    \* bound on the bytes written
  Excess       \* by how much the input exceeds the buffer of a pipe

ASSUME ExecutorAssumption ==
  /\ Leader \notin Kids
  /\ StdoutCap \in Nat /\ MaxBytes \in Nat /\ Excess \in Nat
  /\ HasTimeout \in BOOLEAN /\ Escapes \in BOOLEAN

VARIABLES life, member, holds, reads, exit, piped, stored, dropped, unread, feeding,
          waited, ctx, pc, cause, waitErr, timedOut, result

taskVars == <<life, member, holds, reads, exit>>
pipeVars == <<piped, stored, dropped, unread, feeding>>
callVars == <<pc, cause, waitErr, timedOut, result>>
vars     == <<taskVars, pipeVars, waited, ctx, callVars>>

Processes == {Leader} \cup Kids

Init ==
  /\ life = [p \in Processes |-> "unborn"]
  /\ member = [p \in Processes |-> FALSE]
  /\ holds = [p \in Processes |-> FALSE]
  /\ reads = [p \in Processes |-> FALSE]
  /\ exit = "none"
  /\ piped = 0 /\ stored = 0 /\ dropped = 0
  /\ unread = Excess /\ feeding = FALSE
  /\ waited = FALSE
  /\ ctx = "live"
  /\ pc = "new" /\ cause = "none" /\ waitErr = FALSE /\ timedOut = FALSE
  /\ result = "none"

Alive(p)  == life[p] = "alive"
Members   == {p \in Processes : Alive(p) /\ member[p]}
Overflown == dropped > 0

-----------------------------------------------------------------------------
(* The task (external): what processes may do on their own. *)

Fork(p, k) ==
  /\ Alive(p) /\ life[k] = "unborn"
  /\ life' = [life EXCEPT ![k] = "alive"]
  /\ member' = [member EXCEPT ![k] = member[p]]
  /\ holds' = [holds EXCEPT ![k] = holds[p]]
  /\ reads' = [reads EXCEPT ![k] = reads[p]]
  /\ UNCHANGED <<exit, pipeVars, waited, ctx, callVars>>

\* setsid: refused to the leader of a group.
LeaveGroup(k) ==
  /\ Escapes
  /\ k \in Members \ {Leader}
  /\ member' = [member EXCEPT ![k] = FALSE]
  /\ UNCHANGED <<life, holds, reads, exit, pipeVars, waited, ctx, callVars>>

CloseOutput(p) ==
  /\ Alive(p) /\ holds[p]
  /\ holds' = [holds EXCEPT ![p] = FALSE]
  /\ UNCHANGED <<life, member, reads, exit, pipeVars, waited, ctx, callVars>>

CloseInput(p) ==
  /\ Alive(p) /\ reads[p]
  /\ reads' = [reads EXCEPT ![p] = FALSE]
  /\ UNCHANGED <<life, member, holds, exit, pipeVars, waited, ctx, callVars>>

\* What is read makes room in the pipe for as much of the rest.
ReadInput(p) ==
  /\ Alive(p) /\ reads[p]
  /\ unread > 0
  /\ unread' = unread - 1
  /\ UNCHANGED <<taskVars, piped, stored, dropped, feeding, waited, ctx, callVars>>

WriteOutput(p, n) ==
  /\ Alive(p) /\ holds[p]
  /\ piped + stored + dropped + n <= MaxBytes
  /\ piped' = piped + n
  /\ UNCHANGED <<taskVars, stored, dropped, unread, feeding, waited, ctx, callVars>>

ProcessExits(p, status) ==
  /\ Alive(p)
  /\ life' = [life EXCEPT ![p] = "dead"]
  /\ exit' = IF p = Leader THEN status ELSE exit
  /\ UNCHANGED <<member, holds, reads, pipeVars, waited, ctx, callVars>>

\* A signal to the group ends the processes in S.
Signalled(S) ==
  /\ life' = [p \in Processes |-> IF p \in S THEN "dead" ELSE life[p]]
  /\ exit' = IF Leader \in S THEN "signal" ELSE exit
  /\ UNCHANGED <<member, holds, reads>>

\* A process may catch or ignore SIGTERM; not SIGKILL.
SigTerm == \E S \in SUBSET Members : Signalled(S)
SigKill == Signalled(Members)

-----------------------------------------------------------------------------
(* Around the call: its start, its goroutines, its context. *)

\* cmd.Start with Setpgid; an empty command fails in the same way.
Start ==
  /\ pc = "new"
  /\ \/ /\ pc' = "started"
        /\ life' = [life EXCEPT ![Leader] = "alive"]
        /\ member' = [member EXCEPT ![Leader] = TRUE]
        /\ holds' = [holds EXCEPT ![Leader] = TRUE]
        /\ reads' = [reads EXCEPT ![Leader] = TRUE]
        /\ feeding' = TRUE
        /\ UNCHANGED result
     \/ /\ pc' = "returned"
        /\ result' = "spawn"
        /\ UNCHANGED <<life, member, holds, reads, feeding>>
  /\ UNCHANGED <<exit, piped, stored, dropped, unread, waited, ctx, cause, waitErr, timedOut>>

\* onStart has written the pgid; only now is the goroutine in cmd.Wait started.
OnStart ==
  /\ pc = "started"
  /\ pc' = "select"
  /\ UNCHANGED <<taskVars, pipeVars, waited, ctx, cause, waitErr, timedOut, result>>

\* A chunk reaches cappedBuffer.Write: stored whole or dropped whole, so that a
\* smaller one may still be stored after it.
CopyOutput(n) ==
  /\ n <= piped
  /\ piped' = piped - n
  /\ IF StdoutCap > 0 /\ stored + n > StdoutCap
     THEN dropped' = dropped + n /\ UNCHANGED stored
     ELSE stored' = stored + n /\ UNCHANGED dropped
  /\ UNCHANGED <<taskVars, unread, feeding, waited, ctx, callVars>>

\* The goroutine behind cmd.Stdin ends when the rest of the input fits the pipe,
\* or when nobody can read it: EPIPE, which os/exec ignores.
InputCopied ==
  /\ feeding
  /\ unread = 0 \/ \A p \in Processes : Alive(p) => ~reads[p]
  /\ feeding' = FALSE
  /\ UNCHANGED <<taskVars, piped, stored, dropped, unread, waited, ctx, callVars>>

\* cmd.Wait returns once the leader is reaped and the goroutines that copy have
\* ended: that of stdout at the end of the pipe, which is empty and whose write
\* end no process has open.
WaitReturns ==
  /\ pc \in {"select", "grace", "reap"}
  /\ ~waited
  /\ life[Leader] = "dead"
  /\ ~feeding
  /\ piped = 0
  /\ \A p \in Processes : Alive(p) => ~holds[p]
  /\ waited' = TRUE
  /\ UNCHANGED <<taskVars, pipeVars, ctx, callVars>>

DeadlineExpires ==
  /\ HasTimeout
  /\ pc # "new" /\ ctx = "live"
  /\ ctx' = "deadline"
  /\ UNCHANGED <<taskVars, pipeVars, waited, callVars>>

\* The daemon stops: the scheduler's context is cancelled.
Cancelled ==
  /\ ctx = "live"
  /\ ctx' = "cancelled"
  /\ UNCHANGED <<taskVars, pipeVars, waited, callVars>>

-----------------------------------------------------------------------------
(* Execute and killGroup. *)

\* One case of select: the child's wait result ...
SelectDone ==
  /\ pc = "select" /\ waited
  /\ pc' = "report" /\ cause' = "done"
  /\ waitErr' = (exit # "ok")
  /\ UNCHANGED <<taskVars, pipeVars, waited, ctx, timedOut, result>>

\* ... the context, or the closed channel of the capped buffer; each begins
\* killGroup.
SelectKill(why) ==
  /\ pc = "select"
  /\ CASE why = "ctx" -> ctx # "live"
       [] why = "cap" -> Overflown
  /\ pc' = "grace" /\ cause' = why
  /\ timedOut' = (why = "ctx" /\ ctx = "deadline")
  /\ SigTerm
  /\ UNCHANGED <<pipeVars, waited, ctx, waitErr, result>>

\* The wait result within the grace period, or after SIGKILL; after an overflow
\* killGroup's answer is replaced by an error.
KillGroupReaps ==
  /\ pc \in {"grace", "reap"} /\ waited
  /\ pc' = "sweep"
  /\ waitErr' = (cause = "cap" \/ exit # "ok")
  /\ UNCHANGED <<taskVars, pipeVars, waited, ctx, cause, timedOut, result>>

\* Mutated form: no escalation.
GraceExpires_NoKill ==
  /\ pc = "grace"
  /\ pc' = "reap"
  /\ UNCHANGED <<taskVars, pipeVars, waited, ctx, cause, waitErr, timedOut, result>>

GraceExpires ==
  /\ pc = "grace"
  /\ pc' = "reap"
  /\ SigKill
  /\ UNCHANGED <<pipeVars, waited, ctx, cause, waitErr, timedOut, result>>

\* Mutated form: killGroup returns without its last signal.
FinalSweep_Skipped ==
  /\ pc = "sweep"
  /\ pc' = "report"
  /\ UNCHANGED <<taskVars, pipeVars, waited, ctx, cause, waitErr, timedOut, result>>

FinalSweep ==
  /\ pc = "sweep"
  /\ pc' = "report"
  /\ SigKill
  /\ UNCHANGED <<pipeVars, waited, ctx, cause, waitErr, timedOut, result>>

\* Mutated form: an overflow that select did not see is forgotten.
Verdict_ForgetsOverflow ==
  CASE timedOut -> "timeout"
    [] ~timedOut /\ waitErr /\ ctx # "live" -> "cancelled"
    [] ~timedOut /\ waitErr /\ ctx = "live" -> "error"
    [] OTHER -> "ok"

\* The switch at the end of Execute, in its order.
Verdict ==
  CASE timedOut -> "timeout"
    [] ~timedOut /\ waitErr /\ ctx # "live" -> "cancelled"
    [] ~timedOut /\ waitErr /\ ctx = "live" -> "error"
    [] ~timedOut /\ ~waitErr /\ Overflown -> "overflow"
    [] OTHER -> "ok"

Report ==
  /\ pc = "report"
  /\ pc' = "returned"
  /\ result' = Verdict
  /\ UNCHANGED <<taskVars, pipeVars, waited, ctx, cause, waitErr, timedOut>>

-----------------------------------------------------------------------------

TaskStep ==
  \E p \in Processes :
    \/ \E k \in Kids : Fork(p, k)
    \/ LeaveGroup(p)
    \/ CloseOutput(p) \/ CloseInput(p) \/ ReadInput(p)
    \/ \E n \in 1..MaxBytes : WriteOutput(p, n)
    \/ \E status \in {"ok", "fail"} : ProcessExits(p, status)

Copy == \E n \in 1..MaxBytes : CopyOutput(n)

CallStep ==
  \/ OnStart \/ SelectDone \/ SelectKill("ctx") \/ SelectKill("cap")
  \/ KillGroupReaps \/ GraceExpires \/ FinalSweep \/ Report

Next == \/ TaskStep \/ Start \/ Copy \/ InputCopied \/ WaitReturns \/ DeadlineExpires
        \/ Cancelled \/ CallStep

Spec == Init /\ [][Next]_vars

\* Goroutines are scheduled, and the timers of the deadline and of the grace
\* period fire.  Nothing is assumed of the task, which may run for ever.
Fairness ==
  /\ WF_vars(CallStep) /\ WF_vars(Copy) /\ WF_vars(InputCopied) /\ WF_vars(WaitReturns)
  /\ WF_vars(DeadlineExpires)

FairSpec == Spec /\ Fairness

-----------------------------------------------------------------------------
(* Properties. *)

\* Once Execute returns from a timeout, a cancellation or an overflow, nothing
\* is left of the process group: not a descendant that ignored SIGTERM and
\* closed its output, so that cmd.Wait did not wait for it, not one that was
\* forked after the first signal.
NoSurvivors == pc = "returned" /\ cause \in {"ctx", "cap"} => Members = {}

\* A success is never that of a run which was killed for its deadline or for its
\* output, whichever of several ready cases select took: its command ended with
\* status zero, and every byte written has been stored and nobody can add one, so
\* that the messages the scheduler emits are those of the whole output.  (A run
\* that was cancelled may be one: when its command ends with status zero all the
\* same, Execute does not look at the context.)
SuccessIsWhole ==
  result = "ok" =>
    /\ cause = "done" \/ (cause = "ctx" /\ ctx = "cancelled")
    /\ exit = "ok"
    /\ piped = 0 /\ dropped = 0
    /\ \A p \in Processes : Alive(p) => ~holds[p]

\* An escaped process keeps a pipe from its end: it has the output open, or does
\* not read an input that does not fit.
PipeHeldOutside ==
  \E p \in Processes : Alive(p) /\ ~member[p] /\ (holds[p] \/ (reads[p] /\ unread > 0))

\* A started run with a timeout returns, whatever its processes ignore, fork,
\* print or leave unread, unless one that left the group keeps the output open,
\* or too much input unread, for ever.
ReturnsUnlessHeld ==
  []<>(pc \in {"new", "returned"}) \/ <>[]PipeHeldOutside

-----------------------------------------------------------------------------
(* A statement of the code's comments that it does not keep. *)

\* Spec: "Timeout bounds the run."
TimeoutBoundsTheRun == ctx = "deadline" ~> pc = "returned"

=============================================================================
