--------------------------- MODULE ExecutorProofs ---------------------------
(***************************************************************************)
(* What Execute leaves behind and what it reports, for every number of     *)
(* descendants, every cap, with and without a timeout, and with            *)
(* descendants that leave the group.                                       *)
(***************************************************************************)
EXTENDS Executor, TLAPS

\* Every process, byte count and variable of Execute has its type.
ExecutorTypeOK ==
  /\ life \in [Processes -> {"unborn", "alive", "dead"}]
  /\ member \in [Processes -> BOOLEAN]
  /\ holds \in [Processes -> BOOLEAN]
  /\ reads \in [Processes -> BOOLEAN]
  /\ exit \in {"none", "ok", "fail", "signal"}
  /\ piped \in Nat /\ stored \in Nat /\ dropped \in Nat
  /\ unread \in Nat /\ feeding \in BOOLEAN
  /\ waited \in BOOLEAN
  /\ ctx \in {"live", "deadline", "cancelled"}
  /\ pc \in {"new", "started", "select", "grace", "reap", "sweep", "report", "returned"}
  /\ cause \in {"none", "done", "ctx", "cap"}
  /\ waitErr \in BOOLEAN /\ timedOut \in BOOLEAN
  /\ result \in {"none", "spawn", "timeout", "cancelled", "error", "overflow", "ok"}

\* Once cmd.Wait has returned, the leader is dead, nobody can write and nothing
\* is left to copy: no step changes the status or the stored output any more.
WaitIsFinal ==
  waited => /\ life[Leader] = "dead"
            /\ piped = 0
            /\ \A p \in Processes : Alive(p) => ~holds[p]

\* A case of select was taken when Execute is past it, and no result is set
\* before it returns.
CausesFit ==
  /\ pc = "new" => ~waited
  /\ pc \in {"new", "started", "select"} => cause = "none" /\ result = "none"
  /\ pc \in {"grace", "reap", "sweep"} => cause \in {"ctx", "cap"} /\ result = "none"
  /\ pc = "report" => cause \in {"done", "ctx", "cap"} /\ result = "none"

\* Past killGroup, or past the wait result, the child has been waited for and
\* waitErr tells how it ended.
VerdictInputs ==
  pc \in {"sweep", "report"} => /\ waited
                                /\ ~waitErr => exit = "ok"

\* A cause in the context is one that lasts, and is a cancellation unless the run
\* timed out; after an overflow there is an error to report.
CausesLast ==
  /\ cause = "ctx" => ctx # "live" /\ (~timedOut => ctx = "cancelled")
  /\ cause = "cap" /\ pc \in {"sweep", "report"} => waitErr

\* After the final sweep the group is empty, and stays so.
SweepIsFinal ==
  pc \in {"report", "returned"} /\ cause \in {"ctx", "cap"} => Members = {}

\* What a reported success stands on.
ReportIsWhole ==
  result = "ok" => /\ waited /\ exit = "ok" /\ dropped = 0
                   /\ cause = "done" \/ (cause = "ctx" /\ ctx = "cancelled")

ExecutorInv ==
  /\ ExecutorTypeOK /\ WaitIsFinal /\ CausesFit /\ VerdictInputs
  /\ CausesLast /\ SweepIsFinal /\ ReportIsWhole
-----------------------------------------------------------------------------

\* Nothing has been started.
LEMMA InitExecutor == Init => ExecutorInv
<1> SUFFICES ASSUME Init
             PROVE  ExecutorInv
  OBVIOUS
<1>1. life \in [Processes -> {"unborn", "alive", "dead"}]
  BY DEF Init
<1>2. /\ member \in [Processes -> BOOLEAN] /\ holds \in [Processes -> BOOLEAN]
      /\ reads \in [Processes -> BOOLEAN]
  BY Zenon DEF Init
<1>3. waited \in BOOLEAN /\ waitErr \in BOOLEAN /\ timedOut \in BOOLEAN /\ feeding \in BOOLEAN
  BY DEF Init
<1>4. ExecutorTypeOK
  BY <1>1, <1>2, <1>3, ExecutorAssumption DEF Init, ExecutorTypeOK
<1> QED
  BY <1>4 DEF Init, ExecutorInv, WaitIsFinal, CausesFit, VerdictInputs, CausesLast, SweepIsFinal,
     ReportIsWhole

\* A signal leaves processes and their status in their types.
LEMMA SignalTyped ==
  ASSUME ExecutorTypeOK, NEW S \in SUBSET Members, Signalled(S)
  PROVE  /\ life' \in [Processes -> {"unborn", "alive", "dead"}]
         /\ exit' \in {"none", "ok", "fail", "signal"}
         /\ \A p \in Processes : Alive(p)' <=> Alive(p) /\ p \notin S
         /\ life[Leader] = "dead" => life'[Leader] = "dead" /\ exit' = exit
         /\ UNCHANGED <<member, holds, reads>>
<1>1. Leader \in Processes /\ S \subseteq Processes
  BY DEF Processes, Members
<1>2. life[Leader] = "dead" => Leader \notin S
  BY DEF Members, Alive
<1> QED
  BY <1>1, <1>2 DEF Signalled, Alive, ExecutorTypeOK

\* SIGKILL empties the group.
LEMMA KillEmpties ==
  ASSUME ExecutorTypeOK, SigKill
  PROVE  Members' = {}
<1>1. Members \in SUBSET Members /\ Signalled(Members)
  BY DEF SigKill
<1>2. \A p \in Processes : Alive(p)' <=> Alive(p) /\ p \notin Members
  BY <1>1, SignalTyped
<1>3. member' = member
  BY DEF SigKill, Signalled
<1> QED
  BY <1>2, <1>3 DEF Members

\* Every signal killGroup sends is one to some of the group.
LEMMA SignalsReachMembers ==
  ASSUME \/ SelectKill("ctx") \/ SelectKill("cap") \/ GraceExpires \/ FinalSweep
  PROVE  \E S \in SUBSET Members : Signalled(S)
BY DEF SelectKill, GraceExpires, FinalSweep, SigTerm, SigKill

\* The steps of the task.
LEMMA TaskKeepsInv ==
  ASSUME ExecutorInv, TaskStep
  PROVE  ExecutorInv'
<1>0. PICK p \in Processes :
        \/ \E k \in Kids : Fork(p, k)
        \/ LeaveGroup(p)
        \/ CloseOutput(p) \/ CloseInput(p) \/ ReadInput(p)
        \/ \E n \in 1..MaxBytes : WriteOutput(p, n)
        \/ \E status \in {"ok", "fail"} : ProcessExits(p, status)
  BY DEF TaskStep
<1>t. /\ ExecutorTypeOK /\ WaitIsFinal /\ SweepIsFinal
      /\ Leader \in Processes /\ Kids \subseteq Processes
  BY DEF ExecutorInv, Processes
<1>1. UNCHANGED <<stored, dropped, feeding, waited, ctx, pc, cause, waitErr, timedOut, result>>
  BY <1>0 DEF Fork, LeaveGroup, CloseOutput, CloseInput, ReadInput, WriteOutput, ProcessExits,
     pipeVars, callVars
<1>2. /\ life' \in [Processes -> {"unborn", "alive", "dead"}]
      /\ member' \in [Processes -> BOOLEAN]
      /\ holds' \in [Processes -> BOOLEAN]
      /\ reads' \in [Processes -> BOOLEAN]
      /\ exit' \in {"none", "ok", "fail", "signal"}
      /\ piped' \in Nat /\ unread' \in Nat
  <2>1. CASE \E k \in Kids : Fork(p, k)
    BY <1>t, <2>1 DEF Fork, ExecutorTypeOK, pipeVars
  <2>2. CASE LeaveGroup(p) \/ CloseOutput(p) \/ CloseInput(p)
    BY <1>t, <2>2 DEF LeaveGroup, CloseOutput, CloseInput, ExecutorTypeOK, pipeVars
  <2>5. CASE ReadInput(p)
    BY <1>t, <2>5 DEF ReadInput, ExecutorTypeOK, taskVars
  <2>3. CASE \E n \in 1..MaxBytes : WriteOutput(p, n)
    BY <1>t, <2>3, ExecutorAssumption DEF WriteOutput, ExecutorTypeOK, taskVars
  <2>4. CASE \E status \in {"ok", "fail"} : ProcessExits(p, status)
    BY <1>t, <2>4 DEF ProcessExits, ExecutorTypeOK, pipeVars
  <2> QED
    BY <1>0, <2>1, <2>2, <2>3, <2>4, <2>5
<1>3. life[Leader] = "dead" => life'[Leader] = "dead" /\ exit' = exit
  <2>1. CASE \E k \in Kids : Fork(p, k)
    BY <1>t, <2>1 DEF Fork, ExecutorTypeOK
  <2>2. CASE \/ LeaveGroup(p) \/ CloseOutput(p) \/ CloseInput(p) \/ ReadInput(p)
             \/ \E n \in 1..MaxBytes : WriteOutput(p, n)
    BY <2>2 DEF LeaveGroup, CloseOutput, CloseInput, ReadInput, WriteOutput, taskVars
  <2>4. CASE \E status \in {"ok", "fail"} : ProcessExits(p, status)
    BY <1>t, <2>4 DEF ProcessExits, ExecutorTypeOK, Alive
  <2> QED
    BY <1>0, <2>1, <2>2, <2>4
<1>4. WaitIsFinal'
  <2> SUFFICES ASSUME waited
               PROVE  piped' = 0 /\ \A x \in Processes : Alive(x)' => ~holds'[x]
    BY <1>t, <1>1, <1>3 DEF WaitIsFinal
  <2>0. piped = 0 /\ \A x \in Processes : Alive(x) => ~holds[x]
    BY <1>t DEF WaitIsFinal
  <2>1. CASE \E k \in Kids : Fork(p, k)
    BY <1>t, <2>0, <2>1 DEF Fork, ExecutorTypeOK, Alive, pipeVars
  <2>2. CASE LeaveGroup(p) \/ CloseInput(p) \/ ReadInput(p)
    BY <2>0, <2>2 DEF LeaveGroup, CloseInput, ReadInput, Alive, pipeVars, taskVars
  <2>3. CASE CloseOutput(p) \/ \E n \in 1..MaxBytes : WriteOutput(p, n)
    BY <2>0, <2>3 DEF CloseOutput, WriteOutput
  <2>4. CASE \E status \in {"ok", "fail"} : ProcessExits(p, status)
    BY <1>t, <2>0, <2>4 DEF ProcessExits, ExecutorTypeOK, Alive, pipeVars
  <2> QED
    BY <1>0, <2>1, <2>2, <2>3, <2>4
<1>5. Members = {} => Members' = {}
  <2> SUFFICES ASSUME Members = {}, NEW x \in Processes, Alive(x)'
               PROVE  ~member'[x]
    BY DEF Members
  <2>0. \A y \in Processes : Alive(y) => ~member[y]
    BY DEF Members
  <2>1. CASE \E k \in Kids : Fork(p, k)
    BY <1>t, <2>0, <2>1 DEF Fork, ExecutorTypeOK, Alive
  <2>2. CASE LeaveGroup(p)
    BY <2>2 DEF LeaveGroup
  <2>3. CASE \/ CloseOutput(p) \/ CloseInput(p) \/ ReadInput(p)
             \/ \E n \in 1..MaxBytes : WriteOutput(p, n)
    BY <2>0, <2>3 DEF CloseOutput, CloseInput, ReadInput, WriteOutput, Alive, taskVars
  <2>4. CASE \E status \in {"ok", "fail"} : ProcessExits(p, status)
    BY <1>t, <2>0, <2>4 DEF ProcessExits, ExecutorTypeOK, Alive
  <2> QED
    BY <1>0, <2>1, <2>2, <2>3, <2>4
<1> QED
  BY <1>1, <1>2, <1>3, <1>4, <1>5
     DEF ExecutorInv, ExecutorTypeOK, CausesFit, VerdictInputs, CausesLast, SweepIsFinal,
         ReportIsWhole, WaitIsFinal

\* The start of the task, the copying of its input and output, its end, and its
\* context.
LEMMA AroundKeepsInv ==
  ASSUME ExecutorInv,
         Start \/ Copy \/ InputCopied \/ WaitReturns \/ DeadlineExpires \/ Cancelled
  PROVE  ExecutorInv'
<1>t. ExecutorTypeOK /\ Leader \in Processes
  BY DEF ExecutorInv, Processes
<1>1. CASE Start
  <2>1. pc = "new" /\ cause = "none" /\ result = "none"
    BY <1>1 DEF Start, ExecutorInv, CausesFit
  <2>2. UNCHANGED <<exit, piped, stored, dropped, unread, waited, ctx, cause, waitErr, timedOut>>
    BY <1>1 DEF Start
  <2>3. \/ pc' = "started" /\ result' = "none"
        \/ pc' = "returned" /\ result' = "spawn"
    BY <1>1, <2>1 DEF Start
  <2>4. ExecutorTypeOK'
    BY <1>t, <1>1, <2>2, <2>3 DEF Start, ExecutorTypeOK
  <2>5. ~waited
    BY <2>1 DEF ExecutorInv, CausesFit
  <2> QED
    BY <2>1, <2>2, <2>3, <2>4, <2>5
       DEF ExecutorInv, WaitIsFinal, CausesFit, VerdictInputs, CausesLast, SweepIsFinal,
           ReportIsWhole
<1>2. CASE Copy
  <2>1. PICK n \in 1..MaxBytes : CopyOutput(n)
    BY <1>2 DEF Copy
  <2>2. /\ n <= piped /\ piped' = piped - n
        /\ UNCHANGED <<taskVars, unread, feeding, waited, ctx, callVars>>
        /\ \/ dropped' = dropped + n /\ stored' = stored
           \/ stored' = stored + n /\ dropped' = dropped
    BY <2>1 DEF CopyOutput
  <2>3. ~waited
    BY <1>t, <2>2, ExecutorAssumption DEF ExecutorInv, WaitIsFinal, ExecutorTypeOK
  <2>4. ExecutorTypeOK'
    BY <1>t, <2>2, ExecutorAssumption DEF ExecutorTypeOK, taskVars, callVars
  <2>5. Members' = Members
    BY <2>2 DEF Members, Alive, taskVars
  <2> QED
    BY <2>2, <2>3, <2>4, <2>5
       DEF ExecutorInv, WaitIsFinal, CausesFit, VerdictInputs, CausesLast, SweepIsFinal,
           ReportIsWhole, taskVars, callVars
<1>3. CASE WaitReturns
  <2>1. Members' = Members
    BY <1>3 DEF WaitReturns, Members, Alive, taskVars
  <2> QED
    BY <1>t, <1>3, <2>1
       DEF WaitReturns, ExecutorInv, ExecutorTypeOK, WaitIsFinal, CausesFit, VerdictInputs,
           CausesLast, SweepIsFinal, ReportIsWhole, taskVars, pipeVars, callVars, Alive
<1>4. CASE DeadlineExpires \/ Cancelled
  <2>1. Members' = Members /\ UNCHANGED <<taskVars, pipeVars, waited, callVars>>
    BY <1>4 DEF DeadlineExpires, Cancelled, Members, Alive, taskVars
  <2>2. ctx' \in {"live", "deadline", "cancelled"} /\ ctx = "live"
    BY <1>4 DEF DeadlineExpires, Cancelled
  <2> QED
    BY <1>t, <2>1, <2>2
       DEF ExecutorInv, ExecutorTypeOK, WaitIsFinal, CausesFit, VerdictInputs,
           CausesLast, SweepIsFinal, ReportIsWhole, taskVars, pipeVars, callVars, Alive
<1>5. CASE InputCopied
  <2>1. Members' = Members
    BY <1>5 DEF InputCopied, Members, Alive, taskVars
  <2>2. /\ feeding' = FALSE
        /\ UNCHANGED <<taskVars, piped, stored, dropped, unread, waited, ctx, callVars>>
    BY <1>5 DEF InputCopied
  <2>3. feeding' \in BOOLEAN
    BY <2>2
  <2>4. ExecutorTypeOK'
    BY <1>t, <2>2, <2>3 DEF ExecutorTypeOK, taskVars, callVars
  <2> QED
    BY <2>1, <2>2, <2>4
       DEF ExecutorInv, WaitIsFinal, CausesFit, VerdictInputs, CausesLast, SweepIsFinal,
           ReportIsWhole, taskVars, callVars, Alive
<1> QED
  BY <1>1, <1>2, <1>3, <1>4, <1>5

\* The steps of Execute and killGroup.
LEMMA CallKeepsInv ==
  ASSUME ExecutorInv, CallStep
  PROVE  ExecutorInv'
<1>t. ExecutorTypeOK /\ Leader \in Processes
  BY DEF ExecutorInv, Processes
<1>1. CASE OnStart \/ SelectDone \/ KillGroupReaps
  <2>1. UNCHANGED <<taskVars, pipeVars, waited, ctx, timedOut, result>>
    BY <1>1 DEF OnStart, SelectDone, KillGroupReaps
  <2>2. Members' = Members
    BY <2>1 DEF Members, Alive, taskVars
  <2>3. \/ pc = "started" /\ pc' = "select" /\ UNCHANGED <<cause, waitErr>>
        \/ pc = "select" /\ waited /\ pc' = "report" /\ cause' = "done" /\ waitErr' = (exit # "ok")
        \/ /\ pc \in {"grace", "reap"} /\ waited /\ pc' = "sweep" /\ cause' = cause
           /\ waitErr' = (cause = "cap" \/ exit # "ok")
    BY <1>1 DEF OnStart, SelectDone, KillGroupReaps
  <2>4. waitErr' \in BOOLEAN /\ (pc' \in {"sweep", "report"} => waited /\ (~waitErr' => exit = "ok"))
    BY <1>t, <2>3 DEF ExecutorTypeOK
  <2>5. ExecutorTypeOK'
    BY <1>t, <2>1, <2>3, <2>4 DEF ExecutorTypeOK, taskVars, pipeVars
  <2>6. CausesFit'
    BY <2>1, <2>3 DEF ExecutorInv, CausesFit
  <2>7. SweepIsFinal'
    BY <2>3 DEF SweepIsFinal
  <2>8. CausesLast'
    BY <2>1, <2>3 DEF ExecutorInv, CausesLast, CausesFit
  <2> QED
    BY <2>1, <2>3, <2>4, <2>5, <2>6, <2>7, <2>8
       DEF ExecutorInv, WaitIsFinal, VerdictInputs, ReportIsWhole, taskVars, pipeVars, Alive
<1>2. CASE SelectKill("ctx") \/ SelectKill("cap") \/ GraceExpires \/ FinalSweep
  <2>1. PICK S \in SUBSET Members : Signalled(S)
    BY <1>2, SignalsReachMembers
  <2>2. /\ life' \in [Processes -> {"unborn", "alive", "dead"}]
        /\ exit' \in {"none", "ok", "fail", "signal"}
        /\ \A p \in Processes : Alive(p)' <=> Alive(p) /\ p \notin S
        /\ life[Leader] = "dead" => life'[Leader] = "dead" /\ exit' = exit
        /\ UNCHANGED <<member, holds, reads>>
    BY <1>t, <2>1, SignalTyped
  <2>3. /\ UNCHANGED <<pipeVars, waited, ctx, waitErr, result>>
        /\ \/ /\ pc = "select" /\ pc' = "grace" /\ cause' \in {"ctx", "cap"}
              /\ cause' = "ctx" => ctx # "live"
              /\ timedOut' = (cause' = "ctx" /\ ctx = "deadline")
           \/ pc = "grace" /\ pc' = "reap" /\ UNCHANGED <<cause, timedOut>>
           \/ pc = "sweep" /\ pc' = "report" /\ SigKill /\ UNCHANGED <<cause, timedOut>>
    BY <1>2 DEF SelectKill, GraceExpires, FinalSweep
  <2>t. timedOut' \in BOOLEAN
    BY <1>t, <2>3 DEF ExecutorTypeOK
  <2>4. ExecutorTypeOK'
    BY <1>t, <2>2, <2>3, <2>t DEF ExecutorTypeOK, pipeVars
  <2>5. WaitIsFinal'
    BY <2>2, <2>3 DEF ExecutorInv, WaitIsFinal, pipeVars
  <2>6. result = "none" /\ CausesFit'
    BY <2>3 DEF ExecutorInv, CausesFit
  <2>7. VerdictInputs'
    BY <2>2, <2>3 DEF ExecutorInv, VerdictInputs, WaitIsFinal
  <2>8. SweepIsFinal'
    BY <1>t, <2>3, KillEmpties DEF SweepIsFinal
  <2>9. ReportIsWhole'
    BY <2>3, <2>6 DEF ReportIsWhole
  <2>10. CausesLast'
    BY <1>t, <2>3 DEF ExecutorInv, CausesLast, ExecutorTypeOK
  <2> QED
    BY <2>4, <2>5, <2>6, <2>7, <2>8, <2>9, <2>10 DEF ExecutorInv
<1>3. CASE Report
  <2>1. /\ pc = "report" /\ pc' = "returned" /\ result' = Verdict
        /\ UNCHANGED <<taskVars, pipeVars, waited, ctx, cause, waitErr, timedOut>>
    BY <1>3 DEF Report
  <2>2. Members' = Members
    BY <2>1 DEF Members, Alive, taskVars
  <2>3. /\ Verdict \in {"timeout", "cancelled", "error", "overflow", "ok"}
        /\ Verdict = "ok" => ~timedOut /\ ~waitErr /\ ~Overflown
    BY <1>t DEF Verdict, ExecutorTypeOK
  <2>4. ~Overflown => dropped = 0
    BY <1>t DEF Overflown, ExecutorTypeOK
  <2> QED
    BY <1>t, <2>1, <2>2, <2>3, <2>4
       DEF ExecutorInv, ExecutorTypeOK, WaitIsFinal, CausesFit, VerdictInputs,
           CausesLast, SweepIsFinal, ReportIsWhole, taskVars, pipeVars, Alive
<1> QED
  BY <1>1, <1>2, <1>3 DEF CallStep

\* The invariant of a call is inductive.
THEOREM ExecutorInvHolds == Spec => []ExecutorInv
<1>1. ExecutorInv /\ UNCHANGED vars => ExecutorInv'
  BY DEF vars, taskVars, pipeVars, callVars, ExecutorInv, ExecutorTypeOK, WaitIsFinal, CausesFit,
     VerdictInputs, CausesLast, SweepIsFinal, ReportIsWhole, Members, Alive
<1>2. ExecutorInv /\ [Next]_vars => ExecutorInv'
  BY <1>1, TaskKeepsInv, AroundKeepsInv, CallKeepsInv DEF Next
<1> QED
  BY <1>2, InitExecutor, PTL DEF Spec

\* Execute leaves nothing of the process group behind when it returns from a
\* timeout, a cancellation or an overflow, however many descendants were forked
\* and whatever they ignore.
THEOREM NothingSurvives == Spec => []NoSurvivors
<1>1. ExecutorInv => NoSurvivors
  BY DEF ExecutorInv, SweepIsFinal, NoSurvivors
<1> QED
  BY <1>1, ExecutorInvHolds, PTL

\* A success that Execute reports is that of a command which ended with status
\* zero, and not one killed for its deadline or its output; all of its output is
\* stored, and nobody can add to it.
THEOREM SuccessesAreWhole == Spec => []SuccessIsWhole
<1>1. ExecutorInv => SuccessIsWhole
  BY DEF ExecutorInv, ReportIsWhole, WaitIsFinal, SuccessIsWhole
<1> QED
  BY <1>1, ExecutorInvHolds, PTL

=============================================================================
