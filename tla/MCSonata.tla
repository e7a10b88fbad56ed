------------------------------ MODULE MCSonata ------------------------------
(***************************************************************************)
(* Small instances of Sonata for TLC: two actions that form a cycle        *)
(* (q1 -> q2 -> q1), so that the hop limit is met, and the definitions     *)
(* that replace them.                                                      *)
(***************************************************************************)
EXTENDS Sonata, TLC

CONSTANTS q1, q2, p1, p2

\* No definition tells process group ids apart.
PidSymmetry == Permutations(Pids)

Pass == [p \in Payloads |-> "pass"]
Picky == [p \in Payloads |-> IF p = p1 THEN "skip" ELSE "pass"]
Broken == [p \in Payloads |-> "error"]

Def(a, ins, out, conc, tries) ==
  [name |-> a, inputs |-> ins, output |-> out, join |-> FALSE,
   concurrency |-> conc, maxAttempts |-> tries]

On(q, f) == [x \in {q} |-> f]

\* A cycle q1 -> q2 -> q1 with retries, and concurrency on the way back.
Forth == Def(1, On(q1, Pass), q2, 1, 2)
Back  == Def(2, On(q2, Pass), q1, 2, 1)
CycleDefs == {Forth, Back}

\* One action with a retry, whose output nobody reads.
RetryDefs == {Def(1, On(q1, Pass), q2, 1, 2)}

\* Definitions of one action that clients replace one another with: a plain
\* one with concurrency, one that moves to another queue, one whose filter
\* decides by payload, one whose filter fails, and a join.
Plain  == Def(1, On(q1, Pass), q2, 2, 2)
Moved  == Def(1, On(q2, Pass), q1, 1, 1)
Choosy == Def(1, On(q1, Picky), NoQueue, 1, 1)
Faulty == Def(1, On(q1, Broken), NoQueue, 1, 1)
Joined == [Plain EXCEPT !.join = TRUE, !.output = NoQueue,
                         !.inputs = [q \in {q1, q2} |-> Pass]]
EditDefs == {Plain, Moved, Choosy, Faulty, Joined}

\* Of these, the ones after which a delivery may be left in a way of its own.
SettleDefs == {Plain, Moved, Joined}

\* The definition an action has at first: the plain one where there is a choice.
FirstDef(a) ==
  IF Plain \in Defs /\ Plain.name = a THEN Plain ELSE CHOOSE d \in Defs : d.name = a

\* A database in which an earlier daemon has registered every action.
Registered ==
  /\ messages = <<>>
  /\ versions = [a \in Actions |-> <<FirstDef(a)>>]
  /\ enabled = [a \in Actions |-> TRUE]
  /\ deliveries = [r \in Rows |-> NoDelivery]
  /\ SchedulerInit
  /\ ApiInit

RegisteredSpec == Registered /\ [][Next]_vars

RegisteredFairSpec == RegisteredSpec /\ Fairness
=============================================================================
