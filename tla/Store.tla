------------------------------- MODULE Store -------------------------------
(***************************************************************************)
(* The SQLite store of sonata (internal/store): three tables and one       *)
(* operator per write transaction.  Every write goes through a single      *)
(* connection opened BEGIN IMMEDIATE, so a transaction is one step.        *)
(*                                                                         *)
(*   messages    the log, in commit order; a message's index is its id.    *)
(*   versions    for each action the definitions applied so far; the last  *)
(*               one is current and the empty sequence is "no such action".*)
(*   enabled     the enabled flag of each action's current version.        *)
(*   deliveries  one row per (message, action); state "none" is no row.    *)
(*                                                                         *)
(* An instant is abstracted to whether it has passed: the column           *)
(* not_before is "null", "closed" (in the future) or "open".               *)
(***************************************************************************)
EXTENDS Integers, Sequences, FiniteSets

CONSTANTS
  Queues,        \* queue names
  NoQueue,       \* an action definition without output queue
  Payloads,      \* payloads, told apart by what the filters say of them
  NumActions,    \* actions are numbered in name order
  Defs,          \* the definitions clients apply
  Pids,          \* process group ids
  NoPid,         \* pgid IS NULL
  NoRow,         \* no delivery: origin of a message a client sent
  MaxMessages,   \* bound on the message log
  MaxVersions    \* bound on the versions of an action

Actions == 1..NumActions
MsgIds  == 1..MaxMessages
Rows    == MsgIds \X Actions

\* What a CEL filter answers for each payload; "error" stands for every
\* evaluation, activation or compilation error.
Filters == [Payloads -> {"pass", "skip", "error"}]

\* The part of an action definition that the delivery plane reads: its name,
\* each input queue with its filter, the output queue, whether it is a join, the
\* concurrency ceiling and the attempt budget.
Definition ==
  [name        : Actions,
   inputs      : UNION {[Q -> Filters] : Q \in SUBSET Queues},
   output      : Queues \cup {NoQueue},
   join        : BOOLEAN,
   concurrency : Nat \ {0},
   maxAttempts : Nat \ {0}]

\* What validation demands of the queues: at least one input, no direct loop,
\* and two inputs at least for a join.
Valid(d) ==
  /\ DOMAIN d.inputs # {}
  /\ d.output \notin DOMAIN d.inputs
  /\ d.join => Cardinality(DOMAIN d.inputs) >= 2

ASSUME StoreAssumption ==
  /\ NumActions \in Nat \ {0}
  /\ MaxMessages \in Nat
  /\ MaxVersions \in Nat
  /\ \A d \in Defs : d \in Definition /\ Valid(d)
  /\ NoPid \notin Pids
  /\ NoRow \notin Rows
  /\ NoQueue \notin Queues

VARIABLES messages, versions, enabled, deliveries

storeVars == <<messages, versions, enabled, deliveries>>

States == {"pending", "claimed", "done", "failed", "filtered", "dead", "cancelled"}

Delivery ==
  [state   : States \cup {"none"},
   attempt : Nat,
   version : Nat,                          \* 0: action_version IS NULL
   gate    : {"null", "closed", "open"},   \* not_before
   pgid    : Pids \cup {NoPid}]

Message ==
  [queue         : Queues,
   payload       : Payloads,
   hops          : Nat,
   trace         : Nat,                    \* id of the message that began the trace
   origin        : Rows \cup {NoRow},      \* origin_message_id, origin_action
   originVersion : Nat]

NoDelivery == [state |-> "none", attempt |-> 0, version |-> 0,
               gate |-> "null", pgid |-> NoPid]

PendingDelivery == [NoDelivery EXCEPT !.state = "pending"]

StoreTypeOK ==
  /\ messages \in Seq(Message)
  /\ Len(messages) <= MaxMessages
  /\ versions \in [Actions -> Seq(Defs)]
  /\ enabled \in [Actions -> BOOLEAN]
  /\ deliveries \in [Rows -> Delivery]

\* A fresh database.
StoreInit ==
  /\ messages = <<>>
  /\ versions = [a \in Actions |-> <<>>]
  /\ enabled = [a \in Actions |-> TRUE]
  /\ deliveries = [r \in Rows |-> NoDelivery]

-----------------------------------------------------------------------------
(* Reads. *)

Exists(a) == versions[a] # <<>>

CurrentDef(a) == versions[a][Len(versions[a])]

\* The actions that receive an eager delivery for a message on queue q:
\* enabled, not a join, and subscribed by their current version.
Subscribers(q) ==
  {a \in Actions : /\ Exists(a)
                   /\ enabled[a]
                   /\ ~CurrentDef(a).join
                   /\ q \in DOMAIN CurrentDef(a).inputs}

InState(S) == {r \in Rows : deliveries[r].state \in S}

\* States that must keep the daemon alive.
ActiveStates == {"pending", "failed", "claimed"}

ActiveRows == InState(ActiveStates)

CountActiveDeliveries == Cardinality(ActiveRows)

ClaimedDeliveries == InState({"claimed"})

Eligible(r) ==
  \/ deliveries[r].state = "pending"
  \/ deliveries[r].state = "failed" /\ deliveries[r].gate = "open"

\* r is the oldest claimable delivery of action a.  Delivery ids are generated
\* inside the write transaction, so their order is the order of the messages.
IsNextEligible(r, a) ==
  /\ r[2] = a
  /\ Eligible(r)
  /\ \A s \in Rows : s[2] = a /\ Eligible(s) => r[1] <= s[1]

\* The earliest gate among the failed deliveries has passed.
RetryDue == \E r \in InState({"failed"}) : deliveries[r].gate = "open"

-----------------------------------------------------------------------------
(* Write transactions. *)

\* Insert the sequence ms of messages, all on queue q, with one pending
\* delivery per subscriber of q, on top of the delivery table base.
InsertMessages(ms, q, base) ==
  /\ Len(messages) + Len(ms) <= MaxMessages
  /\ messages' = messages \o ms
  /\ deliveries' = [r \in Rows |->
       IF /\ r[1] \in (Len(messages) + 1)..(Len(messages) + Len(ms))
          /\ r[2] \in Subscribers(q)
       THEN PendingDelivery
       ELSE base[r]]
  /\ UNCHANGED <<versions, enabled>>

AppendMessage(q, p) ==
  LET m == [queue |-> q, payload |-> p, hops |-> 0,
            trace |-> Len(messages) + 1, origin |-> NoRow, originVersion |-> 0]
  IN  InsertMessages(<<m>>, q, deliveries)

SetRow(r, row) ==
  /\ deliveries' = [deliveries EXCEPT ![r] = row]
  /\ UNCHANGED <<messages, versions, enabled>>

ClaimDelivery(r, v) ==
  /\ deliveries[r].state \in {"pending", "failed"}
  /\ SetRow(r, [deliveries[r] EXCEPT !.state = "claimed", !.version = v,
                                     !.attempt = @ + 1, !.gate = "null"])

\* Terminal without an execution; the UPDATE has no state guard and keeps
\* not_before.
ResolveDelivery(r, state) ==
  SetRow(r, [deliveries[r] EXCEPT !.state = state, !.pgid = NoPid])

SetDeliveryPgid(r, p) ==
  SetRow(r, [deliveries[r] EXCEPT
               !.pgid = IF deliveries[r].state = "claimed" THEN p ELSE @])

\* Mutated form: the outputs are inserted, the delivery stays claimed.
CompleteDelivery_LeavesClaimed(r, outs, q) ==
  /\ deliveries[r].state = "claimed"
  /\ InsertMessages(outs, q, deliveries)

\* The transactional outbox: done, and every output message with its own
\* deliveries, in one transaction.
CompleteDelivery(r, outs, q) ==
  /\ deliveries[r].state = "claimed"
  /\ LET base == [deliveries EXCEPT ![r].state = "done", ![r].pgid = NoPid]
     IN  InsertMessages(outs, q, base)

FailDelivery(r, dead) ==
  /\ deliveries[r].state = "claimed"
  /\ SetRow(r, [deliveries[r] EXCEPT
                  !.state = IF dead THEN "dead" ELSE "failed",
                  !.gate  = IF dead THEN "null" ELSE "closed",
                  !.pgid  = NoPid])

\* Mutated form: any delivery that has ended can be replayed.
ReplayDelivery_AnyEnded(r) ==
  /\ deliveries[r].state \in States \ ActiveStates
  /\ SetRow(r, [deliveries[r] EXCEPT !.state = "pending", !.attempt = 0,
                                     !.version = 0, !.gate = "null"])

ReplayDelivery(r) ==
  /\ deliveries[r].state = "dead"
  /\ SetRow(r, [deliveries[r] EXCEPT !.state = "pending", !.attempt = 0,
                                     !.version = 0, !.gate = "null"])

Cancellable(a) == {r \in InState({"pending", "failed"}) : r[2] = a}

CancelDeliveries(a) ==
  /\ deliveries' = [r \in Rows |->
       IF r \in Cancellable(a)
       THEN [deliveries[r] EXCEPT !.state = "cancelled", !.gate = "null"]
       ELSE deliveries[r]]
  /\ UNCHANGED <<messages, versions, enabled>>

\* A delivery claimed by a dead daemon: failed, claimable at once.
ResetOrphan(r) ==
  /\ deliveries[r].state = "claimed"
  /\ SetRow(r, [deliveries[r] EXCEPT !.state = "failed", !.gate = "open",
                                     !.pgid = NoPid])

\* A definition equal to the current one is no new version; a new version
\* inherits the enabled flag.
ApplyAction(a, d) ==
  /\ Exists(a) => CurrentDef(a) # d
  /\ Len(versions[a]) < MaxVersions
  /\ versions' = [versions EXCEPT ![a] = Append(@, d)]
  /\ UNCHANGED <<messages, enabled, deliveries>>

SetActionEnabled(a, on) ==
  /\ Exists(a)
  /\ enabled' = [enabled EXCEPT ![a] = on]
  /\ UNCHANGED <<messages, versions, deliveries>>

\* Time: the clock reaches the backoff gate of a failed delivery.
GateOpens(r) ==
  /\ deliveries[r].state = "failed"
  /\ deliveries[r].gate = "closed"
  /\ SetRow(r, [deliveries[r] EXCEPT !.gate = "open"])
=============================================================================
