--------------------------- MODULE DeliveryPromise ---------------------------
(***************************************************************************)
(* What the delivery plane of sonata promises its clients, with no daemon, *)
(* process, claim, retry, crash or restart in it:                          *)
(*                                                                         *)
(*   - the log only grows, and a message opens one delivery for every      *)
(*     action subscribed to its queue at that moment;                      *)
(*   - an open delivery ends at most once as "done", and its outputs enter *)
(*     the log in that very step: never without it, never again after it;  *)
(*   - "done" and "dropped" (filtered, cancelled) are final, "dead" is     *)
(*     left by a replay only;                                              *)
(*   - an output inherits the trace of its input and is one hop further,   *)
(*     and no message is more than MaxHops hops away from its sender.      *)
(*                                                                         *)
(* The module Sonata implements this specification (see Promise there).    *)
(***************************************************************************)
EXTENDS Naturals, Sequences

CONSTANTS Queues, Actions, MsgIds, NoRow, MaxHops

VARIABLES log, subscribers, status

promiseVars == <<log, subscribers, status>>

Deliveries == MsgIds \X Actions

PromiseInit ==
  /\ log = <<>>
  /\ subscribers \in [Queues -> SUBSET Actions]
  /\ status = [r \in Deliveries |-> "absent"]

\* The messages of this step.
NewIds == (Len(log) + 1)..Len(log')

Grows ==
  /\ Len(log') >= Len(log)
  /\ \A i \in 1..Len(log) : log'[i] = log[i]

\* The statuses after this step, when it leaves the old deliveries as in base.
Opens(base) ==
  status' = [r \in Deliveries |->
    IF r[1] \in NewIds /\ r[2] \in subscribers[log'[r[1]].queue]
    THEN "open" ELSE base[r]]

Publish ==
  /\ Grows
  /\ Len(log') = Len(log) + 1
  /\ log'[Len(log')].origin = NoRow
  /\ log'[Len(log')].hops = 0
  /\ log'[Len(log')].trace = Len(log')
  /\ Opens(status)
  /\ UNCHANGED subscribers

Finish(r) ==
  /\ status[r] = "open"
  /\ Grows
  /\ \A i \in NewIds : /\ log'[i].origin = r
                       /\ log'[i].trace = log[r[1]].trace
                       /\ log'[i].hops = log[r[1]].hops + 1
                       /\ log'[i].hops <= MaxHops
  /\ Opens([status EXCEPT ![r] = "done"])
  /\ UNCHANGED subscribers

\* Deliveries end without output.
Close ==
  /\ \A r \in Deliveries : status'[r] # status[r] =>
       /\ status[r] = "open"
       /\ status'[r] \in {"dropped", "dead"}
  /\ status' = [r \in Deliveries |-> status'[r]]
  /\ UNCHANGED <<log, subscribers>>

Reopen(r) ==
  /\ status[r] = "dead"
  /\ status' = [status EXCEPT ![r] = "open"]
  /\ UNCHANGED <<log, subscribers>>

Reconfigure ==
  /\ subscribers' \in [Queues -> SUBSET Actions]
  /\ UNCHANGED <<log, status>>

PromiseNext ==
  \/ Publish
  \/ Close
  \/ Reconfigure
  \/ \E r \in Deliveries : Finish(r) \/ Reopen(r)

PromiseSpec == PromiseInit /\ [][PromiseNext]_promiseVars
=============================================================================
