---------------------------- MODULE CounterProofs ----------------------------
(***************************************************************************)
(* The counters of the scheduler, for every number of messages, actions,   *)
(* handlers and daemons: inflight is the number of workers, and the busy   *)
(* counter is the number of deliveries that need the daemon, less what     *)
(* requests have committed and not announced.  The action properties that  *)
(* rest on the counters follow: how many executions a claim leaves, and    *)
(* when the idle tracker ends the daemon.                                  *)
(***************************************************************************)
EXTENDS SonataProofs

Running == Loop \cup {"drain"}

\* inflight, without what WorkersHoldClaims says already.
InflightCounts == \A a \in Actions : inflight[a] = Cardinality(WorkersOf(a))

\* Only a request that adds work has rows to announce, and there is no request
\* without a daemon that serves.
RequestsHold ==
  /\ \A h \in Handlers : handlers[h].op # "add" => handlers[h].rows = {}
  /\ phase \notin Running => \A h \in Handlers : handlers[h].rows = {}

-----------------------------------------------------------------------------
(* Finite sets. *)

\* The size of a disjoint union.
LEMMA DisjointUnion ==
  ASSUME NEW S, NEW T, IsFiniteSet(S), IsFiniteSet(T), S \cap T = {}
  PROVE  Cardinality(S \cup T) = Cardinality(S) + Cardinality(T)
<1>1. Cardinality(S \cap T) = 0
  BY FS_EmptySet
<1>2. Cardinality(S) \in Nat /\ Cardinality(T) \in Nat
  BY FS_CardinalityType
<1>3. Cardinality(S \cup T) = Cardinality(S) + Cardinality(T) - Cardinality(S \cap T)
  BY FS_Union
<1> QED
  BY <1>1, <1>2, <1>3

\* The size of what a part leaves.
LEMMA Without ==
  ASSUME NEW S, NEW T, IsFiniteSet(S), T \subseteq S
  PROVE  Cardinality(S \ T) = Cardinality(S) - Cardinality(T)
<1>1. S \cap T = T
  OBVIOUS
<1>2. Cardinality(S \ T) = Cardinality(S) - Cardinality(S \cap T)
  BY FS_Difference
<1> QED
  BY <1>1, <1>2

\* The size of a set without one of its elements.
LEMMA WithoutOne ==
  ASSUME NEW S, NEW x \in S, IsFiniteSet(S)
  PROVE  Cardinality(S \ {x}) = Cardinality(S) - 1
<1>1. Cardinality({x}) = 1
  BY FS_Singleton
<1>2. Cardinality(S \ {x}) = Cardinality(S) - Cardinality({x})
  BY Without
<1> QED
  BY <1>1, <1>2

\* The number of pairs with one first component.
LEMMA PairsWithOne ==
  ASSUME NEW h, NEW S, IsFiniteSet(S)
  PROVE  IsFiniteSet({h} \X S) /\ Cardinality({h} \X S) = Cardinality(S)
<1>1. IsFiniteSet({h}) /\ Cardinality({h}) = 1
  BY FS_Singleton
<1>2. Cardinality(S) \in Nat
  BY FS_CardinalityType
<1>3. IsFiniteSet({h} \X S) /\ Cardinality({h} \X S) = 1 * Cardinality(S)
  BY <1>1, FS_Product
<1> QED
  BY <1>2, <1>3

\* The workers of an action, the deliveries that need the daemon and the ones
\* that are not announced are finitely many.
LEMMA CountedAreFinite ==
  /\ \A a : IsFiniteSet(WorkersOf(a))
  /\ IsFiniteSet(ActiveRows)
  /\ IsFiniteSet(Unannounced)
<1>1. \A a : WorkersOf(a) \in SUBSET Rows
  BY DEF WorkersOf
<1>2. ActiveRows \in SUBSET Rows
  BY DEF ActiveRows, InState
<1>3. IsFiniteSet(Handlers \X Rows)
  BY SonataAssumption, RowsFinite, FS_Product
<1>4. Unannounced \in SUBSET (Handlers \X Rows)
  BY DEF Unannounced
<1> QED
  BY <1>1, <1>2, <1>3, <1>4, RowsFinite, FS_Subset

\* So are they after any step.
LEMMA CountedStayFinite ==
  /\ \A a : IsFiniteSet(WorkersOf(a)')
  /\ IsFiniteSet(ActiveRows')
  /\ IsFiniteSet(Unannounced')
<1>1. \A a : WorkersOf(a)' \in SUBSET Rows
  BY DEF WorkersOf
<1>2. ActiveRows' \in SUBSET Rows
  BY DEF ActiveRows, InState
<1>3. IsFiniteSet(Handlers \X Rows)
  BY SonataAssumption, RowsFinite, FS_Product
<1>4. Unannounced' \in SUBSET (Handlers \X Rows)
  BY DEF Unannounced
<1> QED
  BY <1>1, <1>2, <1>3, <1>4, RowsFinite, FS_Subset

-----------------------------------------------------------------------------
(* What each transaction does to the delivery table, row by row. *)

\* The rows that n messages on queue q create.
NewRows(n, q) ==
  {s \in Rows : /\ s[1] \in (Len(messages) + 1)..(Len(messages) + n)
                /\ s[2] \in Subscribers(q)}

\* They are not there before, and there is one per message and subscriber.
LEMMA NewRowsCounted ==
  ASSUME PlaneInv, NEW n \in Nat, NEW q, Len(messages) + n <= MaxMessages
  PROVE  /\ \A s \in NewRows(n, q) : deliveries[s].state = "none"
         /\ NewRows(n, q) = ((Len(messages) + 1)..(Len(messages) + n)) \X Subscribers(q)
         /\ Cardinality(NewRows(n, q)) = n * Cardinality(Subscribers(q))
<1> DEFINE ids == (Len(messages) + 1)..(Len(messages) + n)
<1>1. Len(messages) \in Nat
  BY DEF PlaneInv, StoreTypeOK
<1>2. ids \subseteq MsgIds /\ Subscribers(q) \subseteq Actions
  BY <1>1, StoreAssumption DEF MsgIds, Subscribers
<1>3. NewRows(n, q) = ids \X Subscribers(q)
  BY <1>2 DEF NewRows, Rows
<1>4. IsFiniteSet(ids) /\ Cardinality(ids) = n
  <2>1. Len(messages) + 1 \in Int /\ Len(messages) + n \in Int
    BY <1>1
  <2>2. /\ IsFiniteSet(ids)
        /\ Cardinality(ids) = IF Len(messages) + 1 > Len(messages) + n THEN 0
                              ELSE (Len(messages) + n) - (Len(messages) + 1) + 1
    BY <2>1, FS_Interval
  <2> QED
    BY <1>1, <2>2
<1>5. IsFiniteSet(Subscribers(q))
  BY <1>2, RowsFinite, FS_Subset
<1> HIDE DEF ids
<1>6. Cardinality(ids \X Subscribers(q)) = Cardinality(ids) * Cardinality(Subscribers(q))
  BY <1>4, <1>5, FS_Product
<1>7. \A s \in NewRows(n, q) : deliveries[s].state = "none"
  <2> SUFFICES ASSUME NEW s \in Rows, s[1] \in ids
               PROVE  deliveries[s].state = "none"
    BY DEF NewRows, ids
  <2> QED
    BY <1>1, RowParts DEF PlaneInv, RowsHaveMessages, ids
<1> QED
  BY <1>3, <1>4, <1>6, <1>7 DEF ids

\* resolve: one waiting row ends, unexecuted.
LEMMA ResolveEffect ==
  ASSUME PlaneInv, MemInv, NEW r \in Rows, NEW a \in Actions, Resolve(r, a)
  PROVE  /\ deliveries[r].state \in {"pending", "failed"}
         /\ deliveries'[r].state \in {"cancelled", "dead", "filtered"}
         /\ \A s \in Rows : s # r => deliveries'[s] = deliveries[s]
         /\ UNCHANGED <<messages, versions, enabled>>
<1>1. deliveries[r].state \in {"pending", "failed"} /\ snap[a] # 0
  BY DEF Resolve, IsNextEligible, Eligible, HasSlot
<1>2. deliveries \in [Rows -> Delivery] /\ messages[r[1]] \in Message /\ SnapDef(a) \in Defs
  BY <1>1, Lookups DEF MemInv, PlaneInv, StoreTypeOK
<1> DEFINE v == Vet(SnapDef(a), messages[r[1]])
<1>3. v \in {"cancelled", "dead", "filtered"}
  BY <1>2, VetDecides DEF Resolve
<1>4. SetRow(r, [deliveries[r] EXCEPT !.state = v, !.pgid = NoPid])
  BY DEF Resolve, ResolveDelivery
<1> HIDE DEF v
<1> QED
  BY <1>1, <1>2, <1>3, <1>4 DEF SetRow, Delivery

\* A claim: one waiting row is claimed under the version of the snapshot, and
\* has one attempt more.
LEMMA ClaimEffect ==
  ASSUME PlaneInv, MemInv, NEW r \in Rows, NEW a \in Actions, ClaimAndLaunch(r, a)
  PROVE  /\ r[2] = a /\ phase = "dispatch" /\ snap[a] # 0
         /\ deliveries[r].state \in {"pending", "failed"} /\ workers[r].st = "none"
         /\ deliveries'[r].state = "claimed" /\ deliveries'[r].version = snap[a]
         /\ deliveries'[r].attempt = deliveries[r].attempt + 1
         /\ deliveries'[r].pgid = NoPid
         /\ \A s \in Rows : s # r => deliveries'[s] = deliveries[s]
         /\ UNCHANGED <<messages, versions, enabled>>
<1>1. /\ r[2] = a /\ phase = "dispatch" /\ snap[a] # 0
      /\ deliveries[r].state \in {"pending", "failed"}
  BY DEF ClaimAndLaunch, IsNextEligible, Eligible, HasSlot, AtAction
<1>2. workers[r].st = "none" /\ deliveries[r].pgid = NoPid
  BY <1>1 DEF MemInv, WorkersHoldClaims, PlaneInv, PgidOnlyWhileClaimed
<1>3. deliveries \in [Rows -> Delivery]
  BY DEF PlaneInv, StoreTypeOK
<1>4. SetRow(r, [deliveries[r] EXCEPT !.state = "claimed", !.version = snap[a],
                                      !.attempt = @ + 1, !.gate = "null"])
  BY DEF ClaimAndLaunch, ClaimDelivery
<1> QED
  BY <1>1, <1>2, <1>3, <1>4 DEF SetRow, Delivery

\* apply of a success: the row is done, and the outputs have their rows.
LEMMA DoneEffect ==
  ASSUME PlaneInv, MemInv, NEW r \in Rows, NEW lines \in Lines, ApplyDone(r, lines)
  PROVE  \E outs \in Seq(Message) :
           LET q == PinnedDef(r).output IN
           /\ deliveries[r].state = "claimed" /\ workers[r].st = "exited" /\ TakeResult(r)
           /\ Len(messages) + Len(outs) <= MaxMessages
           /\ messages' = messages \o outs
           /\ q = NoQueue => outs = <<>>
           /\ \A i \in 1..Len(outs) :
                /\ outs[i].queue = q /\ outs[i].hops = messages[r[1]].hops + 1
                /\ outs[i].origin = r /\ outs[i].trace = messages[r[1]].trace
           /\ deliveries'[r].state = "done" /\ deliveries'[r].pgid = NoPid
           /\ \A s \in Rows : s # r =>
                deliveries'[s] = IF s \in NewRows(Len(outs), q) THEN PendingDelivery
                                 ELSE deliveries[s]
           /\ active' = active + Len(outs) * Cardinality(Subscribers(q)) - 1
           /\ UNCHANGED <<versions, enabled>>
<1> DEFINE q    == PinnedDef(r).output
           outs == IF q = NoQueue THEN <<>> ELSE BuildOutputs(r, lines)
           base == [deliveries EXCEPT ![r].state = "done", ![r].pgid = NoPid]
<1>1. /\ deliveries[r].state = "claimed" /\ workers[r].st = "exited" /\ TakeResult(r)
      /\ InsertMessages(outs, q, base)
      /\ active' = active + Len(outs) * Cardinality(Subscribers(q)) - 1
  BY DEF ApplyDone, CompleteDelivery
<1>2. /\ deliveries \in [Rows -> Delivery] /\ Len(messages) \in Nat
      /\ PinnedDef(r) \in Defs /\ messages[r[1]] \in Message /\ r[1] \in 1..Len(messages)
  BY <1>1, Lookups DEF MemInv, PlaneInv, StoreTypeOK
<1>3. /\ outs \in Seq(Message) /\ (q = NoQueue => outs = <<>>)
      /\ \A i \in 1..Len(outs) :
           /\ outs[i].queue = q /\ outs[i].hops = messages[r[1]].hops + 1
           /\ outs[i].origin = r /\ outs[i].trace = messages[r[1]].trace
  <2>1. CASE q = NoQueue
    BY <2>1
  <2>2. CASE q # NoQueue
    BY <2>2, <1>1, <1>2, LinesAreSequences, OutputsAreMessages
  <2> QED
    BY <2>1, <2>2
<1>4. /\ \A s \in Rows : s # r => base[s] = deliveries[s]
      /\ base[r].state = "done" /\ base[r].pgid = NoPid
  BY <1>2 DEF Delivery
<1> HIDE DEF outs, base, q
<1>5. \A s \in Rows : deliveries'[s] = IF s \in NewRows(Len(outs), q) THEN PendingDelivery
                                       ELSE base[s]
  BY <1>1 DEF InsertMessages, NewRows
<1>6. r \notin NewRows(Len(outs), q)
  BY <1>2, <1>3 DEF NewRows
<1>7. deliveries'[r] = base[r]
  BY <1>5, <1>6
<1>8. /\ Len(messages) + Len(outs) <= MaxMessages /\ messages' = messages \o outs
      /\ UNCHANGED <<versions, enabled>>
  BY <1>1 DEF InsertMessages
<1>9. \A s \in Rows : s # r =>
        deliveries'[s] = IF s \in NewRows(Len(outs), q) THEN PendingDelivery ELSE deliveries[s]
  BY <1>4, <1>5
<1>10. deliveries'[r].state = "done" /\ deliveries'[r].pgid = NoPid
  BY <1>4, <1>7
<1> QED
  BY <1>1, <1>3, <1>8, <1>9, <1>10 DEF q

\* apply of a failure: the row waits for a retry below the budget, and is dead
\* at it.
LEMMA FailEffect ==
  ASSUME PlaneInv, MemInv, NEW r \in Rows, ApplyFailed(r)
  PROVE  LET dead == deliveries[r].attempt >= PinnedDef(r).maxAttempts IN
         /\ deliveries[r].state = "claimed" /\ workers[r].st # "none" /\ TakeResult(r)
         /\ deliveries'[r].state = IF dead THEN "dead" ELSE "failed"
         /\ deliveries'[r].attempt = deliveries[r].attempt /\ deliveries'[r].pgid = NoPid
         /\ deliveries'[r].version = deliveries[r].version
         /\ active' = IF dead THEN active - 1 ELSE active
         /\ \A s \in Rows : s # r => deliveries'[s] = deliveries[s]
         /\ UNCHANGED <<messages, versions, enabled>>
<1>1. deliveries \in [Rows -> Delivery]
  BY DEF PlaneInv, StoreTypeOK
<1> DEFINE dead == deliveries[r].attempt >= PinnedDef(r).maxAttempts
<1>2. /\ deliveries[r].state = "claimed" /\ workers[r].st # "none" /\ TakeResult(r)
      /\ FailDelivery(r, dead)
      /\ active' = IF dead THEN active - 1 ELSE active
  BY DEF ApplyFailed, FailDelivery
<1> HIDE DEF dead
<1>3. /\ deliveries'[r].state = IF dead THEN "dead" ELSE "failed"
      /\ deliveries'[r].attempt = deliveries[r].attempt /\ deliveries'[r].pgid = NoPid
      /\ deliveries'[r].version = deliveries[r].version
      /\ \A s \in Rows : s # r => deliveries'[s] = deliveries[s]
      /\ UNCHANGED <<messages, versions, enabled>>
  BY <1>1, <1>2 DEF FailDelivery, SetRow, Delivery
<1> QED
  BY <1>2, <1>3 DEF dead

\* PersistPgid: the claimed row records its process group.
LEMMA PgidEffect ==
  ASSUME PlaneInv, MemInv, NEW r \in Rows, PersistPgid(r)
  PROVE  /\ deliveries[r].state = "claimed" /\ deliveries'[r].state = "claimed"
         /\ deliveries'[r].attempt = deliveries[r].attempt
         /\ deliveries'[r].version = deliveries[r].version
         /\ deliveries'[r].pgid = workers[r].pid
         /\ \A s \in Rows : s # r => deliveries'[s] = deliveries[s]
         /\ UNCHANGED <<messages, versions, enabled>>
<1>1. deliveries \in [Rows -> Delivery]
  BY DEF PlaneInv, StoreTypeOK
<1>2. deliveries[r].state = "claimed"
  BY DEF PersistPgid, MemInv, WorkersHoldClaims
<1> QED
  BY <1>1, <1>2 DEF PersistPgid, SetDeliveryPgid, SetRow, Delivery

\* The gate of a failed row passes.
LEMMA GateEffect ==
  ASSUME PlaneInv, NEW r \in Rows, TimePasses(r)
  PROVE  /\ deliveries[r].state = "failed" /\ deliveries'[r].state = "failed"
         /\ deliveries'[r].attempt = deliveries[r].attempt
         /\ deliveries'[r].version = deliveries[r].version
         /\ deliveries'[r].pgid = deliveries[r].pgid
         /\ \A s \in Rows : s # r => deliveries'[s] = deliveries[s]
         /\ UNCHANGED <<messages, versions, enabled, schedVars, procs>>
<1>1. deliveries \in [Rows -> Delivery]
  BY DEF PlaneInv, StoreTypeOK
<1> QED
  BY <1>1 DEF TimePasses, GateOpens, SetRow, Delivery

\* ReapOrphan: a claimed row is failed.
LEMMA ResetEffect ==
  ASSUME PlaneInv, NEW r \in Rows, ReapOrphan(r)
  PROVE  /\ deliveries[r].state = "claimed" /\ deliveries'[r].state = "failed"
         /\ deliveries'[r].attempt = deliveries[r].attempt /\ deliveries'[r].pgid = NoPid
         /\ deliveries'[r].version = deliveries[r].version
         /\ \A s \in Rows : s # r => deliveries'[s] = deliveries[s]
         /\ UNCHANGED <<messages, versions, enabled, schedVars>>
<1>1. deliveries \in [Rows -> Delivery]
  BY DEF PlaneInv, StoreTypeOK
<1> QED
  BY <1>1 DEF ReapOrphan, ResetOrphan, SetRow, Delivery

\* delivery.replay: a dead row is pending, with a new budget.
LEMMA ReplayEffect ==
  ASSUME PlaneInv, NEW h \in Handlers, NEW r \in Rows, DeliveryReplay(h, r)
  PROVE  /\ deliveries[r].state = "dead" /\ deliveries'[r].state = "pending"
         /\ deliveries'[r].attempt = 0 /\ deliveries'[r].pgid = NoPid
         /\ \A s \in Rows : s # r => deliveries'[s] = deliveries[s]
         /\ UNCHANGED <<messages, versions, enabled, schedVars, procs, idle, boots>>
<1>1. deliveries \in [Rows -> Delivery]
  BY DEF PlaneInv, StoreTypeOK
<1>2. deliveries[r].state = "dead" /\ deliveries[r].pgid = NoPid
  BY DEF DeliveryReplay, ReplayDelivery, PlaneInv, PgidOnlyWhileClaimed
<1> QED
  BY <1>1, <1>2 DEF DeliveryReplay, ReplayDelivery, SetRow, Delivery

\* message.send: a row per subscriber.
LEMMA SendEffect ==
  ASSUME PlaneInv, NEW h \in Handlers, NEW q \in Queues, NEW p \in Payloads,
         MessageSend(h, q, p)
  PROVE  /\ Len(messages) + 1 <= MaxMessages
         /\ \E m \in Message : /\ m.queue = q /\ m.hops = 0 /\ m.origin = NoRow
                               /\ m.trace = Len(messages) + 1
                               /\ messages' = messages \o <<m>>
         /\ \A s \in Rows : deliveries'[s] = IF s \in NewRows(1, q) THEN PendingDelivery
                                             ELSE deliveries[s]
         /\ UNCHANGED <<versions, enabled, schedVars, procs, idle, boots>>
<1> DEFINE m == [queue |-> q, payload |-> p, hops |-> 0,
                 trace |-> Len(messages) + 1, origin |-> NoRow, originVersion |-> 0]
<1>1. InsertMessages(<<m>>, q, deliveries)
      /\ UNCHANGED <<schedVars, procs, idle, boots>>
  BY DEF MessageSend, AppendMessage
<1>2. Len(messages) \in Nat
  BY DEF PlaneInv, StoreTypeOK
<1>3. /\ m \in Message /\ m.queue = q /\ m.hops = 0 /\ m.origin = NoRow
      /\ m.trace = Len(messages) + 1
  BY <1>2 DEF Message
<1> HIDE DEF m
<1>4. Len(<<m>>) = 1
  OBVIOUS
<1>5. /\ Len(messages) + 1 <= MaxMessages /\ messages' = messages \o <<m>>
      /\ UNCHANGED <<versions, enabled>>
  BY <1>1, <1>4 DEF InsertMessages
<1>6. \A s \in Rows : deliveries'[s] = IF s \in NewRows(1, q) THEN PendingDelivery
                                       ELSE deliveries[s]
  BY <1>1, <1>4 DEF InsertMessages, NewRows
<1> QED
  BY <1>1, <1>3, <1>5, <1>6

\* CancelDeliveries: the waiting rows of an action end.
LEMMA CancelEffect ==
  ASSUME PlaneInv, NEW a, CancelDeliveries(a)
  PROVE  /\ \A r \in Cancellable(a) :
              /\ r \in Rows /\ r[2] = a /\ deliveries[r].state \in {"pending", "failed"}
              /\ deliveries'[r].state = "cancelled"
         /\ \A r \in Rows : r \notin Cancellable(a) => deliveries'[r] = deliveries[r]
         /\ UNCHANGED <<messages, versions, enabled>>
<1>1. deliveries \in [Rows -> Delivery]
  BY DEF PlaneInv, StoreTypeOK
<1> QED
  BY <1>1 DEF CancelDeliveries, Cancellable, InState, Delivery

-----------------------------------------------------------------------------
(* inflight. *)

\* A step that neither begins nor ends a worker, and leaves inflight alone.
LEMMA SameWorkers ==
  ASSUME InflightCounts, inflight' = inflight,
         \A r \in Rows : workers'[r].st = "none" <=> workers[r].st = "none"
  PROVE  InflightCounts'
<1>1. \A a : WorkersOf(a)' = WorkersOf(a)
  BY DEF WorkersOf
<1> QED
  BY <1>1 DEF InflightCounts

\* A claim: one worker more, and one in inflight.
LEMMA OneWorkerMore ==
  ASSUME InflightCounts, NEW r \in Rows, NEW a \in Actions, r[2] = a,
         inflight \in [Actions -> Int], workers \in [Rows -> Worker],
         workers[r].st = "none",
         workers' = [workers EXCEPT ![r] = [st |-> "launched", pid |-> NoPid]],
         inflight' = [inflight EXCEPT ![a] = @ + 1]
  PROVE  /\ InflightCounts'
         /\ Cardinality(WorkersOf(a)') = inflight[a] + 1
<1>1. \A s \in Rows : workers'[s].st = IF s = r THEN "launched" ELSE workers[s].st
  OBVIOUS
<1>2. r \notin WorkersOf(a) /\ WorkersOf(a)' = WorkersOf(a) \cup {r}
  BY <1>1 DEF WorkersOf
<1>3. \A b \in Actions : b # a => WorkersOf(b)' = WorkersOf(b)
  BY <1>1 DEF WorkersOf
<1>4. Cardinality(WorkersOf(a)') = Cardinality(WorkersOf(a)) + 1
  BY <1>2, CountedAreFinite, FS_AddElement
<1>5. inflight'[a] = inflight[a] + 1 /\ \A b \in Actions : b # a => inflight'[b] = inflight[b]
  OBVIOUS
<1>6. inflight[a] = Cardinality(WorkersOf(a))
  BY DEF InflightCounts
<1> QED
  BY <1>3, <1>4, <1>5, <1>6 DEF InflightCounts

\* A result is taken: one worker less, and one less in inflight.
LEMMA OneWorkerLess ==
  ASSUME InflightCounts, NEW r \in Rows, NEW a \in Actions, r[2] = a,
         workers[r].st # "none", inflight \in [Actions -> Int], workers \in [Rows -> Worker],
         TakeResult(r)
  PROVE  InflightCounts'
<1>1. \A s \in Rows : workers'[s].st = IF s = r THEN "none" ELSE workers[s].st
  BY DEF TakeResult, NoWorker
<1>2. r \in WorkersOf(a) /\ WorkersOf(a)' = WorkersOf(a) \ {r}
  BY <1>1 DEF WorkersOf
<1>3. \A b \in Actions : b # a => WorkersOf(b)' = WorkersOf(b)
  BY <1>1 DEF WorkersOf
<1>4. Cardinality(WorkersOf(a)') = Cardinality(WorkersOf(a)) - 1
  BY <1>2, CountedAreFinite, WithoutOne
<1>5. /\ inflight'[a] = inflight[a] - 1
      /\ \A b \in Actions : b # a => inflight'[b] = inflight[b]
  BY DEF TakeResult
<1>6. \A b \in Actions : inflight[b] = Cardinality(WorkersOf(b))
  BY DEF InflightCounts
<1>7. \A b \in Actions : inflight'[b] = Cardinality(WorkersOf(b)')
  BY <1>3, <1>4, <1>5, <1>6
<1> QED
  BY <1>7 DEF InflightCounts

\* The memory of no daemon: no worker, nothing in flight.
LEMMA NoWorkers ==
  ASSUME Forget
  PROVE  InflightCounts'
<1>1. \A a \in Actions : WorkersOf(a)' = {}
  BY DEF Forget, WorkersOf, NoWorker
<1> QED
  BY <1>1, FS_EmptySet DEF InflightCounts, Forget

-----------------------------------------------------------------------------
(* The busy counter. *)

\* The cardinalities that the counter is compared with are numbers.
LEMMA CountsTyped ==
  /\ Cardinality(ActiveRows) \in Nat /\ Cardinality(ActiveRows') \in Nat
  /\ Cardinality(Unannounced) \in Nat /\ Cardinality(Unannounced') \in Nat
BY CountedAreFinite, CountedStayFinite, FS_CardinalityType

\* BusyCounterExact, without CountActiveDeliveries.
LEMMA BusyCounts ==
  BusyCounterExact <=>
    (phase \in Running => active + Cardinality(Unannounced) = Cardinality(ActiveRows))
BY DEF BusyCounterExact, CountActiveDeliveries, Running

\* The same of the next state.
LEMMA BusyCountsNext ==
  BusyCounterExact' <=>
    (phase' \in Running => active' + Cardinality(Unannounced') = Cardinality(ActiveRows'))
BY DEF BusyCounterExact, CountActiveDeliveries, Running

\* The rows of requests are as before.
LEMMA SameUnannounced ==
  ASSUME \A h \in Handlers : handlers'[h].rows = handlers[h].rows
  PROVE  Unannounced' = Unannounced
BY DEF Unannounced

\* A step by which no delivery begins or ceases to need the daemon.
LEMMA SameBusy ==
  ASSUME BusyCounterExact, phase \in Running, active' = active,
         Unannounced' = Unannounced,
         \A r \in Rows : deliveries'[r].state \in ActiveStates
                           <=> deliveries[r].state \in ActiveStates
  PROVE  BusyCounterExact'
<1>1. ActiveRows' = ActiveRows
  BY DEF ActiveRows, InState
<1> QED
  BY <1>1, BusyCounts, BusyCountsNext

\* One delivery ends.
LEMMA OneBusyLess ==
  ASSUME BusyCounterExact, phase \in Running, active \in Int, active' = active - 1,
         Unannounced' = Unannounced,
         NEW r \in Rows, deliveries[r].state \in ActiveStates,
         deliveries'[r].state \notin ActiveStates,
         \A s \in Rows : s # r => deliveries'[s] = deliveries[s]
  PROVE  BusyCounterExact'
<1>1. r \in ActiveRows /\ ActiveRows' = ActiveRows \ {r}
  BY DEF ActiveRows, InState
<1>2. Cardinality(ActiveRows') = Cardinality(ActiveRows) - 1
  BY <1>1, CountedAreFinite, WithoutOne
<1> QED
  BY <1>2, CountsTyped, BusyCounts, BusyCountsNext

\* A set of deliveries begins to need the daemon, by a request that will announce
\* them.
LEMMA MoreUnannounced ==
  ASSUME BusyCounterExact, phase \in Running, active \in Int, active' = active,
         handlers \in [Handlers -> Request],
         NEW h \in Handlers, handlers[h].rows = {},
         NEW new \in SUBSET Rows, handlers'[h].rows = new,
         \A g \in Handlers : g # h => handlers'[g] = handlers[g],
         \A r \in new : /\ deliveries[r].state \notin ActiveStates
                        /\ deliveries'[r].state \in ActiveStates,
         \A r \in Rows \ new : deliveries'[r] = deliveries[r]
  PROVE  BusyCounterExact'
<1>1. ActiveRows' = ActiveRows \cup new /\ ActiveRows \cap new = {}
  BY DEF ActiveRows, InState
<1>2. Unannounced' = Unannounced \cup ({h} \X new) /\ Unannounced \cap ({h} \X new) = {}
  <2>1. ASSUME NEW x \in Handlers \X Rows
        PROVE  x[2] \in handlers'[x[1]].rows <=> x[2] \in handlers[x[1]].rows \/ x \in {h} \X new
    BY <2>1
  <2>2. ({h} \X new) \subseteq Handlers \X Rows
    OBVIOUS
  <2>3. \A x \in {h} \X new : x[2] \notin handlers[x[1]].rows
    OBVIOUS
  <2> QED
    BY <2>1, <2>2, <2>3 DEF Unannounced
<1>3. IsFiniteSet(new)
  BY RowsFinite, FS_Subset
<1>4. Cardinality(new) \in Nat
  BY <1>3, FS_CardinalityType
<1>5. IsFiniteSet({h} \X new) /\ Cardinality({h} \X new) = Cardinality(new)
  BY ONLY <1>3, PairsWithOne
<1>6. Cardinality(ActiveRows') = Cardinality(ActiveRows) + Cardinality(new)
  BY <1>1, <1>3, CountedAreFinite, DisjointUnion
<1>7. Cardinality(Unannounced') = Cardinality(Unannounced) + Cardinality(new)
  BY <1>2, <1>5, CountedAreFinite, DisjointUnion
<1> QED
  BY <1>4, <1>6, <1>7, CountsTyped, BusyCounts, BusyCountsNext

\* A request announces what it has committed.
LEMMA Announced ==
  ASSUME BusyCounterExact, phase \in Running, active \in Int,
         handlers \in [Handlers -> Request],
         NEW h \in Handlers,
         active' = active + Cardinality(handlers[h].rows),
         handlers'[h].rows = {},
         \A g \in Handlers : g # h => handlers'[g] = handlers[g],
         deliveries' = deliveries
  PROVE  BusyCounterExact'
<1> DEFINE old == handlers[h].rows
<1>0. old \in SUBSET Rows
  BY DEF Request
<1>1. ActiveRows' = ActiveRows
  BY DEF ActiveRows, InState
<1>2. Unannounced' = Unannounced \ ({h} \X old) /\ ({h} \X old) \subseteq Unannounced
  <2>1. ASSUME NEW x \in Handlers \X Rows
        PROVE  /\ x[2] \in handlers'[x[1]].rows <=> x[2] \in handlers[x[1]].rows /\ x \notin {h} \X old
               /\ x \in {h} \X old => x[2] \in handlers[x[1]].rows
    BY <2>1
  <2>2. ({h} \X old) \subseteq Handlers \X Rows
    BY <1>0
  <2> QED
    BY <2>1, <2>2 DEF Unannounced
<1>3. IsFiniteSet(old)
  BY <1>0, RowsFinite, FS_Subset
<1>4. Cardinality(old) \in Nat
  BY <1>3, FS_CardinalityType
<1>5. Cardinality({h} \X old) = Cardinality(old)
  BY <1>3, PairsWithOne
<1> HIDE DEF old
<1>6. Cardinality(Unannounced') = Cardinality(Unannounced) - Cardinality({h} \X old)
  BY <1>2, CountedAreFinite, Without
<1> QED
  BY <1>1, <1>4, <1>5, <1>6, CountsTyped, BusyCounts, BusyCountsNext DEF old

-----------------------------------------------------------------------------
(* The actions. *)

CountersInv == InflightCounts /\ RequestsHold /\ BusyCounterExact

\* A step that begins and ends no worker, and by which no delivery begins or
\* ceases to need the daemon.
LEMMA QuietKeepsCounters ==
  ASSUME CountersInv, UNCHANGED <<inflight, active>>,
         phase' \in Running <=> phase \in Running,
         \A h \in Handlers : \/ handlers'[h] = handlers[h]
                             \/ handlers'[h].rows = {} /\ handlers[h].rows = {},
         \A r \in Rows : workers'[r].st = "none" <=> workers[r].st = "none",
         phase \in Running => \A r \in Rows : deliveries'[r].state \in ActiveStates
                                                <=> deliveries[r].state \in ActiveStates
  PROVE  CountersInv'
<1> USE DEF CountersInv
<1>1. InflightCounts'
  BY SameWorkers
<1>2. RequestsHold'
  BY DEF RequestsHold
<1>3. BusyCounterExact'
  <2>1. CASE phase \in Running
    <3>1. Unannounced' = Unannounced
      BY SameUnannounced
    <3> QED
      BY <2>1, <3>1, SameBusy
  <2>2. CASE phase \notin Running
    BY <2>2, BusyCountsNext
  <2> QED
    BY <2>1, <2>2
<1> QED
  BY <1>1, <1>2, <1>3

\* Steps of the scheduler goroutine that only move it around its loop.
LEMMA MovesKeepCounters ==
  ASSUME CountersInv, UNCHANGED apiVars,
         \/ LoadActions \/ DispatchAborted
         \/ \E a \in Actions : ActionExhausted(a) \/ DispatchFails(a)
         \/ WakeOnNudge \/ WakeOnRetryTimer \/ WakeOnIdleTimer \/ BeginDrain
  PROVE  CountersInv'
<1>1. UNCHANGED <<storeVars, active, inflight, workers>>
  BY DEF LoadActions, DispatchAborted, ActionExhausted, DispatchFails, Advance, WakeOnNudge,
         WakeOnRetryTimer, WakeOnIdleTimer, BeginDrain
<1>2. phase \in Running /\ phase' \in Running
  BY DEF LoadActions, DispatchAborted, ActionExhausted, DispatchFails, Advance, AtAction,
         WakeOnNudge, WakeOnRetryTimer, WakeOnIdleTimer, BeginDrain, Wake, Running, Loop
<1> QED
  BY <1>1, <1>2, QuietKeepsCounters DEF storeVars, apiVars

\* The steps of workers, processes and gates, and the reset of an orphan.
LEMMA WorkersKeepCounters ==
  ASSUME PlaneInv, MemInv, CountersInv, UNCHANGED apiVars,
         \/ \E r \in Rows : \/ \E p \in Pids : StartProcess(r, p)
                            \/ SpawnFails(r) \/ PersistPgid(r) \/ PersistPgidFails(r)
                            \/ TaskExits(r) \/ TimePasses(r) \/ ReapOrphan(r)
         \/ \E p \in Pids : OrphanExits(p)
  PROVE  CountersInv'
<1>a. UNCHANGED <<phase, active, inflight, handlers>>
  BY DEF StartProcess, SpawnFails, PersistPgid, PersistPgidFails, TaskExits, TimePasses,
         ReapOrphan, OrphanExits, schedVars, apiVars
<1>b. workers \in [Rows -> Worker]
  BY DEF MemInv, SchedulerTypeOK
<1>1. ASSUME NEW r \in Rows,
             \/ \E p \in Pids : StartProcess(r, p)
             \/ SpawnFails(r) \/ PersistPgidFails(r) \/ TaskExits(r)
      PROVE  /\ \A s \in Rows : workers'[s].st = "none" <=> workers[s].st = "none"
             /\ deliveries' = deliveries
  BY <1>1, <1>b DEF StartProcess, SpawnFails, PersistPgidFails, TaskExits, Launched, storeVars,
                    Worker
<1>2. ASSUME NEW r \in Rows, PersistPgid(r)
      PROVE  /\ \A s \in Rows : workers'[s].st = "none" <=> workers[s].st = "none"
             /\ \A s \in Rows : deliveries'[s].state = deliveries[s].state
  <2>1. \A s \in Rows : workers'[s].st = "none" <=> workers[s].st = "none"
    BY <1>2, <1>b DEF PersistPgid, Worker
  <2> QED
    BY <1>2, <2>1, PgidEffect
<1>3. ASSUME NEW r \in Rows, TimePasses(r)
      PROVE  workers' = workers /\ \A s \in Rows : deliveries'[s].state = deliveries[s].state
  BY <1>3, GateEffect DEF schedVars
<1>4. ASSUME NEW r \in Rows, ReapOrphan(r)
      PROVE  workers' = workers /\ phase \notin Running
  BY <1>4 DEF ReapOrphan, schedVars, Running, Loop
<1>5. ASSUME NEW p \in Pids, OrphanExits(p)
      PROVE  workers' = workers /\ deliveries' = deliveries
  BY <1>5 DEF OrphanExits, schedVars, storeVars
<1> QED
  BY <1>a, <1>1, <1>2, <1>3, <1>4, <1>5, QuietKeepsCounters

\* Requests that change no delivery, and the daemon's life apart from its end.
LEMMA ConfigKeepsCounters ==
  ASSUME CountersInv, MemInv,
         \/ ConfigStep
         \/ \E h \in Handlers, a \in Actions : ActionDisable(h, a)
         \/ \E h \in Handlers : CancelAbandoned(h)
         \/ IdleReadsInFlight \/ IdleReadsBusy \/ StopScheduler \/ StartDaemon
  PROVE  CountersInv'
<1>a. UNCHANGED <<active, inflight, workers, deliveries>>
  BY DEF ConfigStep, ActionEnable, ActionApply, SetActionEnabled, ApplyAction, ActionDisable,
         CancelAbandoned, IdleReadsInFlight, IdleReadsBusy, StopScheduler, StartDaemon, Boot,
         storeVars, schedVars
<1>b. phase' \in Running <=> phase \in Running
  BY DEF ConfigStep, ActionEnable, ActionApply, ActionDisable, CancelAbandoned,
         IdleReadsInFlight, IdleReadsBusy, StopScheduler, StartDaemon, Boot, schedVars,
         Running, Loop, Off
<1>c. handlers \in [Handlers -> Request]
  BY DEF MemInv, ApiTypeOK
<1>1. CASE \/ ConfigStep \/ IdleReadsInFlight \/ IdleReadsBusy \/ StopScheduler \/ StartDaemon
  <2>1. handlers' = handlers
    BY <1>1 DEF ConfigStep, ActionEnable, ActionApply, IdleReadsInFlight, IdleReadsBusy,
                StopScheduler, StartDaemon, apiVars
  <2> QED
    BY <1>a, <1>b, <2>1, QuietKeepsCounters
<1>2. ASSUME NEW h \in Handlers, NEW a \in Actions, ActionDisable(h, a)
      PROVE  CountersInv'
  <2>1. handlers[h].rows = {} /\ handlers'[h].rows = {}
    <3>1. [NoRequest EXCEPT !.op = "cancel", !.action = a].rows = {} /\ NoRequest.rows = {}
      BY DEF NoRequest
    <3> QED
      BY <1>2, <1>c, <3>1 DEF ActionDisable, Free, SetHandler
  <2>2. \A g \in Handlers : g # h => handlers'[g] = handlers[g]
    BY <1>2, <1>c DEF ActionDisable, SetHandler
  <2> QED
    BY <1>a, <1>b, <2>1, <2>2, QuietKeepsCounters
<1>3. ASSUME NEW h \in Handlers, CancelAbandoned(h)
      PROVE  CountersInv'
  <2>1. handlers[h].rows = {} /\ handlers'[h].rows = {}
    <3>1. handlers[h].op # "add"
      BY <1>3 DEF CancelAbandoned
    <3> QED
      BY <1>3, <1>c, <3>1 DEF CancelAbandoned, NoRequest, SetHandler, CountersInv, RequestsHold
  <2>2. \A g \in Handlers : g # h => handlers'[g] = handlers[g]
    BY <1>3, <1>c DEF CancelAbandoned, SetHandler
  <2> QED
    BY <1>a, <1>b, <2>1, <2>2, QuietKeepsCounters
<1> QED
  BY <1>1, <1>2, <1>3

\* dispatch: a resolved delivery leaves the counter, a claimed one does not, and
\* adds a worker.
LEMMA DispatchKeepsCounters ==
  ASSUME PlaneInv, MemInv, CountersInv, UNCHANGED apiVars,
         NEW r \in Rows, NEW a \in Actions, Resolve(r, a) \/ ClaimAndLaunch(r, a)
  PROVE  CountersInv'
<1> USE DEF CountersInv
<1>a. phase \in Running /\ phase' = phase
  BY DEF Resolve, ClaimAndLaunch, AtAction, Running, Loop
<1>b. /\ workers \in [Rows -> Worker] /\ inflight \in [Actions -> Int] /\ active \in Int
  BY DEF MemInv, SchedulerTypeOK
<1>c. handlers' = handlers /\ Unannounced' = Unannounced
  BY SameUnannounced DEF apiVars
<1>d. RequestsHold'
  BY <1>a, <1>c DEF RequestsHold
<1>1. CASE Resolve(r, a)
  <2>1. InflightCounts'
    BY <1>1, SameWorkers DEF Resolve
  <2>2. /\ deliveries[r].state \in ActiveStates /\ deliveries'[r].state \notin ActiveStates
        /\ \A s \in Rows : s # r => deliveries'[s] = deliveries[s]
    BY <1>1, ResolveEffect DEF ActiveStates
  <2>3. active' = active - 1
    BY <1>1 DEF Resolve
  <2>4. BusyCounterExact'
    BY <1>a, <1>b, <1>c, <2>2, <2>3, OneBusyLess
  <2> QED
    BY <1>d, <2>1, <2>4
<1>2. CASE ClaimAndLaunch(r, a)
  <2>1. /\ r[2] = a /\ workers[r].st = "none"
        /\ \A s \in Rows : deliveries'[s].state \in ActiveStates
                             <=> deliveries[s].state \in ActiveStates
    BY <1>2, ClaimEffect DEF ActiveStates
  <2>2. InflightCounts'
    BY <1>2, <1>b, <2>1, OneWorkerMore DEF ClaimAndLaunch
  <2>3. BusyCounterExact'
    BY <1>2, <1>a, <1>c, <2>1, SameBusy DEF ClaimAndLaunch
  <2> QED
    BY <1>d, <2>2, <2>3
<1> QED
  BY <1>1, <1>2

\* apply: a success replaces the delivery by those of its outputs, a failure
\* keeps it in the counter as long as it is retried, a lost write always.
LEMMA ApplyKeepsCounters ==
  ASSUME PlaneInv, MemInv, CountersInv, UNCHANGED apiVars, NEW r \in Rows,
         ApplyResult(r) \/ ApplyLost(r)
  PROVE  CountersInv'
<1> USE DEF CountersInv
<1>a. workers[r].st # "none" /\ TakeResult(r)
  BY DEF ApplyResult, ApplyLost, ApplyFailed, ApplyDone
<1>b. /\ workers \in [Rows -> Worker] /\ inflight \in [Actions -> Int] /\ active \in Int
  BY DEF MemInv, SchedulerTypeOK
<1>c. handlers' = handlers /\ Unannounced' = Unannounced
  BY SameUnannounced DEF apiVars
<1>d. phase \in Running /\ phase' \in Running
  BY <1>a DEF TakeResult, Running, Loop
<1>e. RequestsHold'
  BY <1>c, <1>d DEF RequestsHold
<1>f. InflightCounts'
  BY <1>a, <1>b, RowParts, OneWorkerLess
<1> SUFFICES BusyCounterExact'
  BY <1>e, <1>f
<1>1. ASSUME NEW lines \in Lines, ApplyDone(r, lines)
      PROVE  BusyCounterExact'
  <2> DEFINE q == PinnedDef(r).output
  <2>1. PICK outs \in Seq(Message) :
          /\ deliveries[r].state = "claimed"
          /\ Len(messages) + Len(outs) <= MaxMessages
          /\ deliveries'[r].state = "done"
          /\ \A s \in Rows : s # r =>
               deliveries'[s] = IF s \in NewRows(Len(outs), q) THEN PendingDelivery
                                ELSE deliveries[s]
          /\ active' = active + Len(outs) * Cardinality(Subscribers(q)) - 1
    BY <1>1, DoneEffect
  <2> HIDE DEF q
  <2> DEFINE new == NewRows(Len(outs), q)
  <2>2. Len(outs) \in Nat
    OBVIOUS
  <2>3. /\ \A s \in new : deliveries[s].state = "none"
        /\ Cardinality(new) = Len(outs) * Cardinality(Subscribers(q))
    BY <2>1, <2>2, NewRowsCounted
  <2>4. new \subseteq Rows
    BY DEF NewRows
  <2> HIDE DEF new
  <2>5. r \in ActiveRows /\ r \notin new
    BY <2>1, <2>3 DEF ActiveRows, InState, ActiveStates
  <2>6. ActiveRows' = (ActiveRows \ {r}) \cup new
    BY <2>1, <2>3, <2>4, <2>5
       DEF ActiveRows, InState, ActiveStates, PendingDelivery, NoDelivery, new
  <2>7. (ActiveRows \ {r}) \cap new = {}
    BY <2>3 DEF ActiveRows, InState, ActiveStates
  <2>8. IsFiniteSet(new) /\ IsFiniteSet(ActiveRows \ {r})
    BY <2>4, RowsFinite, CountedAreFinite, FS_Subset
  <2>9. Cardinality(ActiveRows') = Cardinality(ActiveRows \ {r}) + Cardinality(new)
    BY <2>6, <2>7, <2>8, DisjointUnion
  <2>10. Cardinality(ActiveRows \ {r}) = Cardinality(ActiveRows) - 1
    BY <2>5, CountedAreFinite, WithoutOne
  <2>11. Cardinality(new) \in Nat
    BY <2>8, FS_CardinalityType
  <2>12. active' = active + Cardinality(new) - 1
    BY <2>1, <2>3
  <2> QED
    BY <1>b, <1>c, <1>d, <2>9, <2>10, <2>11, <2>12, CountsTyped, BusyCounts, BusyCountsNext
<1>2. CASE ApplyFailed(r)
  <2> DEFINE dead == deliveries[r].attempt >= PinnedDef(r).maxAttempts
  <2>1. /\ deliveries[r].state = "claimed"
        /\ deliveries'[r].state = IF dead THEN "dead" ELSE "failed"
        /\ active' = IF dead THEN active - 1 ELSE active
        /\ \A s \in Rows : s # r => deliveries'[s] = deliveries[s]
    BY <1>2, FailEffect
  <2> HIDE DEF dead
  <2>2. CASE dead
    <3>1. /\ deliveries[r].state \in ActiveStates /\ deliveries'[r].state \notin ActiveStates
          /\ active' = active - 1
      BY <2>1, <2>2 DEF ActiveStates
    <3> QED
      BY <1>b, <1>c, <1>d, <2>1, <3>1, OneBusyLess
  <2>3. CASE ~dead
    <3>1. /\ \A s \in Rows : deliveries'[s].state \in ActiveStates
                               <=> deliveries[s].state \in ActiveStates
          /\ active' = active
      BY <2>1, <2>3 DEF ActiveStates
    <3> QED
      BY <1>c, <1>d, <3>1, SameBusy
  <2> QED
    BY <2>2, <2>3
<1>3. CASE ApplyLost(r)
  BY <1>3, <1>c, <1>d, SameBusy DEF ApplyLost, storeVars
<1> QED
  BY <1>1, <1>2, <1>3 DEF ApplyResult

\* message.send and delivery.replay: what they commit they will announce.
LEMMA AddsKeepCounters ==
  ASSUME PlaneInv, MemInv, CountersInv, NEW h \in Handlers,
         \/ \E q \in Queues, p \in Payloads : MessageSend(h, q, p)
         \/ \E r \in Rows : DeliveryReplay(h, r)
  PROVE  CountersInv'
<1> USE DEF CountersInv
<1>a. handlers \in [Handlers -> Request] /\ active \in Int
  BY DEF MemInv, ApiTypeOK, SchedulerTypeOK
<1>b. /\ phase \in Running /\ phase' = phase /\ handlers[h].rows = {}
      /\ UNCHANGED <<active, inflight, workers>>
  <2>1. Serving /\ Free(h) /\ UNCHANGED schedVars
    BY DEF MessageSend, DeliveryReplay
  <2> QED
    BY <2>1 DEF Serving, Free, NoRequest, Running, schedVars
<1>c. InflightCounts'
  BY <1>b, SameWorkers
<1>1. ASSUME NEW new \in SUBSET Rows, NEW req \in Request, SetHandler(h, req),
             req.rows = new, req.op # "add" => new = {},
             \A r \in new : /\ deliveries[r].state \notin ActiveStates
                            /\ deliveries'[r].state \in ActiveStates,
             \A r \in Rows \ new : deliveries'[r] = deliveries[r]
      PROVE  CountersInv'
  <2>1. handlers'[h] = req /\ \A g \in Handlers : g # h => handlers'[g] = handlers[g]
    BY <1>1, <1>a DEF SetHandler
  <2>2. RequestsHold'
    BY <1>1, <1>b, <2>1 DEF RequestsHold
  <2>3. BusyCounterExact'
    BY <1>1, <1>a, <1>b, <2>1, MoreUnannounced
  <2> QED
    BY <1>c, <2>2, <2>3
<1>2. ASSUME NEW q \in Queues, NEW p \in Payloads, MessageSend(h, q, p)
      PROVE  CountersInv'
  <2> DEFINE new == NewRows(1, q)
  <2>1. /\ Len(messages) + 1 <= MaxMessages
        /\ \A s \in Rows : deliveries'[s] = IF s \in new THEN PendingDelivery ELSE deliveries[s]
    BY <1>2, SendEffect
  <2>2. /\ \A s \in new : deliveries[s].state = "none"
        /\ new = ((Len(messages) + 1)..(Len(messages) + 1)) \X Subscribers(q)
    BY <2>1, NewRowsCounted
  <2>3. new \in SUBSET Rows
    BY DEF NewRows
  <2>4. Len(messages) \in Nat
    BY DEF PlaneInv, StoreTypeOK
  <2>5. new = {Len(messages) + 1} \X Subscribers(q)
    BY <2>2, <2>4
  <2>6. SetHandler(h, IF new = {} THEN NoRequest
                      ELSE [NoRequest EXCEPT !.op = "add", !.rows = new])
    BY <1>2, <2>5 DEF MessageSend
  <2> HIDE DEF new
  <2>7. \A r \in new : /\ deliveries[r].state \notin ActiveStates
                       /\ deliveries'[r].state \in ActiveStates
    BY <2>1, <2>2, <2>3 DEF ActiveStates, PendingDelivery, NoDelivery
  <2>8. \A r \in Rows \ new : deliveries'[r] = deliveries[r]
    BY <2>1
  <2>9. NoRequest.rows = {} /\ [NoRequest EXCEPT !.op = "add", !.rows = new].rows = new
        /\ [NoRequest EXCEPT !.op = "add", !.rows = new].op = "add"
    BY DEF NoRequest
  <2>10. CASE new = {}
    BY <2>3, <2>6, <2>7, <2>8, <2>9, <2>10, <1>1, RequestsTyped
  <2>11. CASE new # {}
    BY <2>3, <2>6, <2>7, <2>8, <2>9, <2>11, <1>1, RequestsTyped
  <2> QED
    BY <2>10, <2>11
<1>3. ASSUME NEW r \in Rows, DeliveryReplay(h, r)
      PROVE  CountersInv'
  <2> DEFINE req == [NoRequest EXCEPT !.op = "add", !.rows = {r}]
  <2>1. {r} \in SUBSET Rows
    OBVIOUS
  <2>2. req \in Request /\ req.op = "add" /\ req.rows = {r} /\ SetHandler(h, req)
    BY <1>3, <2>1, RequestsTyped DEF NoRequest, DeliveryReplay
  <2> HIDE DEF req
  <2>3. /\ deliveries[r].state \notin ActiveStates /\ deliveries'[r].state \in ActiveStates
        /\ \A s \in Rows \ {r} : deliveries'[s] = deliveries[s]
    BY <1>3, ReplayEffect DEF ActiveStates
  <2> QED
    BY <2>1, <2>2, <2>3, <1>1
<1> QED
  BY <1>2, <1>3

\* The replies: WorkAdded announces what its request has committed, CancelAction
\* takes what it cancels off the counter.
LEMMA RepliesKeepCounters ==
  ASSUME PlaneInv, MemInv, CountersInv, NEW h \in Handlers,
         WorkAdded(h) \/ CancelAction(h)
  PROVE  CountersInv'
<1> USE DEF CountersInv
<1>a. handlers \in [Handlers -> Request] /\ active \in Int
  BY DEF MemInv, ApiTypeOK, SchedulerTypeOK
<1>b. /\ handlers'[h].rows = {} /\ \A g \in Handlers : g # h => handlers'[g] = handlers[g]
  BY <1>a DEF WorkAdded, CancelAction, SetHandler, NoRequest
<1>c. phase \in Running /\ phase' \in Running /\ UNCHANGED <<inflight, workers>>
  BY DEF WorkAdded, CancelAction, HandleCtrl, Wake, Running, Loop
<1>d. InflightCounts' /\ RequestsHold'
  BY <1>b, <1>c, SameWorkers DEF RequestsHold
<1>1. CASE WorkAdded(h)
  BY <1>1, <1>a, <1>b, <1>c, <1>d, Announced DEF WorkAdded, storeVars
<1>2. CASE CancelAction(h)
  <2> DEFINE a == handlers[h].action
  <2>1. handlers[h].rows = {}
    BY <1>2 DEF CancelAction, RequestsHold
  <2>2. Unannounced' = Unannounced
    BY <1>b, <2>1, SameUnannounced
  <2>3. HandleCtrl(a)
    BY <1>2 DEF CancelAction
  <2> HIDE DEF a
  <2>4. CASE UNCHANGED <<storeVars, active>>
    BY <1>c, <1>d, <2>2, <2>4, SameBusy DEF storeVars
  <2>5. CASE CancelDeliveries(a) /\ active' = active - Cardinality(Cancellable(a))
    <3>1. /\ \A r \in Cancellable(a) :
               /\ r \in Rows /\ deliveries[r].state \in {"pending", "failed"}
               /\ deliveries'[r].state = "cancelled"
          /\ \A r \in Rows : r \notin Cancellable(a) => deliveries'[r] = deliveries[r]
      BY <2>5, CancelEffect
    <3>2. Cancellable(a) \subseteq ActiveRows /\ ActiveRows' = ActiveRows \ Cancellable(a)
      BY <3>1 DEF ActiveRows, InState, ActiveStates
    <3>3. Cardinality(ActiveRows') = Cardinality(ActiveRows) - Cardinality(Cancellable(a))
      BY <3>2, CountedAreFinite, Without
    <3>4. Cardinality(Cancellable(a)) \in Nat
      BY CountsAreNumbers DEF Cancellable, InState
    <3>5. BusyCounterExact'
      BY <1>a, <1>c, <2>2, <2>5, <3>3, <3>4, CountsTyped, BusyCounts, BusyCountsNext
    <3> QED
      BY <1>d, <3>5
  <2> QED
    BY <2>3, <2>4, <2>5 DEF HandleCtrl
<1> QED
  BY <1>1, <1>2

\* A daemon ends and leaves no counters; the next one counts anew before it
\* serves.
LEMMA EndsKeepCounters ==
  ASSUME PlaneInv, MemInv, CountersInv,
         \/ StopDaemon \/ Crash \/ \E r \in Rows : CrashInReap(r)
         \/ SeedAndServe /\ UNCHANGED apiVars
  PROVE  CountersInv'
<1> USE DEF CountersInv
<1>1. CASE StopDaemon \/ Crash \/ \E r \in Rows : CrashInReap(r)
  <2>1. Forget /\ phase' \notin Running /\ NoRequests
    BY <1>1 DEF StopDaemon, Drained, Crash, CrashInReap, ReapInterrupted, Running, Loop
  <2>2. InflightCounts'
    BY <2>1, NoWorkers
  <2>3. RequestsHold'
    BY <2>1 DEF NoRequests, NoRequest, RequestsHold
  <2>4. BusyCounterExact'
    BY <2>1, BusyCountsNext
  <2> QED
    BY <2>2, <2>3, <2>4
<1>2. CASE SeedAndServe /\ UNCHANGED apiVars
  <2>1. /\ phase \notin Running /\ phase' \in Running
        /\ UNCHANGED <<deliveries, inflight, workers, handlers>>
        /\ active' = Cardinality(ActiveRows)
    BY <1>2 DEF SeedAndServe, Running, Loop, storeVars, apiVars, CountActiveDeliveries
  <2>2. InflightCounts' /\ RequestsHold'
    BY <2>1, SameWorkers DEF RequestsHold
  <2>3. Unannounced' = {}
    BY <2>1 DEF RequestsHold, Unannounced
  <2>4. ActiveRows' = ActiveRows
    BY <2>1 DEF ActiveRows, InState
  <2>5. Cardinality(Unannounced') = 0
    BY <2>3, FS_EmptySet
  <2> QED
    BY <2>1, <2>2, <2>4, <2>5, CountsTyped, BusyCountsNext
<1> QED
  BY <1>1, <1>2

\* Every step, and stuttering, keeps the counters exact.
LEMMA NextKeepsCounters ==
  InductiveInv /\ CountersInv /\ [Next]_vars => CountersInv'
<1> SUFFICES ASSUME PlaneInv, MemInv, CountersInv, [Next]_vars
             PROVE  CountersInv'
  BY InvParts
<1>1. CASE InternalStep /\ UNCHANGED apiVars
  <2>1. CASE LoopStep
    BY <1>1, <2>1, MovesKeepCounters, DispatchKeepsCounters DEF LoopStep
  <2>2. CASE \E r \in Rows : ApplyResult(r) \/ WorkerStep(r) \/ TimePasses(r)
    BY <1>1, <2>2, ApplyKeepsCounters, WorkersKeepCounters DEF WorkerStep
  <2>3. CASE \E p \in Pids : OrphanExits(p)
    BY <1>1, <2>3, WorkersKeepCounters
  <2>4. CASE BeginDrain \/ ReapStep
    BY <1>1, <2>4, MovesKeepCounters, WorkersKeepCounters, EndsKeepCounters DEF ReapStep
  <2>5. CASE FaultStep
    BY <1>1, <2>5, MovesKeepCounters, ApplyKeepsCounters, WorkersKeepCounters DEF FaultStep
  <2> QED
    BY <1>1, <2>1, <2>2, <2>3, <2>4, <2>5 DEF InternalStep
<1>2. CASE ClientStep
  BY <1>2, AddsKeepCounters, ConfigKeepsCounters DEF ClientStep
<1>3. CASE ConfigStep
  BY <1>3, ConfigKeepsCounters
<1>4. CASE \E h \in Handlers : WorkAdded(h) \/ CancelAction(h) \/ CancelAbandoned(h)
  BY <1>4, RepliesKeepCounters, ConfigKeepsCounters
<1>5. CASE IdleReadsInFlight \/ IdleReadsBusy \/ StopScheduler \/ StartDaemon
  BY <1>5, ConfigKeepsCounters
<1>6. CASE StopDaemon \/ Crash \/ \E r \in Rows : CrashInReap(r)
  BY <1>6, EndsKeepCounters
<1>7. CASE UNCHANGED vars
  <2>1. UNCHANGED <<deliveries, phase, active, inflight, workers, handlers>>
    BY <1>7 DEF vars, storeVars, schedVars, apiVars
  <2> QED
    BY <2>1, QuietKeepsCounters
<1> QED
  BY <1>1, <1>2, <1>3, <1>4, <1>5, <1>6, <1>7 DEF Next

\* The counters of a system that has not started.
LEMMA InitCounters == Init => CountersInv
<1> SUFFICES ASSUME Init PROVE CountersInv
  OBVIOUS
<1> USE DEF Init, SchedulerInit, ApiInit
<1>1. \A a \in Actions : WorkersOf(a) = {}
  BY DEF WorkersOf, NoWorker
<1>2. InflightCounts
  BY <1>1, FS_EmptySet DEF InflightCounts
<1>3. RequestsHold /\ BusyCounterExact
  BY DEF RequestsHold, NoRequest, BusyCounterExact, Loop
<1> QED
  BY <1>2, <1>3 DEF CountersInv

-----------------------------------------------------------------------------
(* The theorems. *)

\* The counters are exact in every state the system reaches.
THEOREM CountersHold == Spec => []CountersInv
BY InitCounters, NextKeepsCounters, InductiveInvHolds, PTL DEF Spec

\* inflight, which bounds dispatch and ends drain, is the number of live
\* workers of each action, and each of them works on a claimed delivery.
THEOREM InflightIsExact == Spec => []InflightExact
<1>1. InductiveInv /\ CountersInv => InflightExact
  BY DEF InductiveInv, CountersInv, InflightCounts, WorkersHoldClaims, InflightExact
<1> QED
  BY <1>1, InductiveInvHolds, CountersHold, PTL

\* The busy counter, which the idle tracker trusts, is off by exactly what
\* requests in flight have committed and not announced: no claim, retry, outbox
\* fan-out, cancellation, lost write, crash or restart makes it drift.
THEOREM BusyCounterIsExact == Spec => []BusyCounterExact
<1>1. CountersInv => BusyCounterExact
  BY DEF CountersInv
<1> QED
  BY <1>1, CountersHold, PTL

-----------------------------------------------------------------------------
(* What the steps that read the counters do. *)

\* A worker begins with a claim, and in no other way.
LEMMA OnlyClaimsLaunch ==
  ASSUME MemInv, [Next]_vars, NEW r \in Rows,
         workers[r].st = "none", workers'[r].st # "none"
  PROVE  ClaimAndLaunch(r, r[2])
<1>a. workers \in [Rows -> Worker]
  BY DEF MemInv, SchedulerTypeOK
<1>b. NoWorker.st = "none"
  BY DEF NoWorker
<1>c. workers' # workers
  OBVIOUS
<1>1. CASE InternalStep
  <2>1. CASE LoopStep
    <3>1. PICK a \in Actions, s \in Rows : ClaimAndLaunch(s, a)
      BY <2>1, <1>c DEF LoopStep, LoadActions, DispatchAborted, ActionExhausted, Advance,
                        Resolve, WakeOnNudge, WakeOnRetryTimer
    <3>2. s = r /\ r[2] = a
      BY <3>1, <1>a DEF ClaimAndLaunch, IsNextEligible
    <3> QED
      BY <3>1, <3>2
  <2>2. ASSUME NEW s \in Rows,
               ApplyResult(s) \/ WorkerStep(s) \/ TimePasses(s)
               \/ ApplyLost(s) \/ SpawnFails(s) \/ PersistPgidFails(s)
        PROVE  FALSE
    <3>1. CASE ApplyResult(s) \/ ApplyLost(s)
      BY <3>1, <1>a, <1>b DEF ApplyResult, ApplyFailed, ApplyDone, ApplyLost, TakeResult
    <3>2. CASE WorkerStep(s)
      BY <3>2, <1>a DEF WorkerStep, StartProcess, Launched, PersistPgid, TaskExits
    <3>3. CASE SpawnFails(s) \/ PersistPgidFails(s)
      BY <3>3, <1>a DEF SpawnFails, Launched, PersistPgidFails
    <3>4. CASE TimePasses(s)
      BY <3>4, <1>c DEF TimePasses, schedVars
    <3> QED
      BY <2>2, <3>1, <3>2, <3>3, <3>4
  <2>3. CASE \/ \E p \in Pids : OrphanExits(p)
             \/ BeginDrain \/ ReapStep \/ WakeOnIdleTimer
             \/ \E a \in Actions : DispatchFails(a)
    BY <2>3, <1>c DEF OrphanExits, BeginDrain, ReapStep, ReapOrphan, SeedAndServe,
                      WakeOnIdleTimer, DispatchFails, Advance, schedVars
  <2> QED
    BY <1>1, <2>1, <2>2, <2>3 DEF InternalStep, FaultStep
<1>2. CASE StopDaemon \/ Crash \/ \E s \in Rows : CrashInReap(s)
  <2>1. Forget
    BY <1>2 DEF StopDaemon, Drained, Crash, CrashInReap, ReapInterrupted
  <2> QED
    BY <2>1, <1>b DEF Forget
<1>3. CASE \/ ClientStep \/ ConfigStep
           \/ \E h \in Handlers : WorkAdded(h) \/ CancelAction(h) \/ CancelAbandoned(h)
           \/ IdleReadsInFlight \/ IdleReadsBusy \/ StopScheduler \/ StartDaemon
           \/ UNCHANGED vars
  BY <1>3, <1>c DEF ClientStep, MessageSend, DeliveryReplay, ActionDisable, ConfigStep,
     ActionEnable, ActionApply, WorkAdded, CancelAction, HandleCtrl, CancelAbandoned,
     IdleReadsInFlight, IdleReadsBusy, StopScheduler, StartDaemon, Boot, vars, schedVars
<1> QED
  BY <1>1, <1>2, <1>3 DEF Next

\* A claim leaves at most as many executions of an action as the version it
\* pins allows, although dispatch decides by a counter and by a snapshot.
THEOREM ConcurrencyIsRespected == Spec => ConcurrencyRespected
<1> DEFINE Bounded == \A r \in Rows :
                        workers[r].st = "none" /\ workers'[r].st # "none" =>
                          Cardinality(WorkersOf(r[2])') <= PinnedDef(r)'.concurrency
<1>1. InductiveInv /\ CountersInv /\ [Next]_vars => Bounded
  <2> SUFFICES ASSUME PlaneInv, MemInv, CountersInv, [Next]_vars,
                      NEW r \in Rows, workers[r].st = "none", workers'[r].st # "none"
               PROVE  Cardinality(WorkersOf(r[2])') <= PinnedDef(r)'.concurrency
    BY InvParts
  <2> DEFINE a == r[2]
  <2>1. ClaimAndLaunch(r, a) /\ a \in Actions
    BY OnlyClaimsLaunch, RowParts
  <2>2. /\ snap[a] # 0 /\ deliveries[r].state # "none"
        /\ deliveries'[r].version = snap[a] /\ versions' = versions
    BY <2>1, ClaimEffect
  <2>3. SnapDef(a) \in Defs /\ PinnedDef(r)' = SnapDef(a)
    BY <2>1, <2>2, Lookups DEF MemInv, PinnedDef, SnapDef
  <2>4. inflight[a] \in Int /\ SnapDef(a).concurrency \in Nat
    BY <2>1, <2>3, StoreAssumption DEF MemInv, SchedulerTypeOK, Definition
  <2>5. ~SnapDef(a).join
    <3>1. Vet(SnapDef(a), messages[r[1]]) = "claim"
      BY <2>1 DEF ClaimAndLaunch
    <3> QED
      BY <3>1 DEF Vet
  <2>6. inflight[a] < SnapDef(a).concurrency
    BY <2>1, <2>5 DEF ClaimAndLaunch, HasSlot
  <2>7. Cardinality(WorkersOf(a)') = inflight[a] + 1
    BY <2>1, OneWorkerMore DEF ClaimAndLaunch, CountersInv, MemInv, SchedulerTypeOK
  <2> QED
    BY <2>3, <2>4, <2>6, <2>7
<1> QED
  BY <1>1, InductiveInvHolds, CountersHold, PTL DEF Spec, ConcurrencyRespected

\* The idle tracker, which reads the counters of two components one after the
\* other, ends the daemon only when every delivery that still needs it belongs
\* to a request that is in flight, and will be announced by it.
THEOREM IdleSparesAllWork == Spec => IdleSparesWork
<1> DEFINE Spared == idle' = "expired" /\ idle # "expired" =>
                       CountActiveDeliveries <= Cardinality(Unannounced)
<1>1. InductiveInv /\ CountersInv /\ [Next]_vars => Spared
  <2> SUFFICES ASSUME PlaneInv, MemInv, CountersInv, [Next]_vars,
                      idle' = "expired", idle # "expired"
               PROVE  CountActiveDeliveries <= Cardinality(Unannounced)
    BY InvParts
  <2>1. IdleReadsBusy
    BY DEF Next, ClientStep, MessageSend, DeliveryReplay, ActionDisable, ConfigStep,
       ActionEnable, ActionApply, WorkAdded, CancelAction, CancelAbandoned, IdleReadsInFlight,
       StopScheduler, StopDaemon, Crash, StartDaemon, CrashInReap, NoRequests, vars, apiVars
  <2>2. ~(active > 0) /\ phase \in Running /\ active \in Int
    BY <2>1 DEF IdleReadsBusy, Serving, Running, MemInv, SchedulerTypeOK
  <2>3. active + Cardinality(Unannounced) = Cardinality(ActiveRows)
    BY <2>2, BusyCounts DEF CountersInv
  <2> QED
    BY <2>2, <2>3, CountsTyped DEF CountActiveDeliveries
<1> QED
  BY <1>1, InductiveInvHolds, CountersHold, PTL DEF Spec, IdleSparesWork

=============================================================================
