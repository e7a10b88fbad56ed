---------------------------- MODULE SonataProofs ----------------------------
(***************************************************************************)
(* Theorems about Sonata, for every number of messages, actions, versions, *)
(* handlers and daemons.  The invariant of the store, PlaneInv, is shown   *)
(* to be preserved by each kind of transaction once; the steps of the      *)
(* system are then steps of these transactions.                            *)
(***************************************************************************)
EXTENDS Sonata, FiniteSetTheorems, TLAPS

\* A row is a pair of a message id and an action.
LEMMA RowParts ==
  ASSUME NEW r \in Rows
  PROVE  r[1] \in Nat \ {0} /\ r[1] <= MaxMessages /\ r[2] \in Actions
BY StoreAssumption DEF Rows, MsgIds, Actions

\* Rows, actions and what is selected from them are finite.
LEMMA RowsFinite ==
  IsFiniteSet(Rows) /\ IsFiniteSet(Actions)
<1>1. IsFiniteSet(Actions) /\ IsFiniteSet(MsgIds)
  BY StoreAssumption, FS_Interval DEF Actions, MsgIds
<1> QED
  BY <1>1, FS_Product DEF Rows

\* A count of rows is a number, whatever the state.
LEMMA CountsAreNumbers ==
  ASSUME NEW S, S \subseteq Rows \/ S \subseteq Actions
  PROVE  Cardinality(S) \in Nat
BY RowsFinite, FS_Subset, FS_CardinalityType

\* A transaction that rewrites one existing row.
LEMMA SetRowKeepsPlane ==
  ASSUME PlaneInv,
         NEW r \in Rows, NEW row \in Delivery,
         SetRow(r, row),
         deliveries[r].state \notin {"none", "done"},
         row.state \notin {"none", "done"},
         row.state = "claimed" =>
           /\ row.version \in 1..Len(versions[r[2]])
           /\ Vet(versions[r[2]][row.version], messages[r[1]]) = "claim",
         row.pgid # NoPid => row.state = "claimed"
  PROVE  PlaneInv'
<1> USE DEF PlaneInv, SetRow
<1>1. StoreTypeOK'
  BY DEF StoreTypeOK
<1>a. \A s \in Rows : deliveries'[s] = IF s = r THEN row ELSE deliveries[s]
  BY DEF StoreTypeOK
<1>2. RowsHaveMessages'
  BY <1>a DEF RowsHaveMessages
<1>3. VersionsExist'
  BY <1>a DEF VersionsExist
<1>4. OutputsHaveDoneOrigin'
  <2> SUFFICES ASSUME NEW i \in 1..Len(messages), messages[i].origin # NoRow
               PROVE  deliveries'[messages[i].origin] = deliveries[messages[i].origin]
    BY DEF OutputsHaveDoneOrigin
  <2>1. messages[i] \in Message
    BY DEF StoreTypeOK
  <2>2. messages[i].origin \in Rows
    BY <2>1 DEF Message
  <2> QED
    BY <1>a, <2>2 DEF OutputsHaveDoneOrigin
<1>5. ClaimsAreVetted'
  <2> SUFFICES ASSUME NEW s \in Rows, (deliveries[s].state = "claimed")'
               PROVE  (Vet(PinnedDef(s), messages[s[1]]) = "claim")'
    BY DEF ClaimsAreVetted, ClaimedDeliveries, InState
  <2>1. Vet(PinnedDef(s), messages[s[1]])'
          = Vet(versions[s[2]][deliveries'[s].version], messages[s[1]])
    BY DEF PinnedDef
  <2>2. CASE s = r
    BY <1>a, <2>1, <2>2
  <2>3. CASE s # r
    <3>1. deliveries'[s] = deliveries[s]
      BY <1>a, <2>3
    <3>2. Vet(versions[s[2]][deliveries[s].version], messages[s[1]]) = "claim"
      BY <3>1 DEF ClaimsAreVetted, ClaimedDeliveries, InState, PinnedDef
    <3> QED
      BY <2>1, <3>1, <3>2
  <2> QED
    BY <2>2, <2>3
<1>6. PgidOnlyWhileClaimed'
  BY <1>a DEF PgidOnlyWhileClaimed
<1> QED
  BY <1>1, <1>2, <1>3, <1>4, <1>5, <1>6

\* A transaction that appends messages, on top of a table base in which the
\* invariant holds and the origins of the new messages are done.
LEMMA InsertKeepsPlane ==
  ASSUME PlaneInv,
         NEW q, NEW ms \in Seq(Message), NEW base \in [Rows -> Delivery],
         InsertMessages(ms, q, base),
         \A r \in Rows :
           /\ base[r].state = deliveries[r].state \/ deliveries[r].state = "claimed"
           /\ base[r].state \in {deliveries[r].state, "done"}
           /\ base[r].version = deliveries[r].version
           /\ base[r].pgid # NoPid => base[r].state = "claimed",
         \A i \in 1..Len(ms) : ms[i].origin # NoRow =>
           /\ ms[i].origin \in Rows
           /\ deliveries[ms[i].origin].state = "claimed"
           /\ base[ms[i].origin].state = "done"
           /\ deliveries[ms[i].origin].version = ms[i].originVersion
           /\ ms[i].queue = PinnedDef(ms[i].origin).output
           /\ ms[i].trace = messages[ms[i].origin[1]].trace
  PROVE  PlaneInv'
<1> USE DEF PlaneInv
<1> DEFINE new(r) == /\ r[1] \in (Len(messages) + 1)..(Len(messages) + Len(ms))
                     /\ r[2] \in Subscribers(q)
<1>a. \A r \in Rows : deliveries'[r] = IF new(r) THEN PendingDelivery ELSE base[r]
  BY DEF InsertMessages
<1>b. /\ messages' \in Seq(Message)
      /\ Len(messages') = Len(messages) + Len(ms)
      /\ Len(messages') <= MaxMessages
      /\ \A i \in 1..Len(messages) : messages'[i] = messages[i]
      /\ \A i \in (Len(messages) + 1)..Len(messages') : messages'[i] = ms[i - Len(messages)]
  BY DEF InsertMessages, StoreTypeOK
<1>c. Len(messages) \in Nat /\ Len(ms) \in Nat
  BY DEF StoreTypeOK
<1>d. \A r \in Rows : new(r) => deliveries[r].state = "none"
  BY <1>c, RowParts DEF RowsHaveMessages
<1>e. PendingDelivery \in Delivery /\ PendingDelivery.state = "pending" /\ PendingDelivery.pgid = NoPid
  BY DEF PendingDelivery, NoDelivery, Delivery, States
<1> HIDE DEF new
<1>f. versions' = versions /\ enabled' = enabled
  BY DEF InsertMessages
<1>1. StoreTypeOK'
  <2>1. deliveries' = [r \in Rows |-> IF new(r) THEN PendingDelivery ELSE base[r]]
    BY DEF InsertMessages, new
  <2>2. deliveries' \in [Rows -> Delivery]
    BY <2>1, <1>e
  <2> QED
    BY <1>b, <1>f, <2>2 DEF StoreTypeOK
<1>2. RowsHaveMessages'
  <2> SUFFICES ASSUME NEW r \in Rows, deliveries'[r].state # "none"
               PROVE  r[1] <= Len(messages')
    BY DEF RowsHaveMessages
  <2>1. CASE new(r)
    BY <2>1, <1>b, <1>c DEF new
  <2>2. CASE ~new(r)
    BY <2>2, <1>a, <1>b, <1>c, RowParts DEF RowsHaveMessages
  <2> QED
    BY <2>1, <2>2
<1>3. VersionsExist'
  BY <1>a, <1>e, <1>f DEF VersionsExist
<1>4. OutputsHaveDoneOrigin'
  <2> SUFFICES ASSUME NEW i \in 1..Len(messages'), messages'[i].origin # NoRow
               PROVE  LET m == messages'[i] IN
                      /\ deliveries'[m.origin].state = "done"
                      /\ deliveries'[m.origin].version = m.originVersion
                      /\ m.queue = versions[m.origin[2]][m.originVersion].output
                      /\ m.trace = messages'[m.origin[1]].trace
    BY <1>f DEF OutputsHaveDoneOrigin
  <2> DEFINE o == messages'[i].origin
  <2>1. o \in Rows /\ deliveries[o].state \in {"done", "claimed"}
    <3>1. messages'[i] \in Message
      BY <1>b
    <3>2. o \in Rows
      BY <3>1 DEF Message
    <3>3. CASE i <= Len(messages)
      BY <3>2, <3>3, <1>b, <1>c DEF OutputsHaveDoneOrigin
    <3>4. CASE ~(i <= Len(messages))
      <4>1. i - Len(messages) \in 1..Len(ms) /\ messages'[i] = ms[i - Len(messages)]
        BY <3>4, <1>b, <1>c
      <4> QED
        BY <3>2, <4>1
    <3> QED
      BY <3>3, <3>4
  <2>2. o[1] \in 1..Len(messages) /\ messages'[o[1]] = messages[o[1]]
    BY <2>1, <1>b, <1>c, RowParts DEF RowsHaveMessages
  <2>3. deliveries'[o] = base[o]
    BY <2>1, <1>a, <1>d
  <2>4. CASE i <= Len(messages)
    <3>1. messages'[i] = messages[i]
      BY <2>4, <1>b, <1>c
    <3> QED
      BY <2>4, <2>1, <2>2, <2>3, <3>1, <1>c DEF OutputsHaveDoneOrigin
  <2>5. CASE ~(i <= Len(messages))
    <3>1. i - Len(messages) \in 1..Len(ms) /\ messages'[i] = ms[i - Len(messages)]
      BY <2>5, <1>b, <1>c
    <3> DEFINE m == ms[i - Len(messages)]
    <3>2. /\ base[o].state = "done"
          /\ deliveries[o].version = m.originVersion
          /\ m.queue = PinnedDef(o).output
          /\ m.trace = messages[o[1]].trace
      BY <3>1
    <3>3. deliveries'[o].state = "done" /\ deliveries'[o].version = m.originVersion
      BY <2>1, <2>3, <3>2
    <3>4. PinnedDef(o).output = versions[o[2]][m.originVersion].output
      BY <3>2 DEF PinnedDef
    <3> QED
      BY <2>2, <3>1, <3>2, <3>3, <3>4
  <2> QED
    BY <2>4, <2>5
<1>5. ClaimsAreVetted'
  <2> SUFFICES ASSUME NEW r \in Rows, (deliveries[r].state = "claimed")'
               PROVE  (Vet(PinnedDef(r), messages[r[1]]) = "claim")'
    BY DEF ClaimsAreVetted, ClaimedDeliveries, InState
  <2>0. Vet(PinnedDef(r), messages[r[1]])'
          = Vet(versions[r[2]][deliveries'[r].version], messages'[r[1]])
    BY <1>f DEF PinnedDef
  <2>1. deliveries[r].state = "claimed" /\ deliveries'[r].version = deliveries[r].version
    BY <1>a, <1>e
  <2>2. r[1] \in 1..Len(messages) /\ messages'[r[1]] = messages[r[1]]
    BY <2>1, <1>b, <1>c, RowParts DEF RowsHaveMessages
  <2>3. Vet(versions[r[2]][deliveries[r].version], messages[r[1]]) = "claim"
    BY <2>1 DEF ClaimsAreVetted, ClaimedDeliveries, InState, PinnedDef
  <2> QED
    BY <2>0, <2>1, <2>2, <2>3
<1>6. PgidOnlyWhileClaimed'
  BY <1>a, <1>e DEF PgidOnlyWhileClaimed
<1> QED
  BY <1>1, <1>2, <1>3, <1>4, <1>5, <1>6


\* The cancellation of an action's waiting deliveries.
LEMMA CancelKeepsPlane ==
  ASSUME PlaneInv, NEW a, CancelDeliveries(a)
  PROVE  /\ PlaneInv'
         /\ \A r \in Rows : deliveries[r].state = "claimed" => deliveries'[r] = deliveries[r]
<1> USE DEF PlaneInv
<1> DEFINE gone(r) == [deliveries[r] EXCEPT !.state = "cancelled", !.gate = "null"]
<1>a. \A r \in Rows :
        deliveries'[r] = IF r \in Cancellable(a) THEN gone(r) ELSE deliveries[r]
  BY DEF CancelDeliveries
<1>b. \A r \in Rows : r \in Cancellable(a) => deliveries[r].state \in {"pending", "failed"}
  BY DEF Cancellable, InState
<1>c. \A r \in Rows : /\ gone(r) \in Delivery
                      /\ gone(r).state = "cancelled"
                      /\ gone(r).pgid = deliveries[r].pgid
                      /\ gone(r).version = deliveries[r].version
  BY DEF StoreTypeOK, Delivery, States
<1>d. messages' = messages /\ versions' = versions /\ enabled' = enabled
  BY DEF CancelDeliveries
<1> HIDE DEF gone
<1>1. StoreTypeOK'
  <2>1. deliveries' = [r \in Rows |-> IF r \in Cancellable(a) THEN gone(r) ELSE deliveries[r]]
    BY DEF CancelDeliveries, gone
  <2>2. deliveries' \in [Rows -> Delivery]
    BY <2>1, <1>c DEF StoreTypeOK
  <2> QED
    BY <1>d, <2>2 DEF StoreTypeOK
<1>2. RowsHaveMessages'
  BY <1>a, <1>b, <1>d DEF RowsHaveMessages
<1>3. VersionsExist'
  BY <1>a, <1>c, <1>d DEF VersionsExist
<1>4. OutputsHaveDoneOrigin'
  <2> SUFFICES ASSUME NEW i \in 1..Len(messages), messages[i].origin # NoRow
               PROVE  deliveries'[messages[i].origin] = deliveries[messages[i].origin]
    BY <1>d DEF OutputsHaveDoneOrigin
  <2>1. messages[i] \in Message
    BY DEF StoreTypeOK
  <2>2. messages[i].origin \in Rows
    BY <2>1 DEF Message
  <2> QED
    BY <1>a, <1>b, <2>2 DEF OutputsHaveDoneOrigin
<1>5. ClaimsAreVetted'
  BY <1>a, <1>c, <1>d DEF ClaimsAreVetted, ClaimedDeliveries, InState, PinnedDef
<1>6. PgidOnlyWhileClaimed'
  BY <1>a, <1>b, <1>c DEF PgidOnlyWhileClaimed
<1>7. \A r \in Rows : deliveries[r].state = "claimed" => deliveries'[r] = deliveries[r]
  BY <1>a, <1>b
<1> QED
  BY <1>1, <1>2, <1>3, <1>4, <1>5, <1>6, <1>7

\* A new version of an action: the versions rows refer to stay what they are.
LEMMA ApplyKeepsPlane ==
  ASSUME PlaneInv, NEW a \in Actions, NEW d \in Defs, ApplyAction(a, d)
  PROVE  /\ PlaneInv'
         /\ \A b \in Actions : Len(versions[b]) <= Len(versions'[b])
<1> USE DEF PlaneInv
<1>a. versions \in [Actions -> Seq(Defs)]
  BY DEF StoreTypeOK
<1>b. \A b \in Actions : versions'[b] = IF b = a THEN Append(versions[b], d) ELSE versions[b]
  BY <1>a DEF ApplyAction
<1>c. \A b \in Actions : /\ versions'[b] \in Seq(Defs)
                         /\ Len(versions[b]) \in Nat
                         /\ Len(versions[b]) <= Len(versions'[b])
                         /\ \A v \in 1..Len(versions[b]) : versions'[b][v] = versions[b][v]
  <2> SUFFICES ASSUME NEW b \in Actions
               PROVE  /\ versions'[b] \in Seq(Defs)
                      /\ Len(versions[b]) \in Nat
                      /\ Len(versions[b]) <= Len(versions'[b])
                      /\ \A v \in 1..Len(versions[b]) : versions'[b][v] = versions[b][v]
    OBVIOUS
  <2>1. versions[b] \in Seq(Defs) /\ Len(versions[b]) \in Nat
    BY <1>a
  <2>2. CASE b = a
    <3> DEFINE s == versions[b]
    <3>1. s \in Seq(Defs) /\ versions'[b] = Append(s, d)
      BY <2>1, <2>2, <1>b
    <3> HIDE DEF s
    <3>2. /\ Append(s, d) \in Seq(Defs)
          /\ Len(Append(s, d)) = Len(s) + 1
          /\ \A v \in 1..Len(s) : Append(s, d)[v] = s[v]
      BY <3>1
    <3> QED
      BY <2>1, <3>1, <3>2 DEF s
  <2>3. CASE b # a
    BY <2>1, <2>3, <1>b
  <2> QED
    BY <2>2, <2>3
<1>d. messages' = messages /\ enabled' = enabled /\ deliveries' = deliveries
  BY DEF ApplyAction
<1>1. StoreTypeOK'
  BY <1>a, <1>d DEF StoreTypeOK, ApplyAction
<1>2. RowsHaveMessages' /\ PgidOnlyWhileClaimed'
  BY <1>d DEF RowsHaveMessages, PgidOnlyWhileClaimed
<1>e. \A r \in Rows : deliveries[r].state \in {"claimed", "done"} =>
        /\ deliveries[r].version \in 1..Len(versions'[r[2]])
        /\ versions'[r[2]][deliveries[r].version] = versions[r[2]][deliveries[r].version]
  <2> SUFFICES ASSUME NEW r \in Rows, deliveries[r].state \in {"claimed", "done"}
               PROVE  /\ deliveries[r].version \in 1..Len(versions'[r[2]])
                      /\ versions'[r[2]][deliveries[r].version] = versions[r[2]][deliveries[r].version]
    OBVIOUS
  <2>1. r[2] \in Actions /\ deliveries[r].version \in 1..Len(versions[r[2]])
    BY RowParts DEF VersionsExist
  <2>2. Len(versions'[r[2]]) \in Nat
    BY <2>1, <1>c
  <2> QED
    BY <1>c, <2>1, <2>2
<1>3. VersionsExist'
  BY <1>d, <1>e DEF VersionsExist
<1>4. OutputsHaveDoneOrigin'
  <2> SUFFICES ASSUME NEW i \in 1..Len(messages), messages[i].origin # NoRow
               PROVE  LET m == messages[i] IN
                      versions'[m.origin[2]][m.originVersion]
                        = versions[m.origin[2]][m.originVersion]
    BY <1>d DEF OutputsHaveDoneOrigin
  <2>1. messages[i] \in Message
    BY DEF StoreTypeOK
  <2>2. messages[i].origin \in Rows
    BY <2>1 DEF Message
  <2> QED
    BY <1>e, <2>2 DEF OutputsHaveDoneOrigin
<1>5. ClaimsAreVetted'
  <2> SUFFICES ASSUME NEW r \in Rows, deliveries[r].state = "claimed"
               PROVE  Vet(versions'[r[2]][deliveries[r].version], messages[r[1]]) = "claim"
    BY <1>d DEF ClaimsAreVetted, ClaimedDeliveries, InState, PinnedDef
  <2>1. versions'[r[2]][deliveries[r].version] = PinnedDef(r)
    BY <1>e DEF PinnedDef
  <2> QED
    BY <2>1 DEF ClaimsAreVetted, ClaimedDeliveries, InState
<1> QED
  BY <1>1, <1>2, <1>3, <1>4, <1>5, <1>c

\* A transaction that only flips an enabled flag, or nothing at all.
LEMMA FlagsKeepPlane ==
  ASSUME PlaneInv, enabled' \in [Actions -> BOOLEAN],
         UNCHANGED <<messages, versions, deliveries>>
  PROVE  PlaneInv'
BY DEF PlaneInv, StoreTypeOK, RowsHaveMessages, VersionsExist, OutputsHaveDoneOrigin,
       ClaimsAreVetted, ClaimedDeliveries, InState, PinnedDef, PgidOnlyWhileClaimed


\* The part of the invariant that is about the daemon's memory.
MemInv ==
  /\ SchedulerTypeOK
  /\ ApiTypeOK
  /\ SnapsExist
  /\ WorkersHoldClaims

\* InductiveInv has a part for the store and one for the memory.
LEMMA InvParts == InductiveInv <=> PlaneInv /\ MemInv
BY DEF InductiveInv, MemInv, TypeOK, PlaneInv

\* A step that writes nothing to the store.
LEMMA NoWriteKeepsPlane ==
  ASSUME PlaneInv, UNCHANGED storeVars
  PROVE  PlaneInv'
BY FlagsKeepPlane DEF storeVars, PlaneInv, StoreTypeOK

\* The empty memory of a process that has not started its scheduler.
LEMMA ForgetKeepsMemory ==
  ASSUME PlaneInv, MemInv, Forget, UNCHANGED storeVars,
         phase' \in Off, procs' \in [Pids -> Process], ApiTypeOK'
  PROVE  MemInv'
<1>a. NoWorker \in Worker /\ 1 \in Actions
  BY StoreAssumption DEF NoWorker, Worker, Actions
<1>1. SchedulerTypeOK'
  <2>1. ctxDone' \in BOOLEAN /\ nudged' \in BOOLEAN
    BY DEF Forget
  <2>2. phase' \in Off \cup Loop \cup {"reaping", "drain"}
    BY DEF Off
  <2>3. snap' \in [Actions -> Nat] /\ inflight' \in [Actions -> Int]
    BY DEF Forget
  <2>4. workers' \in [Rows -> Worker] /\ cursor' \in Actions /\ active' \in Int
    BY <1>a DEF Forget
  <2> QED
    BY <2>1, <2>2, <2>3, <2>4 DEF SchedulerTypeOK
<1>2. SnapsExist'
  BY DEF SnapsExist, Forget, PlaneInv, StoreTypeOK, storeVars
<1>3. WorkersHoldClaims'
  BY DEF WorkersHoldClaims, Forget, NoWorker
<1> QED
  BY <1>1, <1>2, <1>3 DEF MemInv

\* Steps of the scheduler goroutine that only move it around its loop.
LEMMA MovesKeepInv ==
  ASSUME PlaneInv, MemInv, UNCHANGED apiVars,
         \/ LoadActions \/ DispatchAborted
         \/ \E a \in Actions : ActionExhausted(a) \/ DispatchFails(a)
         \/ WakeOnNudge \/ WakeOnRetryTimer \/ WakeOnIdleTimer \/ BeginDrain
         \/ SeedAndServe
  PROVE  PlaneInv' /\ MemInv'
<1> USE DEF MemInv
<1>a. versions \in [Actions -> Seq(Defs)] /\ \A a \in Actions : Len(versions[a]) \in Nat
  BY DEF PlaneInv, StoreTypeOK
<1>b. 1 \in Actions
  BY StoreAssumption DEF Actions
<1>c. ApiTypeOK'
  BY DEF ApiTypeOK, apiVars
<1>1. CASE LoadActions
  <2>1. SchedulerTypeOK'
    BY <1>1, <1>a DEF LoadActions, SchedulerTypeOK, Loop, storeVars
  <2>2. SnapsExist'
    BY <1>1, <1>a DEF LoadActions, SnapsExist, storeVars
  <2>3. WorkersHoldClaims'
    BY <1>1 DEF LoadActions, WorkersHoldClaims, Loop, storeVars
  <2> QED
    BY <1>1, <1>c, <2>1, <2>2, <2>3, NoWriteKeepsPlane DEF LoadActions
<1>2. CASE DispatchAborted
  <2>1. SchedulerTypeOK'
    BY <1>2, <1>b DEF DispatchAborted, SchedulerTypeOK, Loop, storeVars
  <2>2. SnapsExist'
    BY <1>2, <1>a DEF DispatchAborted, SnapsExist, storeVars
  <2>3. WorkersHoldClaims'
    BY <1>2 DEF DispatchAborted, WorkersHoldClaims, Loop, storeVars
  <2> QED
    BY <1>2, <1>c, <2>1, <2>2, <2>3, NoWriteKeepsPlane DEF DispatchAborted
<1>3. ASSUME NEW a \in Actions, AtAction(a), Advance(a)
      PROVE  PlaneInv' /\ MemInv'
  <2>1. a \in 1..NumActions /\ (a # NumActions => a + 1 \in Actions)
    BY StoreAssumption DEF Actions
  <2>2. SchedulerTypeOK'
    BY <1>3, <1>b, <2>1 DEF Advance, SchedulerTypeOK, Loop, storeVars
  <2>3. SnapsExist'
    BY <1>3, <1>a DEF Advance, SnapsExist, storeVars
  <2>4. WorkersHoldClaims'
    BY <1>3 DEF Advance, AtAction, WorkersHoldClaims, Loop, storeVars
  <2> QED
    BY <1>3, <1>c, <2>2, <2>3, <2>4, NoWriteKeepsPlane DEF Advance
<1>4. CASE \E a \in Actions : ActionExhausted(a) \/ DispatchFails(a)
  BY <1>3, <1>4 DEF ActionExhausted, DispatchFails
<1>5. CASE WakeOnNudge \/ WakeOnRetryTimer \/ WakeOnIdleTimer \/ BeginDrain
  <2> USE <1>5 DEF WakeOnNudge, WakeOnRetryTimer, WakeOnIdleTimer, BeginDrain, Wake
  <2>1. SchedulerTypeOK'
    BY DEF SchedulerTypeOK, Loop
  <2>2. SnapsExist'
    BY DEF SnapsExist, storeVars
  <2>3. WorkersHoldClaims'
    BY DEF WorkersHoldClaims, Loop, storeVars
  <2> QED
    BY <1>c, <2>1, <2>2, <2>3, NoWriteKeepsPlane
<1>6. CASE SeedAndServe
  <2>1. CountActiveDeliveries \in Int
    BY CountsAreNumbers DEF CountActiveDeliveries, ActiveRows, InState
  <2>2. SchedulerTypeOK'
    BY <1>6, <2>1 DEF SeedAndServe, SchedulerTypeOK, Loop
  <2>3. SnapsExist'
    BY <1>6 DEF SeedAndServe, SnapsExist, storeVars
  <2>4. WorkersHoldClaims'
    BY <1>6 DEF SeedAndServe, WorkersHoldClaims, Loop, storeVars
  <2> QED
    BY <1>6, <1>c, <2>2, <2>3, <2>4, NoWriteKeepsPlane DEF SeedAndServe
<1> QED
  BY <1>1, <1>2, <1>4, <1>5, <1>6


\* vet decides every message under every definition.
LEMMA VetDecides ==
  ASSUME NEW d \in Defs, NEW m \in Message
  PROVE  Vet(d, m) \in {"cancelled", "dead", "filtered", "claim"}
<1>1. d \in Definition
  BY StoreAssumption
<1>2. PICK Q \in SUBSET Queues : d.inputs \in [Q -> Filters]
  BY <1>1 DEF Definition
<1>3. CASE d.join \/ m.queue \notin DOMAIN d.inputs
  BY <1>3 DEF Vet
<1>4. CASE ~(d.join \/ m.queue \notin DOMAIN d.inputs)
  <2>1. m.queue \in Q /\ m.payload \in Payloads
    BY <1>2, <1>4 DEF Message
  <2>2. d.inputs[m.queue][m.payload] \in {"pass", "skip", "error"}
    BY <1>2, <2>1 DEF Filters
  <2> QED
    BY <1>4, <2>2 DEF Vet
<1> QED
  BY <1>3, <1>4

\* A row that exists has its message, and a snapshot version its definition.
LEMMA Lookups ==
  ASSUME PlaneInv, SnapsExist, SchedulerTypeOK
  PROVE  /\ \A r \in Rows : deliveries[r].state # "none" =>
              r[1] \in 1..Len(messages) /\ messages[r[1]] \in Message
         /\ \A r \in Rows : deliveries[r].state \in {"claimed", "done"} => PinnedDef(r) \in Defs
         /\ \A a \in Actions : snap[a] # 0 => snap[a] \in 1..Len(versions[a]) /\ SnapDef(a) \in Defs
         /\ \A r \in Rows : deliveries[r] \in Delivery
<1> USE DEF PlaneInv, StoreTypeOK
<1>1. ASSUME NEW r \in Rows, deliveries[r].state # "none"
      PROVE  r[1] \in 1..Len(messages) /\ messages[r[1]] \in Message
  <2>1. r[1] \in 1..Len(messages)
    BY <1>1, RowParts DEF RowsHaveMessages
  <2> QED
    BY <2>1
<1>2. ASSUME NEW r \in Rows, deliveries[r].state \in {"claimed", "done"}
      PROVE  PinnedDef(r) \in Defs
  BY <1>2, RowParts DEF VersionsExist, PinnedDef
<1>3. ASSUME NEW a \in Actions, snap[a] # 0
      PROVE  snap[a] \in 1..Len(versions[a]) /\ SnapDef(a) \in Defs
  <2>1. snap[a] \in 1..Len(versions[a])
    BY <1>3 DEF SnapsExist, SchedulerTypeOK
  <2> QED
    BY <2>1 DEF SnapDef
<1> QED
  BY <1>1, <1>2, <1>3

\* dispatch resolves or claims the next delivery of an action.
LEMMA DispatchKeepsInv ==
  ASSUME PlaneInv, MemInv, UNCHANGED apiVars,
         NEW r \in Rows, NEW a \in Actions, Resolve(r, a) \/ ClaimAndLaunch(r, a)
  PROVE  PlaneInv' /\ MemInv'
<1> USE DEF MemInv
<1>a. /\ deliveries[r].state \in {"pending", "failed"} /\ r[2] = a
      /\ snap[a] # 0 /\ phase = "dispatch"
  BY DEF Resolve, ClaimAndLaunch, IsNextEligible, Eligible, HasSlot, AtAction
<1>b. /\ deliveries[r] \in Delivery
      /\ messages[r[1]] \in Message
      /\ snap[a] \in 1..Len(versions[a]) /\ SnapDef(a) \in Defs
  BY <1>a, Lookups
<1>c. deliveries[r].pgid = NoPid
  BY <1>a DEF PlaneInv, PgidOnlyWhileClaimed
<1>d. ApiTypeOK'
  BY DEF ApiTypeOK, apiVars
<1>e. deliveries \in [Rows -> Delivery]
  BY DEF PlaneInv, StoreTypeOK
<1>1. CASE Resolve(r, a)
  <2> DEFINE v == Vet(SnapDef(a), messages[r[1]])
             row == [deliveries[r] EXCEPT !.state = v, !.pgid = NoPid]
  <2>1. v \in {"cancelled", "dead", "filtered"} /\ SetRow(r, row)
    BY <1>1, <1>b, VetDecides DEF Resolve, ResolveDelivery
  <2> HIDE DEF v
  <2>2. row \in Delivery /\ row.state = v /\ row.pgid = NoPid
    BY <1>b, <2>1 DEF Delivery, States
  <2>3. PlaneInv'
    <3> HIDE DEF row
    <3> QED
      BY <1>a, <2>1, <2>2, SetRowKeepsPlane
  <2>4. SchedulerTypeOK' /\ SnapsExist'
    BY <1>1 DEF Resolve, ResolveDelivery, SetRow, SchedulerTypeOK, SnapsExist
  <2>5. WorkersHoldClaims'
    BY <1>1, <1>a, <1>e DEF Resolve, ResolveDelivery, SetRow, WorkersHoldClaims
  <2> QED
    BY <1>d, <2>3, <2>4, <2>5
<1>2. CASE ClaimAndLaunch(r, a)
  <2> DEFINE row == [deliveries[r] EXCEPT !.state = "claimed", !.version = snap[a],
                                          !.attempt = @ + 1, !.gate = "null"]
  <2>1. SetRow(r, row) /\ Vet(SnapDef(a), messages[r[1]]) = "claim"
    BY <1>2 DEF ClaimAndLaunch, ClaimDelivery
  <2>2. /\ row \in Delivery /\ row.state = "claimed"
        /\ row.version = snap[a] /\ row.pgid = NoPid
    <3>1. snap[a] \in Nat
      BY DEF SchedulerTypeOK
    <3>2. deliveries[r] \in Delivery /\ deliveries[r].attempt + 1 \in Nat
      BY <1>b DEF Delivery
    <3> QED
      BY <1>c, <3>1, <3>2 DEF Delivery, States
  <2>3. Vet(versions[r[2]][row.version], messages[r[1]]) = "claim"
    BY <1>a, <2>1, <2>2 DEF SnapDef
  <2>4. PlaneInv'
    <3> HIDE DEF row
    <3> QED
      BY <1>a, <1>b, <2>1, <2>2, <2>3, SetRowKeepsPlane
  <2>5. SchedulerTypeOK' /\ SnapsExist'
    BY <1>2 DEF ClaimAndLaunch, ClaimDelivery, SetRow, SchedulerTypeOK, SnapsExist, Worker
  <2>6. WorkersHoldClaims'
    <3>1. \A s \in Rows : s # r => workers'[s] = workers[s] /\ deliveries'[s] = deliveries[s]
      BY <1>2, <1>e DEF ClaimAndLaunch, ClaimDelivery, SetRow, SchedulerTypeOK
    <3>2. deliveries'[r].state = "claimed" /\ phase' = "dispatch"
      BY <1>2, <1>a, <1>e, <2>1, <2>2 DEF ClaimAndLaunch, SetRow
    <3> QED
      BY <1>a, <3>1, <3>2 DEF WorkersHoldClaims, Loop
  <2> QED
    BY <1>d, <2>4, <2>5, <2>6
<1> QED
  BY <1>1, <1>2


\* The messages built from the lines of an execution are messages, and their
\* origin is the delivery that was executed.
LEMMA OutputsAreMessages ==
  ASSUME PlaneInv, NEW r \in Rows, deliveries[r].state = "claimed",
         NEW lines \in Seq(Payloads),
         PinnedDef(r) \in Defs, PinnedDef(r).output # NoQueue,
         messages[r[1]] \in Message
  PROVE  /\ BuildOutputs(r, lines) \in Seq(Message)
         /\ Len(BuildOutputs(r, lines)) = Len(lines)
         /\ \A i \in 1..Len(lines) :
              LET m == BuildOutputs(r, lines)[i] IN
              /\ m.origin = r
              /\ m.originVersion = deliveries[r].version
              /\ m.queue = PinnedDef(r).output
              /\ m.trace = messages[r[1]].trace
              /\ m.hops = messages[r[1]].hops + 1
<1> DEFINE out(i) == [queue |-> PinnedDef(r).output, payload |-> lines[i],
                      hops  |-> messages[r[1]].hops + 1, trace |-> messages[r[1]].trace,
                      origin |-> r, originVersion |-> deliveries[r].version]
<1>1. PinnedDef(r).output \in Queues
  BY StoreAssumption DEF Definition
<1>2. deliveries[r].version \in Nat
  BY DEF PlaneInv, StoreTypeOK, Delivery
<1>3. messages[r[1]].hops + 1 \in Nat /\ messages[r[1]].trace \in Nat
  BY DEF Message
<1>4. \A i \in 1..Len(lines) : out(i) \in Message
  BY <1>1, <1>2, <1>3 DEF Message
<1>5. BuildOutputs(r, lines) = [i \in 1..Len(lines) |-> out(i)] /\ Len(lines) \in Nat
  BY DEF BuildOutputs
<1>6. \A i \in 1..Len(lines) :
        /\ out(i).origin = r
        /\ out(i).originVersion = deliveries[r].version
        /\ out(i).queue = PinnedDef(r).output
        /\ out(i).trace = messages[r[1]].trace
        /\ out(i).hops = messages[r[1]].hops + 1
  OBVIOUS
<1> HIDE DEF out
<1> QED
  BY <1>4, <1>5, <1>6

\* The lines of an execution form a sequence of payloads.
LEMMA LinesAreSequences ==
  ASSUME NEW lines \in Lines
  PROVE  lines \in Seq(Payloads)
<1>1. PICK n \in 0..MaxLines : lines \in [1..n -> Payloads]
  BY DEF Lines
<1> QED
  BY <1>1, SchedulerAssumption

\* Taking a result off the channel keeps the types of the loop's memory, and
\* the other workers their claims.
LEMMA TakeResultKeeps ==
  ASSUME MemInv, NEW r \in Rows, TakeResult(r), workers[r].st # "none",
         active' \in Int, nudged' \in BOOLEAN, UNCHANGED apiVars,
         versions' = versions,
         \A s \in Rows : s # r /\ deliveries[s].state = "claimed" =>
                           deliveries'[s].state = "claimed"
  PROVE  MemInv'
<1> USE DEF MemInv
<1>1. ApiTypeOK'
  BY DEF ApiTypeOK, apiVars
<1>2. NoWorker \in Worker /\ NoWorker.st = "none"
  BY DEF NoWorker, Worker
<1>3. SchedulerTypeOK'
  <2>1. phase' \in Off \cup Loop \cup {"reaping", "drain"}
    BY DEF TakeResult, Loop
  <2>2. workers' \in [Rows -> Worker] /\ inflight' \in [Actions -> Int]
    BY <1>2, RowParts DEF TakeResult, SchedulerTypeOK
  <2> QED
    BY <2>1, <2>2 DEF TakeResult, SchedulerTypeOK
<1>4. SnapsExist'
  BY DEF SnapsExist, TakeResult
<1>5. WorkersHoldClaims'
  <2>1. \A s \in Rows : workers'[s] = IF s = r THEN NoWorker ELSE workers[s]
    BY DEF TakeResult, SchedulerTypeOK
  <2>2. phase' \in Loop \cup {"drain"}
    BY DEF TakeResult, Loop
  <2> QED
    BY <1>2, <2>1, <2>2 DEF WorkersHoldClaims
<1> QED
  BY <1>1, <1>3, <1>4, <1>5

\* apply records a success, a failure, or nothing.
LEMMA ApplyKeepsInv ==
  ASSUME PlaneInv, MemInv, UNCHANGED apiVars, NEW r \in Rows,
         ApplyResult(r) \/ ApplyLost(r)
  PROVE  PlaneInv' /\ MemInv'
<1> USE DEF MemInv
<1>a. deliveries[r].state = "claimed" /\ workers[r].st # "none" /\ TakeResult(r)
  BY DEF ApplyResult, ApplyLost, ApplyFailed, ApplyDone, WorkersHoldClaims
<1>b. /\ deliveries[r] \in Delivery /\ PinnedDef(r) \in Defs
      /\ messages[r[1]] \in Message /\ r[1] \in 1..Len(messages)
  BY <1>a, Lookups
<1>c. deliveries \in [Rows -> Delivery] /\ active \in Int
  BY DEF PlaneInv, StoreTypeOK, SchedulerTypeOK
<1>1. ASSUME NEW lines \in Lines, ApplyDone(r, lines)
      PROVE  PlaneInv' /\ MemInv'
  <2> DEFINE d    == PinnedDef(r)
             outs == IF d.output = NoQueue THEN <<>> ELSE BuildOutputs(r, lines)
             row  == [deliveries[r] EXCEPT !.state = "done", !.pgid = NoPid]
             base == [deliveries EXCEPT ![r].state = "done", ![r].pgid = NoPid]
  <2>1. InsertMessages(outs, d.output, base)
    BY <1>1 DEF ApplyDone, CompleteDelivery
  <2>2. /\ row \in Delivery /\ row.state = "done" /\ row.pgid = NoPid
        /\ row.version = deliveries[r].version
    BY <1>b DEF Delivery, States
  <2>3. base = [deliveries EXCEPT ![r] = row]
    BY <1>c
  <2>4. lines \in Seq(Payloads)
    BY <1>1, LinesAreSequences
  <2>5. /\ outs \in Seq(Message) /\ Len(outs) \in Nat
        /\ \A i \in 1..Len(outs) :
             /\ outs[i].origin = r
             /\ outs[i].originVersion = deliveries[r].version
             /\ outs[i].queue = d.output
             /\ outs[i].trace = messages[r[1]].trace
    <3>1. CASE d.output = NoQueue
      BY <3>1
    <3>2. CASE d.output # NoQueue
      BY <3>2, <1>a, <1>b, <2>4, OutputsAreMessages
    <3> QED
      BY <3>1, <3>2
  <2>6. active' \in Int /\ nudged' \in BOOLEAN /\ versions' = versions
    <3>1. Cardinality(Subscribers(d.output)) \in Nat
      BY CountsAreNumbers DEF Subscribers
    <3>2. active' = active + Len(outs) * Cardinality(Subscribers(d.output)) - 1
      BY <1>1 DEF ApplyDone
    <3>3. nudged' = TRUE
      BY <1>1 DEF ApplyDone
    <3> HIDE DEF outs
    <3>4. active' \in Int
      BY <1>c, <2>5, <3>1, <3>2
    <3>5. versions' = versions
      BY <2>1 DEF InsertMessages
    <3> QED
      BY <3>3, <3>4, <3>5
  <2> HIDE DEF outs, row
  <2>7. /\ base \in [Rows -> Delivery]
        /\ \A s \in Rows : base[s] = IF s = r THEN row ELSE deliveries[s]
    BY <1>c, <2>2, <2>3
  <2> HIDE DEF base, d
  <2>8. PlaneInv'
    <3>1. \A s \in Rows :
            /\ base[s].state = deliveries[s].state \/ deliveries[s].state = "claimed"
            /\ base[s].state \in {deliveries[s].state, "done"}
            /\ base[s].version = deliveries[s].version
            /\ base[s].pgid # NoPid => base[s].state = "claimed"
      BY <1>a, <2>2, <2>7 DEF PlaneInv, PgidOnlyWhileClaimed
    <3>2. \A i \in 1..Len(outs) : outs[i].origin # NoRow =>
            /\ outs[i].origin \in Rows
            /\ deliveries[outs[i].origin].state = "claimed"
            /\ base[outs[i].origin].state = "done"
            /\ deliveries[outs[i].origin].version = outs[i].originVersion
            /\ outs[i].queue = PinnedDef(outs[i].origin).output
            /\ outs[i].trace = messages[outs[i].origin[1]].trace
      BY <1>a, <2>2, <2>5, <2>7 DEF d
    <3> QED
      BY <2>1, <2>5, <2>7, <3>1, <3>2, InsertKeepsPlane
  <2>9. \A s \in Rows : s # r /\ deliveries[s].state = "claimed" =>
                          deliveries'[s].state = "claimed"
    <3> SUFFICES ASSUME NEW s \in Rows, s # r, deliveries[s].state = "claimed"
                 PROVE  deliveries'[s] = base[s]
      BY <2>7
    <3>1. s[1] <= Len(messages) /\ Len(messages) \in Nat /\ s[1] \in Nat
      BY RowParts DEF PlaneInv, RowsHaveMessages, StoreTypeOK
    <3> QED
      BY <2>1, <3>1 DEF InsertMessages
  <2> QED
    BY <1>a, <2>6, <2>8, <2>9, TakeResultKeeps
<1>2. CASE ApplyFailed(r)
  <2> DEFINE dead == deliveries[r].attempt >= PinnedDef(r).maxAttempts
             row  == [deliveries[r] EXCEPT
                        !.state = IF dead THEN "dead" ELSE "failed",
                        !.gate  = IF dead THEN "null" ELSE "closed",
                        !.pgid  = NoPid]
  <2>1. SetRow(r, row)
    BY <1>2 DEF ApplyFailed, FailDelivery
  <2> HIDE DEF dead
  <2>2. row \in Delivery /\ row.state \in {"dead", "failed"} /\ row.pgid = NoPid
    BY <1>b DEF Delivery, States
  <2>3. active' \in Int
    BY <1>2, <1>c DEF ApplyFailed
  <2>4. nudged' \in BOOLEAN
    BY <1>2 DEF ApplyFailed
  <2> HIDE DEF row
  <2>5. PlaneInv'
    BY <1>a, <2>1, <2>2, SetRowKeepsPlane
  <2>6. /\ versions' = versions
        /\ \A s \in Rows : s # r => deliveries'[s] = deliveries[s]
    BY <1>c, <2>1 DEF SetRow
  <2> QED
    BY <1>a, <2>3, <2>4, <2>5, <2>6, TakeResultKeeps
<1>3. CASE ApplyLost(r)
  <2>1. PlaneInv'
    BY <1>3, NoWriteKeepsPlane DEF ApplyLost
  <2>2. active' \in Int /\ nudged' \in BOOLEAN
    BY <1>3 DEF ApplyLost, SchedulerTypeOK
  <2>3. versions' = versions /\ deliveries' = deliveries
    BY <1>3 DEF ApplyLost, storeVars
  <2> QED
    BY <1>a, <2>1, <2>2, <2>3, TakeResultKeeps
<1> QED
  BY <1>1, <1>2, <1>3 DEF ApplyResult


\* The steps of a worker, and the passing of a gate.
LEMMA WorkersKeepInv ==
  ASSUME PlaneInv, MemInv, UNCHANGED apiVars, NEW r \in Rows,
         \/ \E p \in Pids : StartProcess(r, p)
         \/ SpawnFails(r) \/ PersistPgid(r) \/ PersistPgidFails(r)
         \/ TaskExits(r) \/ TimePasses(r)
  PROVE  PlaneInv' /\ MemInv'
<1> USE DEF MemInv
<1>a. ApiTypeOK'
  BY DEF ApiTypeOK, apiVars
<1>b. NoProcess \in Process /\ \A b \in BOOLEAN : [row |-> r, tracked |-> b] \in Process
  BY DEF NoProcess, Process
<1>c. deliveries \in [Rows -> Delivery] /\ deliveries[r] \in Delivery
  BY DEF PlaneInv, StoreTypeOK
<1>d. workers \in [Rows -> Worker] /\ workers[r] \in Worker /\ procs \in [Pids -> Process]
  BY DEF SchedulerTypeOK
<1>1. ASSUME NEW p \in Pids, StartProcess(r, p)
      PROVE  PlaneInv' /\ MemInv'
  <2>1. workers' \in [Rows -> Worker] /\ procs' \in [Pids -> Process]
    BY <1>1, <1>b, <1>d DEF StartProcess, Worker
  <2>2. SchedulerTypeOK' /\ SnapsExist'
    BY <1>1, <2>1 DEF StartProcess, SchedulerTypeOK, SnapsExist, storeVars
  <2>3. WorkersHoldClaims'
    BY <1>1, <1>d DEF StartProcess, Launched, WorkersHoldClaims, storeVars
  <2> QED
    BY <1>1, <1>a, <2>2, <2>3, NoWriteKeepsPlane DEF StartProcess
<1>2. CASE SpawnFails(r) \/ PersistPgidFails(r)
  <2> USE <1>2 DEF SpawnFails, PersistPgidFails
  <2>1. workers' \in [Rows -> Worker]
    BY <1>d DEF Worker
  <2>2. SchedulerTypeOK' /\ SnapsExist'
    BY <2>1 DEF SchedulerTypeOK, SnapsExist, storeVars
  <2>3. WorkersHoldClaims'
    BY <1>d DEF Launched, WorkersHoldClaims, storeVars
  <2> QED
    BY <1>a, <2>2, <2>3, NoWriteKeepsPlane
<1>3. CASE PersistPgid(r)
  <2> DEFINE row == [deliveries[r] EXCEPT
                       !.pgid = IF deliveries[r].state = "claimed" THEN workers[r].pid ELSE @]
  <2>1. SetRow(r, row) /\ deliveries[r].state = "claimed"
    BY <1>3 DEF PersistPgid, SetDeliveryPgid, WorkersHoldClaims
  <2>2. row \in Delivery /\ row.state = "claimed" /\ row.version = deliveries[r].version
    BY <1>c, <1>d, <2>1 DEF Delivery, States, Worker
  <2> HIDE DEF row
  <2>3. /\ deliveries[r].version \in 1..Len(versions[r[2]])
        /\ Vet(versions[r[2]][deliveries[r].version], messages[r[1]]) = "claim"
    BY <2>1 DEF PlaneInv, VersionsExist, ClaimsAreVetted, ClaimedDeliveries, InState, PinnedDef
  <2>4. PlaneInv'
    BY <2>1, <2>2, <2>3, SetRowKeepsPlane
  <2>5. workers' \in [Rows -> Worker]
    BY <1>3, <1>d DEF PersistPgid, Worker
  <2>6. procs' \in [Pids -> Process]
    BY <1>3, <1>d DEF PersistPgid, Process
  <2>7. SchedulerTypeOK' /\ SnapsExist'
    BY <1>3, <2>1, <2>5, <2>6 DEF PersistPgid, SetRow, SchedulerTypeOK, SnapsExist
  <2>8. WorkersHoldClaims'
    <3>1. \A s \in Rows : deliveries'[s].state = deliveries[s].state
      BY <1>c, <2>1, <2>2 DEF SetRow
    <3> QED
      BY <1>3, <1>d, <3>1 DEF PersistPgid, WorkersHoldClaims
  <2> QED
    BY <1>a, <2>4, <2>7, <2>8
<1>4. CASE TaskExits(r)
  <2>1. workers' \in [Rows -> Worker] /\ procs' \in [Pids -> Process]
    BY <1>4, <1>b, <1>d DEF TaskExits, Worker
  <2>2. SchedulerTypeOK' /\ SnapsExist'
    BY <1>4, <2>1 DEF TaskExits, SchedulerTypeOK, SnapsExist, storeVars
  <2>3. WorkersHoldClaims'
    BY <1>4, <1>d DEF TaskExits, WorkersHoldClaims, storeVars
  <2> QED
    BY <1>4, <1>a, <2>2, <2>3, NoWriteKeepsPlane DEF TaskExits
<1>5. CASE TimePasses(r)
  <2> DEFINE row == [deliveries[r] EXCEPT !.gate = "open"]
  <2>1. SetRow(r, row) /\ deliveries[r].state = "failed"
    BY <1>5 DEF TimePasses, GateOpens
  <2>2. /\ row \in Delivery /\ row.state = "failed"
        /\ row.pgid = deliveries[r].pgid
    BY <1>c, <2>1 DEF Delivery, States
  <2> HIDE DEF row
  <2>3. deliveries[r].pgid = NoPid
    BY <2>1 DEF PlaneInv, PgidOnlyWhileClaimed
  <2>4. PlaneInv'
    BY <2>1, <2>2, <2>3, SetRowKeepsPlane
  <2>5. \A s \in Rows : deliveries'[s].state = deliveries[s].state
    BY <1>c, <2>1, <2>2 DEF SetRow
  <2>6. SchedulerTypeOK' /\ SnapsExist' /\ WorkersHoldClaims'
    BY <1>5, <2>1, <2>5 DEF TimePasses, SetRow, schedVars, SchedulerTypeOK, SnapsExist,
                            WorkersHoldClaims
  <2> QED
    BY <1>a, <2>4, <2>6
<1> QED
  BY <1>1, <1>2, <1>3, <1>4, <1>5

\* A process whose daemon is gone ends.
LEMMA OrphanExitKeepsInv ==
  ASSUME PlaneInv, MemInv, UNCHANGED apiVars, NEW p \in Pids, OrphanExits(p)
  PROVE  PlaneInv' /\ MemInv'
<1>1. procs' \in [Pids -> Process]
  BY DEF OrphanExits, MemInv, SchedulerTypeOK, NoProcess, Process
<1>2. SchedulerTypeOK' /\ SnapsExist' /\ WorkersHoldClaims'
  BY <1>1 DEF OrphanExits, schedVars, storeVars, MemInv, SchedulerTypeOK, SnapsExist,
              WorkersHoldClaims
<1>3. ApiTypeOK'
  BY DEF MemInv, ApiTypeOK, apiVars
<1> QED
  BY <1>2, <1>3, NoWriteKeepsPlane DEF OrphanExits, MemInv

\* A new daemon resets one orphan.
LEMMA ReapKeepsInv ==
  ASSUME PlaneInv, MemInv, UNCHANGED apiVars, NEW r \in Rows, ReapOrphan(r)
  PROVE  PlaneInv' /\ MemInv'
<1> USE DEF MemInv
<1> DEFINE row == [deliveries[r] EXCEPT !.state = "failed", !.gate = "open", !.pgid = NoPid]
<1>a. /\ SetRow(r, row) /\ deliveries[r].state = "claimed"
      /\ phase = "reaping" /\ UNCHANGED schedVars
  BY DEF ReapOrphan, ResetOrphan
<1>b. deliveries \in [Rows -> Delivery]
  BY DEF PlaneInv, StoreTypeOK
<1>c. row \in Delivery /\ row.state = "failed" /\ row.pgid = NoPid
  BY <1>b DEF Delivery, States
<1> HIDE DEF row
<1>1. PlaneInv'
  BY <1>a, <1>c, SetRowKeepsPlane
<1>2. procs' \in [Pids -> Process]
  BY DEF ReapOrphan, KillGroupOf, SchedulerTypeOK, NoProcess, Process
<1>3. SchedulerTypeOK' /\ SnapsExist'
  BY <1>a, <1>2 DEF schedVars, SetRow, SchedulerTypeOK, SnapsExist
<1>4. WorkersHoldClaims'
  BY <1>a DEF schedVars, WorkersHoldClaims, Loop
<1>5. ApiTypeOK'
  BY DEF ApiTypeOK, apiVars
<1> QED
  BY <1>1, <1>3, <1>4, <1>5

\* The memory of the scheduler is not touched by a request that writes.
LEMMA RequestKeepsMemory ==
  ASSUME PlaneInv, MemInv, UNCHANGED <<schedVars, procs>>, ApiTypeOK',
         \A a \in Actions : Len(versions[a]) <= Len(versions'[a]),
         versions' \in [Actions -> Seq(Defs)],
         \A r \in Rows : deliveries[r].state = "claimed" => deliveries'[r].state = "claimed"
  PROVE  MemInv'
<1>1. SchedulerTypeOK'
  BY DEF MemInv, SchedulerTypeOK, schedVars
<1>2. SnapsExist'
  <2> SUFFICES ASSUME NEW a \in Actions
               PROVE  snap[a] <= Len(versions'[a])
    BY DEF SnapsExist, schedVars
  <2>1. snap[a] \in Nat /\ snap[a] <= Len(versions[a])
    BY DEF MemInv, SchedulerTypeOK, SnapsExist
  <2>2. Len(versions[a]) \in Nat /\ Len(versions'[a]) \in Nat
    BY DEF PlaneInv, StoreTypeOK
  <2> QED
    BY <2>1, <2>2
<1>3. WorkersHoldClaims'
  BY DEF MemInv, WorkersHoldClaims, schedVars
<1> QED
  BY <1>1, <1>2, <1>3 DEF MemInv

\* A handler may be given any well-formed request.
LEMMA HandlersKeepType ==
  ASSUME ApiTypeOK, NEW h \in Handlers, NEW req \in Request, SetHandler(h, req),
         UNCHANGED <<idle, boots>>
  PROVE  ApiTypeOK'
BY DEF ApiTypeOK, SetHandler

\* The requests handlers are given.
LEMMA RequestsTyped ==
  /\ NoRequest \in Request
  /\ \A R \in SUBSET Rows : [NoRequest EXCEPT !.op = "add", !.rows = R] \in Request
  /\ \A a \in Actions : [NoRequest EXCEPT !.op = "cancel", !.action = a] \in Request
<1>1. 1 \in Actions
  BY StoreAssumption DEF Actions
<1> QED
  BY <1>1 DEF NoRequest, Request

\* message.send.
LEMMA SendKeepsInv ==
  ASSUME PlaneInv, MemInv, NEW h \in Handlers, NEW q \in Queues, NEW p \in Payloads,
         MessageSend(h, q, p)
  PROVE  PlaneInv' /\ MemInv'
<1> DEFINE m == [queue |-> q, payload |-> p, hops |-> 0,
                 trace |-> Len(messages) + 1, origin |-> NoRow, originVersion |-> 0]
<1>1. Len(messages) \in Nat /\ deliveries \in [Rows -> Delivery]
      /\ versions \in [Actions -> Seq(Defs)]
  BY DEF PlaneInv, StoreTypeOK
<1>2. InsertMessages(<<m>>, q, deliveries)
  BY DEF MessageSend, AppendMessage
<1>3. m \in Message /\ m.origin = NoRow
  BY <1>1 DEF Message
<1> HIDE DEF m
<1>4. /\ <<m>> \in Seq(Message) /\ Len(<<m>>) = 1
      /\ \A i \in 1..Len(<<m>>) : <<m>>[i].origin = NoRow
  BY <1>3
<1>5. PlaneInv'
  <2>1. \A r \in Rows :
          /\ deliveries[r].pgid # NoPid => deliveries[r].state = "claimed"
    BY DEF PlaneInv, PgidOnlyWhileClaimed
  <2> DEFINE ms == <<m>>
  <2>2. /\ ms \in Seq(Message) /\ InsertMessages(ms, q, deliveries)
        /\ \A i \in 1..Len(ms) : ms[i].origin = NoRow
    BY <1>2, <1>4
  <2> HIDE DEF ms
  <2> QED
    BY <1>1, <2>1, <2>2, InsertKeepsPlane
<1>6. ApiTypeOK'
  <2> DEFINE new == {Len(messages) + 1} \X Subscribers(q)
  <2>1. CASE new = {}
    <3>1. SetHandler(h, NoRequest) /\ UNCHANGED <<idle, boots>>
      BY <2>1 DEF MessageSend
    <3> QED
      BY <3>1, RequestsTyped, HandlersKeepType DEF MemInv
  <2>2. CASE new # {}
    <3>1. Len(messages) + 1 \in MsgIds
      BY <1>1, <1>2, <1>4, StoreAssumption DEF InsertMessages, MsgIds
    <3>2. new \in SUBSET Rows
      BY <3>1 DEF Rows, Subscribers
    <3>3. SetHandler(h, [NoRequest EXCEPT !.op = "add", !.rows = new])
          /\ UNCHANGED <<idle, boots>>
      BY <2>2 DEF MessageSend
    <3> HIDE DEF new
    <3> QED
      BY <3>2, <3>3, RequestsTyped, HandlersKeepType DEF MemInv
  <2> QED
    BY <2>1, <2>2
<1>7. \A r \in Rows : deliveries[r].state = "claimed" => deliveries'[r].state = "claimed"
  <2> SUFFICES ASSUME NEW r \in Rows, deliveries[r].state = "claimed"
               PROVE  deliveries'[r] = deliveries[r]
    OBVIOUS
  <2>1. r[1] \in Nat /\ r[1] <= Len(messages)
    BY RowParts DEF PlaneInv, RowsHaveMessages
  <2> QED
    BY <1>1, <1>2, <2>1 DEF InsertMessages
<1>8. versions' = versions /\ UNCHANGED <<schedVars, procs>>
  BY <1>2 DEF InsertMessages, MessageSend
<1> QED
  BY <1>1, <1>5, <1>6, <1>7, <1>8, RequestKeepsMemory

\* delivery.replay.
LEMMA ReplayKeepsInv ==
  ASSUME PlaneInv, MemInv, NEW h \in Handlers, NEW r \in Rows, DeliveryReplay(h, r)
  PROVE  PlaneInv' /\ MemInv'
<1> DEFINE row == [deliveries[r] EXCEPT !.state = "pending", !.attempt = 0,
                                        !.version = 0, !.gate = "null"]
<1>1. deliveries[r].state = "dead" /\ SetRow(r, row)
  BY DEF DeliveryReplay, ReplayDelivery
<1>2. deliveries \in [Rows -> Delivery] /\ versions \in [Actions -> Seq(Defs)]
  BY DEF PlaneInv, StoreTypeOK
<1>3. row \in Delivery /\ row.state = "pending" /\ row.pgid = deliveries[r].pgid
  BY <1>2 DEF Delivery, States
<1>4. deliveries[r].pgid = NoPid
  BY <1>1 DEF PlaneInv, PgidOnlyWhileClaimed
<1> HIDE DEF row
<1>5. PlaneInv'
  BY <1>1, <1>3, <1>4, SetRowKeepsPlane
<1>6. {r} \in SUBSET Rows
  OBVIOUS
<1>7. ApiTypeOK'
  BY <1>6, RequestsTyped, HandlersKeepType DEF DeliveryReplay, MemInv
<1>8. \A s \in Rows : deliveries[s].state = "claimed" => deliveries'[s].state = "claimed"
  BY <1>1, <1>2 DEF SetRow
<1>9. versions' = versions /\ UNCHANGED <<schedVars, procs>>
  BY <1>1 DEF SetRow, DeliveryReplay
<1>10. \A a \in Actions : Len(versions[a]) <= Len(versions'[a])
  BY <1>2, <1>9
<1> QED
  BY <1>2, <1>5, <1>7, <1>8, <1>9, <1>10, RequestKeepsMemory

\* action.apply, action.enable and the commit of action.disable.
LEMMA ConfigKeepsInv ==
  ASSUME PlaneInv, MemInv,
         \/ \E d \in Defs : ActionApply(d)
         \/ \E a \in Actions : ActionEnable(a)
         \/ \E h \in Handlers, a \in Actions : ActionDisable(h, a)
  PROVE  PlaneInv' /\ MemInv'
<1>a. versions \in [Actions -> Seq(Defs)] /\ enabled \in [Actions -> BOOLEAN]
  BY DEF PlaneInv, StoreTypeOK
<1>1. ASSUME NEW d \in Defs, ActionApply(d)
      PROVE  PlaneInv' /\ MemInv'
  <2>1. d.name \in Actions
    BY StoreAssumption DEF Definition
  <2>2. PlaneInv' /\ \A b \in Actions : Len(versions[b]) <= Len(versions'[b])
    BY <1>1, <2>1, ApplyKeepsPlane DEF ActionApply
  <2>3. versions' \in [Actions -> Seq(Defs)] /\ deliveries' = deliveries
    BY <1>1, <2>2 DEF PlaneInv, StoreTypeOK, ActionApply, ApplyAction
  <2>4. ApiTypeOK' /\ UNCHANGED <<schedVars, procs>>
    BY <1>1 DEF ActionApply, MemInv, ApiTypeOK, apiVars
  <2> QED
    BY <2>2, <2>3, <2>4, RequestKeepsMemory
<1>2. ASSUME NEW a \in Actions, NEW on \in BOOLEAN, SetActionEnabled(a, on),
             ApiTypeOK', UNCHANGED <<schedVars, procs>>
      PROVE  PlaneInv' /\ MemInv'
  <2>1. enabled' \in [Actions -> BOOLEAN]
    BY <1>a, <1>2 DEF SetActionEnabled
  <2>2. versions' = versions /\ deliveries' = deliveries /\ messages' = messages
    BY <1>2 DEF SetActionEnabled
  <2>3. PlaneInv'
    BY <2>1, <2>2, FlagsKeepPlane
  <2>4. \A b \in Actions : Len(versions[b]) <= Len(versions'[b])
    BY <1>a, <2>2
  <2> QED
    BY <1>a, <1>2, <2>2, <2>3, <2>4, RequestKeepsMemory
<1>3. ASSUME NEW a \in Actions, ActionEnable(a)
      PROVE  PlaneInv' /\ MemInv'
  <2>1. ApiTypeOK' /\ UNCHANGED <<schedVars, procs>> /\ SetActionEnabled(a, TRUE)
    BY <1>3 DEF ActionEnable, MemInv, ApiTypeOK, apiVars
  <2> QED
    BY <1>2, <2>1
<1>4. ASSUME NEW h \in Handlers, NEW a \in Actions, ActionDisable(h, a)
      PROVE  PlaneInv' /\ MemInv'
  <2>1. UNCHANGED <<schedVars, procs>> /\ SetActionEnabled(a, FALSE)
    BY <1>4 DEF ActionDisable
  <2>2. ApiTypeOK'
    BY <1>4, RequestsTyped, HandlersKeepType DEF ActionDisable, MemInv
  <2> QED
    BY <1>2, <2>1, <2>2
<1> QED
  BY <1>1, <1>3, <1>4

\* WorkAdded, the end of a disable, and the reads of the idle tracker.
LEMMA RepliesKeepInv ==
  ASSUME PlaneInv, MemInv, NEW h \in Handlers,
         WorkAdded(h) \/ CancelAction(h) \/ CancelAbandoned(h)
  PROVE  PlaneInv' /\ MemInv'
<1> USE DEF MemInv
<1>a. handlers[h] \in Request /\ SetHandler(h, NoRequest) /\ UNCHANGED <<idle, boots>>
  BY DEF WorkAdded, CancelAction, CancelAbandoned, ApiTypeOK
<1>b. ApiTypeOK'
  BY <1>a, RequestsTyped, HandlersKeepType
<1>1. CASE WorkAdded(h)
  <2>1. Cardinality(handlers[h].rows) \in Nat
    BY <1>a, CountsAreNumbers DEF Request
  <2>2. active' \in Int /\ nudged' \in BOOLEAN
    BY <1>1, <2>1 DEF WorkAdded, SchedulerTypeOK
  <2>3. SchedulerTypeOK' /\ SnapsExist' /\ WorkersHoldClaims'
    BY <1>1, <2>2 DEF WorkAdded, SchedulerTypeOK, SnapsExist, WorkersHoldClaims, storeVars
  <2> QED
    BY <1>1, <1>b, <2>3, NoWriteKeepsPlane DEF WorkAdded
<1>2. CASE CancelAction(h)
  <2> DEFINE a == handlers[h].action
  <2>1. /\ HandleCtrl(a) /\ phase = "select" /\ phase' = "load"
        /\ UNCHANGED <<ctxDone, cursor, snap, inflight, nudged, workers, procs>>
    BY <1>2 DEF CancelAction, HandleCtrl, Wake
  <2>2. Cardinality(Cancellable(a)) \in Nat
    BY CountsAreNumbers DEF Cancellable, InState
  <2>3. active' \in Int
    BY <2>1, <2>2 DEF HandleCtrl, SchedulerTypeOK
  <2>4. SchedulerTypeOK'
    BY <2>1, <2>3 DEF SchedulerTypeOK, Loop
  <2>5. /\ PlaneInv' /\ versions' = versions
        /\ \A r \in Rows : deliveries[r].state = "claimed" => deliveries'[r].state = "claimed"
    <3>1. CASE CancelDeliveries(a)
      BY <3>1, CancelKeepsPlane DEF CancelDeliveries
    <3>2. CASE UNCHANGED storeVars
      BY <3>2, NoWriteKeepsPlane DEF storeVars
    <3> QED
      BY <2>1, <3>1, <3>2 DEF HandleCtrl
  <2>6. SnapsExist' /\ WorkersHoldClaims'
    BY <2>1, <2>5 DEF SnapsExist, WorkersHoldClaims, Loop
  <2> QED
    BY <1>b, <2>4, <2>5, <2>6
<1>3. CASE CancelAbandoned(h)
  <2>1. SchedulerTypeOK' /\ SnapsExist' /\ WorkersHoldClaims'
    BY <1>3 DEF CancelAbandoned, SchedulerTypeOK, SnapsExist, WorkersHoldClaims,
                storeVars, schedVars
  <2> QED
    BY <1>3, <1>b, <2>1, NoWriteKeepsPlane DEF CancelAbandoned
<1> QED
  BY <1>1, <1>2, <1>3

\* The daemon's life: idle tracker, stop, crash and start.
LEMMA LifeKeepsInv ==
  ASSUME PlaneInv, MemInv,
         \/ IdleReadsInFlight \/ IdleReadsBusy \/ StopScheduler
         \/ StopDaemon \/ Crash \/ StartDaemon
         \/ \E r \in Rows : CrashInReap(r)
  PROVE  PlaneInv' /\ MemInv'
<1> USE DEF MemInv
<1>a. PlaneInv' /\ UNCHANGED storeVars
  BY NoWriteKeepsPlane DEF IdleReadsInFlight, IdleReadsBusy, StopScheduler, StopDaemon,
     Drained, Crash, StartDaemon, Boot, CrashInReap, ReapInterrupted
<1>1. CASE IdleReadsInFlight \/ IdleReadsBusy
  <2>1. UNCHANGED <<schedVars, procs, handlers, boots>>
        /\ idle' \in {"watching", "quiet", "expired"}
    BY <1>1 DEF IdleReadsInFlight, IdleReadsBusy
  <2>2. ApiTypeOK'
    BY <2>1 DEF ApiTypeOK
  <2>3. SchedulerTypeOK' /\ SnapsExist' /\ WorkersHoldClaims'
    BY <1>a, <2>1 DEF SchedulerTypeOK, SnapsExist, WorkersHoldClaims, storeVars, schedVars
  <2> QED
    BY <1>a, <2>2, <2>3
<1>2. CASE StopScheduler
  <2>1. ApiTypeOK'
    BY <1>2 DEF StopScheduler, ApiTypeOK, apiVars
  <2>2. ctxDone' \in BOOLEAN
    BY <1>2 DEF StopScheduler
  <2>3. SchedulerTypeOK' /\ SnapsExist' /\ WorkersHoldClaims'
    BY <1>2, <1>a, <2>2 DEF StopScheduler, SchedulerTypeOK, SnapsExist, WorkersHoldClaims,
                            storeVars
  <2> QED
    BY <1>a, <2>1, <2>3
<1>3. CASE StopDaemon \/ Crash \/ \E r \in Rows : CrashInReap(r)
  <2>1. Forget /\ phase' \in Off /\ NoRequests /\ UNCHANGED boots
    BY <1>3 DEF StopDaemon, Drained, Crash, CrashInReap, ReapInterrupted, Off
  <2>2. procs' \in [Pids -> Process]
    <3>1. procs \in [Pids -> Process] /\ NoProcess \in Process
      BY DEF SchedulerTypeOK, NoProcess, Process
    <3>2. CASE StopDaemon \/ Crash
      BY <3>1, <3>2 DEF StopDaemon, Drained, Crash
    <3>3. ASSUME NEW r \in Rows, CrashInReap(r)
          PROVE  procs' \in [Pids -> Process]
      BY <3>1, <3>3 DEF CrashInReap, ReapInterrupted, KillGroupOf
    <3> QED
      BY <1>3, <3>2, <3>3
  <2>3. ApiTypeOK'
    BY <2>1, RequestsTyped DEF NoRequests, ApiTypeOK
  <2> QED
    BY <1>a, <2>1, <2>2, <2>3, ForgetKeepsMemory
<1>4. CASE StartDaemon
  <2>1. boots' \in 0..MaxBoots
    BY <1>4, SonataAssumption DEF StartDaemon, ApiTypeOK
  <2>2. ApiTypeOK'
    BY <1>4, <2>1 DEF StartDaemon, ApiTypeOK
  <2>3. SchedulerTypeOK' /\ SnapsExist'
    BY <1>4, <1>a DEF StartDaemon, Boot, SchedulerTypeOK, SnapsExist, storeVars
  <2>4. WorkersHoldClaims'
    BY <1>4 DEF StartDaemon, Boot, WorkersHoldClaims, Off, Loop
  <2> QED
    BY <1>a, <2>2, <2>3, <2>4
<1> QED
  BY <1>1, <1>2, <1>3, <1>4

\* A fresh database and no daemon satisfy the invariant.
LEMMA InitEstablishes == Init => InductiveInv
<1> SUFFICES ASSUME Init PROVE PlaneInv /\ MemInv
  BY InvParts
<1> USE DEF Init, StoreInit, SchedulerInit, ApiInit
<1>a. /\ NoDelivery \in Delivery /\ NoDelivery.state = "none" /\ NoDelivery.pgid = NoPid
      /\ NoWorker \in Worker /\ NoWorker.st = "none" /\ NoProcess \in Process
      /\ 1 \in Actions
  BY StoreAssumption DEF NoDelivery, Delivery, NoWorker, Worker, NoProcess, Process, Actions
<1>1. StoreTypeOK
  <2>1. enabled \in [Actions -> BOOLEAN] /\ versions \in [Actions -> Seq(Defs)]
    OBVIOUS
  <2>2. messages \in Seq(Message) /\ Len(messages) <= MaxMessages
    BY StoreAssumption
  <2>3. deliveries \in [Rows -> Delivery]
    BY <1>a
  <2> QED
    BY <2>1, <2>2, <2>3 DEF StoreTypeOK
<1>2. RowsHaveMessages /\ VersionsExist /\ OutputsHaveDoneOrigin /\ PgidOnlyWhileClaimed
  BY <1>a DEF RowsHaveMessages, VersionsExist, OutputsHaveDoneOrigin, PgidOnlyWhileClaimed
<1>3. ClaimsAreVetted
  BY <1>a DEF ClaimsAreVetted, ClaimedDeliveries, InState
<1>4. SchedulerTypeOK
  <2>1. ctxDone \in BOOLEAN /\ nudged \in BOOLEAN
    OBVIOUS
  <2>2. workers \in [Rows -> Worker] /\ procs \in [Pids -> Process] /\ cursor \in Actions
    BY <1>a
  <2>3. snap \in [Actions -> Nat] /\ inflight \in [Actions -> Int] /\ active \in Int
    OBVIOUS
  <2>4. phase \in Off
    BY DEF Off
  <2> QED
    BY <2>1, <2>2, <2>3, <2>4 DEF SchedulerTypeOK
<1>5. ApiTypeOK
  <2>1. handlers \in [Handlers -> Request]
    BY RequestsTyped
  <2>2. boots \in 0..MaxBoots /\ idle = "watching"
    BY SonataAssumption
  <2> QED
    BY <2>1, <2>2 DEF ApiTypeOK
<1>6. SnapsExist /\ WorkersHoldClaims
  BY <1>a DEF SnapsExist, WorkersHoldClaims
<1> QED
  BY <1>1, <1>2, <1>3, <1>4, <1>5, <1>6 DEF PlaneInv, MemInv

\* Every step of the system, and stuttering, preserves the invariant.
LEMMA NextPreserves == InductiveInv /\ [Next]_vars => InductiveInv'
<1> SUFFICES ASSUME PlaneInv, MemInv, [Next]_vars
             PROVE  PlaneInv' /\ MemInv'
  <2>1. InductiveInv' <=> PlaneInv' /\ MemInv'
    BY InvParts, PTL
  <2> QED
    BY <2>1, InvParts
<1>1. CASE InternalStep /\ UNCHANGED apiVars
  <2>1. CASE LoopStep
    BY <1>1, <2>1, MovesKeepInv, DispatchKeepsInv DEF LoopStep
  <2>2. CASE \E r \in Rows : ApplyResult(r) \/ WorkerStep(r) \/ TimePasses(r)
    BY <1>1, <2>2, ApplyKeepsInv, WorkersKeepInv DEF WorkerStep
  <2>3. CASE \E p \in Pids : OrphanExits(p)
    BY <1>1, <2>3, OrphanExitKeepsInv
  <2>4. CASE BeginDrain \/ ReapStep
    BY <1>1, <2>4, MovesKeepInv, ReapKeepsInv DEF ReapStep
  <2>5. CASE FaultStep
    BY <1>1, <2>5, MovesKeepInv, ApplyKeepsInv, WorkersKeepInv DEF FaultStep
  <2> QED
    BY <1>1, <2>1, <2>2, <2>3, <2>4, <2>5 DEF InternalStep
<1>2. CASE ClientStep
  BY <1>2, SendKeepsInv, ReplayKeepsInv, ConfigKeepsInv DEF ClientStep
<1>3. CASE ConfigStep
  BY <1>3, ConfigKeepsInv DEF ConfigStep
<1>4. CASE \E h \in Handlers : WorkAdded(h) \/ CancelAction(h) \/ CancelAbandoned(h)
  BY <1>4, RepliesKeepInv
<1>5. CASE \/ IdleReadsInFlight \/ IdleReadsBusy \/ StopScheduler
           \/ StopDaemon \/ Crash \/ StartDaemon
           \/ \E r \in Rows : CrashInReap(r)
  BY <1>5, LifeKeepsInv
<1>6. CASE UNCHANGED vars
  <2>1. PlaneInv'
    BY <1>6, NoWriteKeepsPlane DEF vars
  <2>2. MemInv'
    BY <1>6 DEF vars, storeVars, schedVars, apiVars, MemInv, SchedulerTypeOK, ApiTypeOK,
                SnapsExist, WorkersHoldClaims
  <2> QED
    BY <2>1, <2>2
<1> QED
  BY <1>1, <1>2, <1>3, <1>4, <1>5, <1>6 DEF Next

\* The inductive invariant holds in every state the system reaches.
THEOREM InductiveInvHolds == Spec => []InductiveInv
BY InitEstablishes, NextPreserves, PTL DEF Spec

\* Every table row, counter and request has its type, always.
THEOREM TypeCorrect == Spec => []TypeOK
<1>1. InductiveInv => TypeOK
  BY DEF InductiveInv
<1> QED
  BY <1>1, InductiveInvHolds, PTL

\* The transactional outbox: a message an action emitted always has as its
\* origin a delivery that is done, under the version it was claimed with, and
\* carries that version's queue and its input's trace, whatever crashes,
\* restarts, retries, lost writes and edits of actions do.
THEOREM OutboxHolds == Spec => []OutputsHaveDoneOrigin
<1>1. InductiveInv => OutputsHaveDoneOrigin
  BY DEF InductiveInv, PlaneInv
<1> QED
  BY <1>1, InductiveInvHolds, PTL

\* No delivery ever executes under a version that vet would not have let
\* through, although dispatch works from a snapshot that clients outdate.
THEOREM ClaimsVetted == Spec => []ClaimsAreVetted
<1>1. InductiveInv => ClaimsAreVetted
  BY DEF InductiveInv, PlaneInv
<1> QED
  BY <1>1, InductiveInvHolds, PTL

\* The process groups that ReapOrphans signals are those of claimed
\* deliveries, and no other row ever records one.
THEOREM PgidsAreOfClaims == Spec => []PgidOnlyWhileClaimed
<1>1. InductiveInv => PgidOnlyWhileClaimed
  BY DEF InductiveInv, PlaneInv
<1> QED
  BY <1>1, InductiveInvHolds, PTL

=============================================================================
