----------------------------- MODULE Identifiers -----------------------------
(***************************************************************************)
(* Identifiers as the order of the queue (store/id.go) and as the cursor   *)
(* of the keyset pages of delivery.list and message.list.                  *)
(*                                                                         *)
(*   now      the wall clock in milliseconds; it may be set back.          *)
(*   idState  the millisecond and the counter of the last identifier, in   *)
(*            the memory of the daemon.                                    *)
(*   rows     one action's deliveries in the order of their commits.  era: *)
(*            rows of different eras are separated by a start of a daemon  *)
(*            whose clock, before its first identifier, was not past all   *)
(*            of theirs.                                                   *)
(*   era      the current one.                                             *)
(*   next     the row NextEligible has returned to the loop, zero if none. *)
(*   reader   a client that pages through a list: the identifiers it has   *)
(*            seen, newest first, the ones there were when it began, and   *)
(*            whether it met the end.                                      *)
(***************************************************************************)
EXTENDS Integers, Sequences

CONSTANTS
  SeqMax,            \* 0x0fff, the largest value of the counter
  SeedMax,           \* 0x07ff, the largest it starts with in a millisecond
  TailMax,           \* the largest value of an identifier's random bits
  DefaultListLimit, MaxListLimit,
  MaxTime,           \* bound on the clock
  MaxAhead,          \* bound on the milliseconds that messages borrow
  MaxRows,           \* bound on the deliveries
  MaxUpsets          \* bound on restarts and settings of the clock, together

ASSUME IdentifiersAssumption ==
  /\ SeqMax \in Nat /\ SeedMax \in 0..SeqMax /\ TailMax \in Nat
  /\ DefaultListLimit \in Nat \ {0} /\ MaxListLimit \in Nat \ {0}
  /\ MaxTime \in Nat \ {0} /\ MaxAhead \in Nat /\ MaxRows \in Nat
  /\ MaxUpsets \in Nat

VARIABLES now, idState, rows, era, next, reader, upsets

vars == <<now, idState, rows, era, next, reader, upsets>>

Times == 1..MaxTime
Id    == [ms : Nat, seq : 0..SeqMax, tail : 0..TailMax]

\* "taken": claimed or ended.
Row == [id : Id, era : Nat, state : {"pending", "failed", "taken"}]

Rows == 1..Len(rows)

\* Identifiers stay within their fields; rows and reader have their types.
TypeOK ==
  /\ now \in Times
  /\ idState \in [ms : Nat, seq : 0..SeqMax]
  /\ rows \in Seq(Row)
  /\ era \in Nat
  /\ next \in 0..Len(rows)
  /\ reader \in [seen : Seq(Id), from : SUBSET Id, ended : BOOLEAN]
  /\ upsets \in 0..MaxUpsets

Init ==
  /\ now = 1
  /\ idState = [ms |-> 0, seq |-> 0]
  /\ rows = <<>>
  /\ era = 0
  /\ next = 0
  /\ reader = [seen |-> <<>>, from |-> {}, ended |-> FALSE]
  /\ upsets = 0

-----------------------------------------------------------------------------
(* NewID. *)

\* The order of the text of two identifiers: timestamp, counter, random bits.
Before(x, y) ==
  \/ x.ms < y.ms
  \/ x.ms = y.ms /\ x.seq < y.seq
  \/ x.ms = y.ms /\ x.seq = y.seq /\ x.tail < y.tail

\* Mutated form: the counter wraps around within its millisecond.
NewID_NoBorrow(seed) ==
  IF now <= idState.ms
  THEN [idState EXCEPT !.seq = (@ + 1) % (SeqMax + 1)]
  ELSE [ms |-> now, seq |-> seed]

\* Mutated form: the counter has no limit.
NewID_NoLimit(seed) ==
  IF now <= idState.ms
  THEN [idState EXCEPT !.seq = @ + 1]
  ELSE [ms |-> now, seq |-> seed]

\* The timestamp and the counter of the next identifier: count within the
\* millisecond already used, borrow the next one when the counter is full.
\* (The clock is read before the mutex is taken: a reading that is old by then
\* counts as a clock that was set back.)
NewID(seed) ==
  IF now <= idState.ms
  THEN IF idState.seq < SeqMax
       THEN [idState EXCEPT !.seq = @ + 1]
       ELSE [ms |-> idState.ms + 1, seq |-> 0]
  ELSE [ms |-> now, seq |-> seed]

Stamp(s, tail) == [ms |-> s.ms, seq |-> s.seq, tail |-> tail]

\* A message takes an identifier: NewID serves all tables.
StampMessage(seed) ==
  /\ idState.ms < now + MaxAhead
  /\ idState' = NewID(seed)
  /\ UNCHANGED <<now, rows, era, next, reader, upsets>>

\* A delivery takes its identifier inside the transaction that inserts it.
\* Random bits only tell apart what two daemons stamped alike.
InsertDelivery(seed, tail) ==
  /\ Len(rows) < MaxRows
  /\ idState' = NewID(seed)
  /\ tail > 0 => \E i \in Rows : rows[i].id = Stamp(idState', 0)
  /\ \A i \in Rows : rows[i].id # Stamp(idState', tail)
  /\ rows' = Append(rows, [id |-> Stamp(idState', tail), era |-> era, state |-> "pending"])
  /\ UNCHANGED <<now, era, next, reader, upsets>>

-----------------------------------------------------------------------------
(* The clock and the daemon's life. *)

\* The daemon has taken no identifier yet.
Fresh == idState.ms = 0

\* t is past every delivery's identifier.
Past(t) == \A i \in Rows : rows[i].id.ms < t

Tick ==
  /\ now < MaxTime
  /\ now' = now + 1
  /\ UNCHANGED <<idState, rows, era, next, reader, upsets>>

SetBack(t) ==
  /\ upsets < MaxUpsets
  /\ t < now
  /\ now' = t
  /\ era' = IF Fresh /\ ~Past(t) THEN era + 1 ELSE era
  /\ upsets' = upsets + 1
  /\ UNCHANGED <<idState, rows, next, reader>>

\* The daemon is gone, and idState with it, and another one starts.
Restart ==
  /\ upsets < MaxUpsets
  /\ upsets' = upsets + 1
  /\ idState' = [ms |-> 0, seq |-> 0]
  /\ era' = IF Past(now) THEN era ELSE era + 1
  /\ next' = 0
  /\ UNCHANGED <<now, rows, reader>>

-----------------------------------------------------------------------------
(* The queue. *)

\* Pending, or failed with a gate that has passed; RetryTimer has the time that
\* takes: here, due is any set of rows.
Eligible(i, due) == rows[i].state = "pending" \/ (rows[i].state = "failed" /\ i \in due)

\* Mutated form: the newest first.
IsNext_Newest(i, due) ==
  /\ Eligible(i, due)
  /\ \A j \in Rows : Eligible(j, due) => ~Before(rows[i].id, rows[j].id)

\* ORDER BY id LIMIT 1 over the eligible rows.
IsNext(i, due) ==
  /\ Eligible(i, due)
  /\ \A j \in Rows : Eligible(j, due) => ~Before(rows[j].id, rows[i].id)

NextEligible(i, due) ==
  /\ next = 0
  /\ IsNext(i, due)
  /\ next' = i
  /\ UNCHANGED <<now, idState, rows, era, reader, upsets>>

ClaimDelivery ==
  /\ next # 0
  /\ rows' = [rows EXCEPT ![next].state = "taken"]
  /\ next' = 0
  /\ UNCHANGED <<now, idState, era, reader, upsets>>

FailDelivery(i) ==
  /\ rows[i].state = "taken"
  /\ rows' = [rows EXCEPT ![i].state = "failed"]
  /\ UNCHANGED <<now, idState, era, next, reader, upsets>>

-----------------------------------------------------------------------------
(* Pages. *)

\* Mutated form: the row of the cursor is part of the next page.
Older_Inclusive(x) == {i \in Rows : ~Before(x, rows[i].id)}

\* The rows with id < x.
Older(x) == {i \in Rows : Before(rows[i].id, x)}

\* The limit a request asks for, as the store applies it.
Limit(n) == IF n <= 0 THEN DefaultListLimit
            ELSE IF n > MaxListLimit THEN MaxListLimit ELSE n

\* ORDER BY id DESC LIMIT limit over the rows of left.
IsPage(page, left, limit) ==
  LET listed == {page[k] : k \in 1..Len(page)}
  IN  /\ \A k, l \in 1..Len(page) : k < l => Before(rows[page[l]].id, rows[page[k]].id)
      /\ \A i \in left \ listed : /\ Len(page) = limit
                                  /\ \A j \in listed : Before(rows[i].id, rows[j].id)

\* One request of the reader: the Limit(n) newest rows below its cursor.
ReadPage(n) ==
  LET last == Len(reader.seen)
      left == IF last = 0 THEN Rows ELSE Older(reader.seen[last])
  IN  /\ ~reader.ended
      /\ \E size \in 0..Limit(n) : \E page \in [1..size -> left] :
           /\ IsPage(page, left, Limit(n))
           /\ reader' = [seen  |-> reader.seen \o [k \in 1..size |-> rows[page[k]].id],
                         from  |-> IF last = 0 THEN {rows[i].id : i \in Rows} ELSE reader.from,
                         ended |-> size = 0]
      /\ UNCHANGED <<now, idState, rows, era, next, upsets>>

-----------------------------------------------------------------------------

Next ==
  \/ Tick \/ Restart \/ ClaimDelivery
  \/ \E t \in Times : SetBack(t)
  \/ \E seed \in 0..SeedMax :
       \/ StampMessage(seed)
       \/ \E tail \in 0..TailMax : InsertDelivery(seed, tail)
  \/ \E i \in Rows : FailDelivery(i) \/ \E due \in SUBSET Rows : NextEligible(i, due)
  \/ \E n \in 0..(MaxListLimit + 1) : ReadPage(n)

Spec == Init /\ [][Next]_vars

-----------------------------------------------------------------------------
(* Properties. *)

\* Within an era, deliveries have identifiers that ascend in the order of their
\* commits, however the clock is set back, read late, or outrun by a counter
\* that is full, and across a restart: ORDER BY id is the order of arrival.
IdsAscend ==
  \A i, j \in Rows :
    i < j /\ rows[i].era = rows[j].era => Before(rows[i].id, rows[j].id)

\* A claim never overtakes a delivery of the same era that arrived earlier and
\* was never claimed, although the row to claim was chosen before others were
\* inserted or came due again.
OldestFirst ==
  [][\A i \in Rows :
       rows[i].state # "taken" /\ rows'[i].state = "taken" =>
         \A j \in 1..(i - 1) :
           rows[j].era = rows[i].era => rows[j].state # "pending"]_vars

\* A reader that pages to the end has seen every row there was when it began
\* exactly once, whatever is inserted meanwhile, also with older identifiers
\* after a restart, and whatever limits it asks for.
PagesAreExact ==
  /\ \A k, l \in 1..Len(reader.seen) : k < l => Before(reader.seen[l], reader.seen[k])
  /\ reader.ended =>
       \A x \in reader.from : \E k \in 1..Len(reader.seen) : reader.seen[k] = x

=============================================================================
