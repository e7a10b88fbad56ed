-------------------------- MODULE IdentifiersProofs --------------------------
(***************************************************************************)
(* The order of identifiers, of claims and of pages, for every width of    *)
(* the counter, every seed, every clock, and every number of rows and      *)
(* restarts.                                                               *)
(***************************************************************************)
EXTENDS Identifiers, TLAPS

\* An identifier is not past the state of the generator.
AtMost(x, s) == x.ms < s.ms \/ (x.ms = s.ms /\ x.seq <= s.seq)

\* Rows belong to eras begun so far, and every row of the current era is behind
\* the generator: behind the clock itself while the daemon has stamped nothing.
EraBehind ==
  \A i \in Rows :
    /\ rows[i].era <= era
    /\ rows[i].era = era => IF Fresh THEN rows[i].id.ms < now ELSE AtMost(rows[i].id, idState)

\* The row the loop is about to claim has no older one of its era waiting for
\* its first claim.
NextIsOldest ==
  next # 0 => \A j \in 1..(next - 1) :
                rows[j].era = rows[next].era => rows[j].state # "pending"

\* What a reader has seen descends.
SeenDescends ==
  \A k, l \in 1..Len(reader.seen) : k < l => Before(reader.seen[l], reader.seen[k])

\* What a reader has not seen yet is still there, below its cursor.
Seen(x) == \E k \in 1..Len(reader.seen) : reader.seen[k] = x

UnseenAreBelow ==
  \A x \in reader.from :
    \/ Seen(x)
    \/ /\ ~reader.ended
       /\ Len(reader.seen) > 0
       /\ Before(x, reader.seen[Len(reader.seen)])
       /\ \E i \in Rows : rows[i].id = x

IdsInv == TypeOK /\ EraBehind /\ IdsAscend /\ NextIsOldest /\ SeenDescends /\ UnseenAreBelow
-----------------------------------------------------------------------------
(* NewID. *)

\* The order of identifiers is transitive.
LEMMA BeforeTransitive ==
  ASSUME NEW x \in Id, NEW y \in Id, NEW z \in Id, Before(x, y), Before(y, z)
  PROVE  Before(x, z)
BY IdentifiersAssumption DEF Before, Id

\* Types of what identifiers are made of.
LEMMA RowTypes ==
  ASSUME TypeOK
  PROVE  /\ now \in Nat /\ now > 0
         /\ idState.ms \in Nat /\ idState.seq \in 0..SeqMax
         /\ Len(rows) \in Nat
         /\ \A i \in Rows : /\ rows[i] \in Row /\ rows[i].id \in Id /\ rows[i].era \in Nat
                            /\ rows[i].id.ms \in Nat /\ rows[i].id.seq \in 0..SeqMax
<1>1. /\ now \in Nat /\ now > 0
      /\ idState.ms \in Nat /\ idState.seq \in 0..SeqMax
  BY IdentifiersAssumption DEF TypeOK, Times
<1>2. rows \in Seq(Row) /\ Len(rows) \in Nat
  BY DEF TypeOK
<1>3. \A i \in Rows : rows[i] \in Row
  BY <1>2 DEF Rows
<1>4. \A r \in Row : /\ r.id \in Id /\ r.era \in Nat
                     /\ r.id.ms \in Nat /\ r.id.seq \in 0..SeqMax
  BY DEF Row, Id
<1> QED
  BY <1>1, <1>2, <1>3, <1>4

\* The next identifier is past the generator, and past the clock of a daemon
\* that has stamped nothing.
LEMMA NewIdAdvances ==
  ASSUME TypeOK, NEW seed \in 0..SeedMax
  PROVE  /\ NewID(seed) \in [ms : Nat, seq : 0..SeqMax]
         /\ NewID(seed).ms > 0
         /\ Fresh => NewID(seed).ms = now
         /\ \/ idState.ms < NewID(seed).ms
            \/ idState.ms = NewID(seed).ms /\ idState.seq < NewID(seed).seq
<1>1. now \in Nat /\ now > 0 /\ idState \in [ms : Nat, seq : 0..SeqMax]
  BY RowTypes DEF TypeOK
<1>2. CASE now <= idState.ms /\ idState.seq < SeqMax
  <2>1. NewID(seed) = [idState EXCEPT !.seq = @ + 1]
    BY <1>2 DEF NewID
  <2> QED
    BY <1>1, <1>2, <2>1, IdentifiersAssumption DEF Fresh
<1>3. CASE now <= idState.ms /\ ~(idState.seq < SeqMax)
  <2>1. NewID(seed) = [ms |-> idState.ms + 1, seq |-> 0]
    BY <1>3 DEF NewID
  <2> QED
    BY <1>1, <1>3, <2>1, IdentifiersAssumption DEF Fresh
<1>4. CASE ~(now <= idState.ms)
  <2>1. NewID(seed) = [ms |-> now, seq |-> seed]
    BY <1>4 DEF NewID
  <2> QED
    BY <1>1, <1>4, <2>1, IdentifiersAssumption DEF Fresh
<1> QED
  BY <1>2, <1>3, <1>4

\* It is therefore past every row of the era.
LEMMA NewIdIsNewest ==
  ASSUME TypeOK, EraBehind, NEW seed \in 0..SeedMax, NEW i \in Rows, rows[i].era = era
  PROVE  \/ rows[i].id.ms < NewID(seed).ms
         \/ rows[i].id.ms = NewID(seed).ms /\ rows[i].id.seq < NewID(seed).seq
<1> DEFINE s == NewID(seed)
<1>1. /\ s.ms \in Nat /\ s.seq \in Int /\ (Fresh => s.ms = now)
      /\ idState.ms < s.ms \/ (idState.ms = s.ms /\ idState.seq < s.seq)
  BY NewIdAdvances, IdentifiersAssumption
<1>2. /\ idState.ms \in Nat /\ idState.seq \in Int /\ now \in Nat
      /\ rows[i].id.ms \in Nat /\ rows[i].id.seq \in Int
  BY RowTypes, IdentifiersAssumption
<1>3. IF Fresh THEN rows[i].id.ms < now ELSE AtMost(rows[i].id, idState)
  BY DEF EraBehind
<1> HIDE DEF s
<1>4. rows[i].id.ms < s.ms \/ (rows[i].id.ms = s.ms /\ rows[i].id.seq < s.seq)
  BY <1>1, <1>2, <1>3 DEF AtMost
<1> QED
  BY <1>4 DEF s

-----------------------------------------------------------------------------
(* Steps. *)

\* Rows keep their identifiers and their eras, whatever becomes of their states.
SameIds ==
  /\ rows' \in Seq(Row) /\ Len(rows') = Len(rows)
  /\ \A i \in Rows : rows'[i].id = rows[i].id /\ rows'[i].era = rows[i].era

\* Then the order of the rows and what the reader knows of them stand.
LEMMA SameIdsKeep ==
  ASSUME IdsInv, SameIds
  PROVE  /\ IdsAscend'
         /\ reader' = reader => SeenDescends' /\ UnseenAreBelow'
         /\ UNCHANGED <<now, idState, era>> => EraBehind'
<1>1. Rows' = Rows
  BY DEF SameIds, Rows
<1>2. IdsAscend'
  BY <1>1 DEF SameIds, IdsInv, IdsAscend
<1>3. ASSUME reader' = reader PROVE SeenDescends' /\ UnseenAreBelow'
  BY <1>1, <1>3 DEF SameIds, IdsInv, SeenDescends, UnseenAreBelow, Seen
<1>4. ASSUME UNCHANGED <<now, idState, era>> PROVE EraBehind'
  BY <1>1, <1>4 DEF SameIds, IdsInv, EraBehind, Fresh, AtMost
<1> QED
  BY <1>2, <1>3, <1>4

\* The clock, a message's identifier, and a restart.
LEMMA ClockKeepsInv ==
  ASSUME IdsInv,
         \/ Tick \/ Restart
         \/ \E t \in Times : SetBack(t)
         \/ \E seed \in 0..SeedMax : StampMessage(seed)
  PROVE  IdsInv'
<1>1. rows' = rows /\ reader' = reader /\ (next' = next \/ next' = 0)
  BY DEF Tick, Restart, SetBack, StampMessage
<1>2. TypeOK /\ EraBehind /\ SameIds /\ Rows' = Rows
  BY <1>1 DEF IdsInv, TypeOK, SameIds, Rows
<1>3. NextIsOldest'
  BY <1>1 DEF IdsInv, NextIsOldest
<1>4. era \in Nat
  BY <1>2 DEF TypeOK
<1>5. CASE Tick
  <2>1. now' = now + 1 /\ now < MaxTime /\ UNCHANGED <<idState, era, next, upsets>>
    BY <1>5 DEF Tick
  <2>2. TypeOK'
    BY <1>1, <1>2, <2>1, IdentifiersAssumption DEF TypeOK, Times
  <2>3. EraBehind'
    <3> SUFFICES ASSUME NEW i \in Rows, rows[i].era = era, Fresh
                 PROVE  rows[i].id.ms < now + 1
      BY <1>1, <1>2, <2>1 DEF EraBehind, Fresh, AtMost
    <3>1. rows[i].id.ms < now /\ rows[i].id.ms \in Nat /\ now \in Nat
      BY <1>2, RowTypes DEF EraBehind
    <3> QED
      BY <3>1
  <2> QED
    BY <1>1, <1>2, <1>3, <2>2, <2>3, SameIdsKeep DEF IdsInv
<1>6. CASE Restart
  <2>1. /\ idState' = [ms |-> 0, seq |-> 0] /\ era' = IF Past(now) THEN era ELSE era + 1
        /\ upsets < MaxUpsets /\ upsets' = upsets + 1 /\ next' = 0 /\ now' = now
    BY <1>6 DEF Restart
  <2>2. TypeOK'
    BY <1>1, <1>2, <2>1, IdentifiersAssumption DEF TypeOK
  <2>3. Fresh'
    BY <2>1 DEF Fresh
  <2>4. EraBehind'
    <3> SUFFICES ASSUME NEW i \in Rows
                 PROVE  rows[i].era <= era' /\ (rows[i].era = era' => rows[i].id.ms < now)
      BY <1>1, <1>2, <2>1, <2>3 DEF EraBehind
    <3>1. rows[i].era <= era /\ rows[i].era \in Nat
      BY <1>2, RowTypes DEF EraBehind
    <3> QED
      BY <1>4, <2>1, <3>1 DEF Past
  <2> QED
    BY <1>1, <1>2, <1>3, <2>2, <2>4, SameIdsKeep DEF IdsInv
<1>7. ASSUME NEW t \in Times, SetBack(t)
      PROVE  IdsInv'
  <2>1. /\ now' = t /\ era' = IF Fresh /\ ~Past(t) THEN era + 1 ELSE era
        /\ upsets < MaxUpsets /\ upsets' = upsets + 1 /\ UNCHANGED <<idState, next>>
    BY <1>7 DEF SetBack
  <2>2. TypeOK'
    BY <1>1, <1>2, <2>1, IdentifiersAssumption DEF TypeOK
  <2>3. EraBehind'
    <3> SUFFICES ASSUME NEW i \in Rows
                 PROVE  /\ rows[i].era <= era'
                        /\ rows[i].era = era' => IF Fresh THEN rows[i].id.ms < t
                                                 ELSE AtMost(rows[i].id, idState)
      BY <1>1, <1>2, <2>1 DEF EraBehind, Fresh, AtMost
    <3>1. /\ rows[i].era <= era /\ rows[i].era \in Nat
          /\ rows[i].era = era /\ ~Fresh => AtMost(rows[i].id, idState)
      BY <1>2, RowTypes DEF EraBehind
    <3> QED
      BY <1>4, <2>1, <3>1 DEF Past
  <2> QED
    BY <1>1, <1>2, <1>3, <2>2, <2>3, SameIdsKeep DEF IdsInv
<1>8. ASSUME NEW seed \in 0..SeedMax, StampMessage(seed)
      PROVE  IdsInv'
  <2>1. idState' = NewID(seed) /\ UNCHANGED <<now, era, next, upsets>>
    BY <1>8 DEF StampMessage
  <2>2. TypeOK'
    BY <1>1, <1>2, <2>1, NewIdAdvances DEF TypeOK
  <2>3. ~Fresh'
    BY <1>2, <2>1, NewIdAdvances DEF Fresh
  <2>4. EraBehind'
    <3> SUFFICES ASSUME NEW i \in Rows
                 PROVE  rows[i].era <= era /\ (rows[i].era = era => AtMost(rows[i].id, NewID(seed)))
      BY <1>1, <1>2, <2>1, <2>3 DEF EraBehind, AtMost
    <3>1. rows[i].id.seq \in Int /\ NewID(seed).seq \in Int
      BY <1>2, RowTypes, NewIdAdvances, IdentifiersAssumption
    <3> QED
      BY <1>2, <3>1, NewIdIsNewest DEF EraBehind, AtMost
  <2> QED
    BY <1>1, <1>2, <1>3, <2>2, <2>4, SameIdsKeep DEF IdsInv
<1> QED
  BY <1>5, <1>6, <1>7, <1>8

\* A delivery is inserted.
LEMMA InsertKeepsInv ==
  ASSUME IdsInv, NEW seed \in 0..SeedMax, NEW tail \in 0..TailMax, InsertDelivery(seed, tail)
  PROVE  IdsInv'
<1> DEFINE s == NewID(seed)
           n == [id |-> Stamp(s, tail), era |-> era, state |-> "pending"]
<1>1. /\ idState' = s /\ rows' = Append(rows, n)
      /\ UNCHANGED <<now, era, next, reader, upsets>>
  BY DEF InsertDelivery
<1>2. TypeOK /\ EraBehind
  BY DEF IdsInv
<1>3. /\ s \in [ms : Nat, seq : 0..SeqMax] /\ s.ms > 0 /\ s.seq \in Int
  BY <1>2, NewIdAdvances, IdentifiersAssumption
<1>4. \A i \in Rows : rows[i].era = era =>
        rows[i].id.ms < s.ms \/ (rows[i].id.ms = s.ms /\ rows[i].id.seq < s.seq)
  BY <1>2, NewIdIsNewest
<1> HIDE DEF s
<1>5. /\ n \in Row /\ n.era = era /\ n.id.ms = s.ms /\ n.id.seq = s.seq
  BY <1>2, <1>3 DEF Row, Id, Stamp, TypeOK
<1> HIDE DEF n
<1>6. rows \in Seq(Row) /\ Len(rows) \in Nat
  BY <1>2 DEF TypeOK
<1>7. /\ rows' \in Seq(Row) /\ Len(rows') = Len(rows) + 1
      /\ \A i \in Rows : rows'[i] = rows[i]
      /\ rows'[Len(rows) + 1] = n
      /\ Rows' = 1..(Len(rows) + 1)
  BY <1>1, <1>5, <1>6 DEF Rows
<1>8. TypeOK'
  <2>1. next \in 0..(Len(rows) + 1)
    BY <1>2, <1>6 DEF TypeOK
  <2> QED
    BY <1>1, <1>2, <1>3, <1>7, <2>1 DEF TypeOK
<1>9. \A i \in Rows' : i \in Rows \/ i = Len(rows) + 1
  BY <1>6, <1>7 DEF Rows
<1>10. EraBehind'
  <2>0. ~Fresh'
    BY <1>1, <1>3 DEF Fresh
  <2> SUFFICES ASSUME NEW i \in Rows'
               PROVE  /\ rows'[i].era <= era
                      /\ rows'[i].era = era => AtMost(rows'[i].id, s)
    BY <1>1, <2>0 DEF EraBehind, AtMost
  <2>1. CASE i \in Rows
    <3>1. rows[i].id.seq \in Int
      BY <1>2, <2>1, RowTypes, IdentifiersAssumption
    <3> QED
      BY <1>2, <1>3, <1>4, <1>7, <2>1, <3>1 DEF EraBehind, AtMost
  <2>2. CASE i = Len(rows) + 1
    BY <1>2, <1>3, <1>5, <1>7, <2>2 DEF AtMost, TypeOK
  <2> QED
    BY <1>9, <2>1, <2>2
<1>11. IdsAscend'
  <2> SUFFICES ASSUME NEW i \in Rows', NEW j \in Rows', i < j, rows'[i].era = rows'[j].era
               PROVE  Before(rows'[i].id, rows'[j].id)
    BY DEF IdsAscend
  <2>1. CASE j \in Rows
    <3>1. i \in Rows
      BY <1>6, <1>7, <2>1 DEF Rows
    <3> QED
      BY <1>7, <2>1, <3>1 DEF IdsInv, IdsAscend
  <2>2. CASE j = Len(rows) + 1
    <3>1. i \in Rows
      BY <1>6, <1>7, <2>2 DEF Rows
    <3>2. rows[i].id.ms < n.id.ms \/ (rows[i].id.ms = n.id.ms /\ rows[i].id.seq < n.id.seq)
      BY <1>4, <1>5, <1>7, <2>2, <3>1
    <3> QED
      BY <1>7, <2>2, <3>1, <3>2 DEF Before
  <2> QED
    BY <1>9, <2>1, <2>2
<1>12. NextIsOldest'
  <2> SUFFICES ASSUME next # 0, NEW j \in 1..(next - 1), rows'[j].era = rows'[next].era
               PROVE  rows'[j].state # "pending"
    BY <1>1 DEF NextIsOldest
  <2>1. next \in Rows /\ j \in Rows
    BY <1>2, <1>6 DEF TypeOK, Rows
  <2> QED
    BY <1>7, <2>1 DEF IdsInv, NextIsOldest
<1>13. SeenDescends'
  BY <1>1 DEF IdsInv, SeenDescends
<1>14. UnseenAreBelow'
  <2>1. \A x : (\E i \in Rows : rows[i].id = x) => \E i \in Rows' : rows'[i].id = x
    <3>1. Rows \subseteq Rows'
      BY <1>6, <1>7 DEF Rows
    <3> QED
      BY <1>7, <3>1
  <2> QED
    BY <1>1, <2>1 DEF IdsInv, UnseenAreBelow, Seen
<1> QED
  BY <1>8, <1>10, <1>11, <1>12, <1>13, <1>14 DEF IdsInv

\* A row's state changes: it is claimed, or its execution fails.
LEMMA RowsKeepInv ==
  ASSUME IdsInv, ClaimDelivery \/ \E i \in Rows : FailDelivery(i)
  PROVE  IdsInv'
<1>1. TypeOK /\ rows \in Seq(Row) /\ Len(rows) \in Nat
  BY DEF IdsInv, TypeOK
<1>2. PICK i \in Rows, new \in {"taken", "failed"} :
        /\ rows' = [rows EXCEPT ![i].state = new] /\ (next' = next \/ next' = 0)
        /\ UNCHANGED <<now, idState, era, reader, upsets>>
  <2>1. CASE ClaimDelivery
    <3>1. next \in Rows
      BY <1>1, <2>1 DEF ClaimDelivery, TypeOK, Rows
    <3> QED
      BY <2>1, <3>1 DEF ClaimDelivery
  <2>2. CASE \E i \in Rows : FailDelivery(i)
    BY <2>2 DEF FailDelivery
  <2> QED
    BY <2>1, <2>2
<1>3. /\ rows' \in Seq(Row) /\ Len(rows') = Len(rows)
      /\ \A j \in Rows : /\ rows'[j].id = rows[j].id /\ rows'[j].era = rows[j].era
                         /\ rows'[j].state = IF j = i THEN new ELSE rows[j].state
  <2>1. [rows[i] EXCEPT !.state = new] \in Row
    BY <1>1, <1>2, RowTypes DEF Row
  <2>2. rows' = [rows EXCEPT ![i] = [rows[i] EXCEPT !.state = new]]
    BY <1>2
  <2>3. rows' \in Seq(Row) /\ Len(rows') = Len(rows)
        /\ \A j \in Rows : rows'[j] = IF j = i THEN [rows[i] EXCEPT !.state = new] ELSE rows[j]
    BY <1>1, <1>2, <2>1, <2>2 DEF Rows
  <2>4. rows[i] \in Row
    BY <1>1, RowTypes
  <2> QED
    BY <2>3, <2>4 DEF Row
<1>4. SameIds
  BY <1>3 DEF SameIds
<1>5. TypeOK'
  BY <1>1, <1>2, <1>3 DEF TypeOK
<1>6. NextIsOldest'
  <2> SUFFICES ASSUME next # 0, next' = next, NEW j \in 1..(next - 1),
                      rows'[j].era = rows'[next].era
               PROVE  rows'[j].state # "pending"
    BY <1>2 DEF NextIsOldest
  <2>1. next \in Rows /\ j \in Rows
    BY <1>1 DEF TypeOK, Rows
  <2> QED
    BY <1>2, <1>3, <2>1 DEF IdsInv, NextIsOldest
<1> QED
  BY <1>2, <1>4, <1>5, <1>6, SameIdsKeep DEF IdsInv

\* The loop chooses the row to claim.
LEMMA ChoiceKeepsInv ==
  ASSUME IdsInv, NEW i \in Rows, NEW due \in SUBSET Rows, NextEligible(i, due)
  PROVE  IdsInv'
<1>1. next' = i /\ IsNext(i, due) /\ UNCHANGED <<now, idState, rows, era, reader, upsets>>
  BY DEF NextEligible
<1>2. TypeOK /\ IdsAscend /\ Len(rows) \in Nat /\ Rows = 1..Len(rows)
  BY DEF IdsInv, TypeOK, Rows
<1>3. SameIds
  BY <1>1, <1>2 DEF SameIds, TypeOK
<1>4. TypeOK'
  BY <1>1, <1>2 DEF TypeOK
<1>5. NextIsOldest'
  <2> SUFFICES ASSUME NEW j \in 1..(i - 1), rows[j].era = rows[i].era, rows[j].state = "pending"
               PROVE  FALSE
    BY <1>1 DEF NextIsOldest
  <2>1. j \in Rows /\ j < i
    BY <1>2
  <2>2. Before(rows[j].id, rows[i].id)
    BY <1>2, <2>1 DEF IdsAscend
  <2>3. ~Before(rows[j].id, rows[i].id)
    BY <1>1, <2>1 DEF IsNext, Eligible
  <2> QED
    BY <2>2, <2>3
<1> QED
  BY <1>1, <1>3, <1>4, <1>5, SameIdsKeep DEF IdsInv

\* A limit is positive.
LEMMA LimitIsPositive == \A n \in Nat : Limit(n) \in Nat /\ Limit(n) > 0
BY IdentifiersAssumption DEF Limit

\* The positions of a sequence that is extended by another one.
LEMMA Positions ==
  ASSUME NEW a \in Nat, NEW b \in Nat
  PROVE  /\ \A k \in 1..a : k \in 1..(a + b)
         /\ \A m \in 1..b : a + m \in 1..(a + b) /\ a + m > a
         /\ \A k \in 1..(a + b) : k \in 1..a \/ \E m \in 1..b : k = a + m
<1>1. ASSUME NEW k \in 1..(a + b), k \notin 1..a
      PROVE  \E m \in 1..b : k = a + m
  <2>1. k - a \in 1..b /\ k = a + (k - a)
    BY <1>1
  <2> QED
    BY <2>1
<1> QED
  BY <1>1

\* A concatenation, position by position.
LEMMA Extended ==
  ASSUME NEW s \in Seq(Id), NEW t \in Seq(Id)
  PROVE  /\ s \o t \in Seq(Id) /\ Len(s \o t) = Len(s) + Len(t)
         /\ \A k \in 1..Len(s) : (s \o t)[k] = s[k]
         /\ \A m \in 1..Len(t) : (s \o t)[Len(s) + m] = t[m]
<1>1. s \o t \in Seq(Id) /\ Len(s) \in Nat /\ Len(t) \in Nat
  OBVIOUS
<1>2. Len(s \o t) = Len(s) + Len(t)
  OBVIOUS
<1>3. \A k \in 1..Len(s) : (s \o t)[k] = s[k]
  OBVIOUS
<1>4. ASSUME NEW m \in 1..Len(t)
      PROVE  (s \o t)[Len(s) + m] = t[m]
  <2>1. Len(s) + m \in 1..(Len(s) + Len(t)) /\ ~(Len(s) + m <= Len(s)) /\ (Len(s) + m) - Len(s) = m
    BY <1>1
  <2> QED
    BY <2>1
<1> QED
  BY <1>1, <1>2, <1>3, <1>4

\* A page is read.
LEMMA PageKeepsInv ==
  ASSUME IdsInv, NEW n \in 0..(MaxListLimit + 1), ReadPage(n)
  PROVE  IdsInv'
<1> DEFINE last == Len(reader.seen)
           left == IF last = 0 THEN Rows ELSE Older(reader.seen[last])
<1>0. PICK size \in 0..Limit(n) : \E page \in [1..size -> left] :
        /\ IsPage(page, left, Limit(n))
        /\ reader' = [seen  |-> reader.seen \o [k \in 1..size |-> rows[page[k]].id],
                      from  |-> IF last = 0 THEN {rows[i].id : i \in Rows} ELSE reader.from,
                      ended |-> size = 0]
  BY DEF ReadPage
<1>1. PICK page \in [1..size -> left] :
        /\ IsPage(page, left, Limit(n))
        /\ reader' = [seen  |-> reader.seen \o [k \in 1..size |-> rows[page[k]].id],
                      from  |-> IF last = 0 THEN {rows[i].id : i \in Rows} ELSE reader.from,
                      ended |-> size = 0]
  BY <1>0
<1>2. ~reader.ended /\ UNCHANGED <<now, idState, rows, era, next, upsets>>
  BY DEF ReadPage
<1>3. Limit(n) \in Nat /\ Limit(n) > 0 /\ size \in Nat
  BY LimitIsPositive, IdentifiersAssumption
<1>4. /\ TypeOK /\ reader.seen \in Seq(Id) /\ last \in Nat
      /\ \A i \in Rows : rows[i].id \in Id
  BY RowTypes DEF IdsInv, TypeOK
<1>5. left \subseteq Rows /\ Rows' = Rows
  BY <1>2 DEF Older, Rows
<1> DEFINE ids == [k \in 1..size |-> rows[page[k]].id]
<1>6. /\ Len(page) = size /\ ids \in Seq(Id) /\ Len(ids) = size
      /\ \A k \in 1..size : page[k] \in left /\ ids[k] = rows[page[k]].id /\ ids[k] \in Id
  <2>1. \A k \in 1..size : page[k] \in left /\ rows[page[k]].id \in Id
    BY <1>4, <1>5
  <2>2. page \in Seq(left) /\ Len(page) = size
    BY <1>3
  <2> QED
    BY <1>3, <2>1, <2>2
<1> HIDE DEF ids
<1>7. /\ reader'.seen = reader.seen \o ids
      /\ reader'.from = IF last = 0 THEN {rows[i].id : i \in Rows} ELSE reader.from
      /\ reader'.ended = (size = 0)
  BY <1>1 DEF ids
<1>8. /\ Len(reader'.seen) = last + size
      /\ \A k \in 1..last : reader'.seen[k] = reader.seen[k]
      /\ \A m \in 1..size : reader'.seen[last + m] = ids[m]
      /\ reader'.seen \in Seq(Id)
  <2> DEFINE s == reader.seen
  <2>1. s \in Seq(Id) /\ ids \in Seq(Id) /\ Len(ids) = size /\ reader'.seen = s \o ids
    BY <1>4, <1>6, <1>7
  <2> HIDE DEF s
  <2>2. /\ s \o ids \in Seq(Id) /\ Len(s \o ids) = Len(s) + Len(ids)
        /\ \A k \in 1..Len(s) : (s \o ids)[k] = s[k]
        /\ \A m \in 1..Len(ids) : (s \o ids)[Len(s) + m] = ids[m]
    BY <2>1, Extended
  <2>3. /\ Len(s \o ids) = Len(s) + size
        /\ \A k \in 1..Len(s) : (s \o ids)[k] = s[k]
        /\ \A m \in 1..size : (s \o ids)[Len(s) + m] = ids[m]
        /\ s \o ids \in Seq(Id)
    BY <2>1, <2>2, Zenon
  <2> QED
    BY <2>1, <2>3, Zenon DEF s
<1>p. /\ \A k \in 1..last : k \in 1..(last + size)
      /\ \A m \in 1..size : last + m \in 1..(last + size) /\ last + m > last
      /\ \A k \in 1..(last + size) : k \in 1..last \/ \E m \in 1..size : k = last + m
  BY <1>3, <1>4, Positions
<1>9. \A i \in left : \/ \E k \in 1..size : ids[k] = rows[i].id
                      \/ size = Limit(n) /\ \A k \in 1..size : Before(rows[i].id, ids[k])
  <2> DEFINE listed == {page[k] : k \in 1..Len(page)}
  <2>1. ASSUME NEW i \in left, i \notin listed
        PROVE  size = Limit(n) /\ \A j \in listed : Before(rows[i].id, rows[j].id)
    BY <1>1, <1>6, <2>1 DEF IsPage
  <2>2. \A k \in 1..size : page[k] \in listed /\ ids[k] = rows[page[k]].id
    BY <1>6
  <2>3. \A i \in listed : \E k \in 1..size : ids[k] = rows[i].id
    BY <1>6
  <2> HIDE DEF listed, left
  <2> QED
    BY <2>1, <2>2, <2>3
<1>10. \A k, l \in 1..size : k < l => Before(ids[l], ids[k])
  BY <1>1, <1>6 DEF IsPage
<1>11. last # 0 => \A k \in 1..size : Before(ids[k], reader.seen[last])
  BY <1>6 DEF Older
<1>12. TypeOK'
  <2>1. reader'.from \subseteq Id
    BY <1>4, <1>7 DEF TypeOK
  <2>2. reader' \in [seen : Seq(Id), from : SUBSET Id, ended : BOOLEAN]
    BY <1>1, <1>7, <1>8, <2>1
  <2> QED
    BY <1>2, <1>4, <2>2 DEF TypeOK
<1>13. SeenDescends'
  <2> SUFFICES ASSUME NEW k \in 1..(last + size), NEW l \in 1..(last + size), k < l
               PROVE  Before(reader'.seen[l], reader'.seen[k])
    BY <1>8 DEF SeenDescends
  <2>1. CASE k \in 1..last /\ l \in 1..last
    BY <1>8, <2>1 DEF IdsInv, SeenDescends
  <2>2. ASSUME k \in 1..last, NEW m \in 1..size, l = last + m
        PROVE  Before(reader'.seen[l], reader'.seen[k])
    <3>1. last # 0 /\ last \in 1..last /\ k <= last
      BY <1>4, <2>2
    <3>2. /\ reader'.seen[k] = reader.seen[k] /\ reader'.seen[l] = ids[m]
          /\ Before(ids[m], reader.seen[last])
      BY <1>8, <1>11, <2>2, <3>1
    <3>3. k = last \/ Before(reader.seen[last], reader.seen[k])
      BY <1>4, <2>2, <3>1 DEF IdsInv, SeenDescends
    <3>4. ids[m] \in Id /\ reader.seen[last] \in Id /\ reader.seen[k] \in Id
      BY <1>4, <1>6, <2>2, <3>1
    <3> QED
      BY <3>2, <3>3, <3>4, BeforeTransitive
  <2>3. ASSUME NEW m \in 1..size, NEW o \in 1..size, k = last + m, l = last + o
        PROVE  Before(reader'.seen[l], reader'.seen[k])
    <3>1. m < o
      BY <1>4, <2>3
    <3>2. reader'.seen[k] = ids[m] /\ reader'.seen[l] = ids[o]
      BY <1>8, <2>3
    <3> QED
      BY <1>10, <3>1, <3>2
  <2>4. ~(l \in 1..last /\ \E m \in 1..size : k = last + m)
    BY <1>3, <1>4
  <2> QED
    BY <1>p, <2>1, <2>2, <2>3, <2>4
<1>14. UnseenAreBelow'
  <2> SUFFICES ASSUME NEW x \in reader'.from, ~Seen(x)'
               PROVE  /\ size # 0 /\ Before(x, reader'.seen[last + size])
                      /\ \E i \in Rows : rows[i].id = x
    <3>1. size # 0 => Len(reader'.seen) > 0
      BY <1>3, <1>4, <1>8
    <3>2. \A i \in Rows : rows'[i] = rows[i]
      BY <1>2
    <3> QED
      BY <1>5, <1>7, <1>8, <3>1, <3>2 DEF UnseenAreBelow
  <2>1. \A k \in 1..(last + size) : reader'.seen[k] # x
    BY <1>8 DEF Seen
  <2>2. \A k \in 1..last : reader.seen[k] # x
    BY <1>8, <1>p, <2>1
  <2>3. \A k \in 1..size : ids[k] # x
    BY <1>8, <1>p, <2>1
  <2>4. PICK i \in left : rows[i].id = x
    <3>1. CASE last = 0
      BY <1>7, <3>1
    <3>2. CASE last # 0
      <4>1. x \in reader.from /\ ~Seen(x)
        BY <1>7, <2>2, <3>2 DEF Seen
      <4>2. Before(x, reader.seen[last]) /\ \E i \in Rows : rows[i].id = x
        BY <4>1 DEF IdsInv, UnseenAreBelow
      <4> QED
        BY <3>2, <4>2 DEF Older
    <3> QED
      BY <3>1, <3>2
  <2>5. size = Limit(n) /\ \A k \in 1..size : Before(x, ids[k])
    BY <1>9, <2>3, <2>4
  <2>6. size # 0 /\ size \in 1..size /\ reader'.seen[last + size] = ids[size]
    BY <1>3, <1>8, <2>5
  <2> QED
    BY <1>5, <2>4, <2>5, <2>6
<1> QED
  BY <1>2, <1>5, <1>12, <1>13, <1>14
     DEF IdsInv, EraBehind, Fresh, AtMost, IdsAscend, NextIsOldest

\* The invariant is inductive.
THEOREM IdsInvHolds == Spec => []IdsInv
<1>1. Init => IdsInv
  <2> SUFFICES ASSUME Init
               PROVE  IdsInv
    OBVIOUS
  <2>1. Rows = {} /\ reader.from = {} /\ Len(reader.seen) = 0 /\ next = 0
    BY DEF Init, Rows
  <2>2. TypeOK
    BY IdentifiersAssumption DEF Init, TypeOK, Times
  <2> QED
    BY <2>1, <2>2
       DEF IdsInv, EraBehind, IdsAscend, NextIsOldest, SeenDescends, UnseenAreBelow
<1>2. IdsInv /\ UNCHANGED vars => IdsInv'
  BY DEF vars, IdsInv, TypeOK, EraBehind, Fresh, AtMost, IdsAscend, NextIsOldest, SeenDescends,
     UnseenAreBelow, Seen, Rows
<1>3. IdsInv /\ [Next]_vars => IdsInv'
  BY <1>2, ClockKeepsInv, InsertKeepsInv, RowsKeepInv, ChoiceKeepsInv, PageKeepsInv DEF Next
<1> QED
  BY <1>1, <1>3, PTL DEF Spec

\* Identifiers stay within their fields, rows and reader have their types, however
\* often the counter is full and the clock is set back.
THEOREM IdentifiersTyped == Spec => []TypeOK
<1>1. IdsInv => TypeOK
  BY DEF IdsInv
<1> QED
  BY <1>1, IdsInvHolds, PTL

\* ORDER BY id is the order of arrival within an era, for every width of the
\* counter and every clock.
THEOREM IdentifiersAscend == Spec => []IdsAscend
<1>1. IdsInv => IdsAscend
  BY DEF IdsInv
<1> QED
  BY <1>1, IdsInvHolds, PTL

\* A reader that pages to the end has seen every row there was when it began
\* exactly once.
THEOREM PagesExact == Spec => []PagesAreExact
<1>1. IdsInv => PagesAreExact
  BY DEF IdsInv, PagesAreExact, SeenDescends, UnseenAreBelow, Seen
<1> QED
  BY <1>1, IdsInvHolds, PTL

\* A claim overtakes no earlier delivery of its era that was never claimed.
THEOREM OldestIsFirst == Spec => OldestFirst
<1>1. IdsInv /\ [Next]_vars =>
        [\A i \in Rows :
           rows[i].state # "taken" /\ rows'[i].state = "taken" =>
             \A j \in 1..(i - 1) :
               rows[j].era = rows[i].era => rows[j].state # "pending"]_vars
  <2> SUFFICES ASSUME IdsInv, [Next]_vars, NEW i \in Rows,
                      rows[i].state # "taken", rows'[i].state = "taken",
                      NEW j \in 1..(i - 1), rows[j].era = rows[i].era
               PROVE  rows[j].state # "pending"
    OBVIOUS
  <2>1. rows \in Seq(Row) /\ Len(rows) \in Nat
    BY DEF IdsInv, TypeOK
  <2>2. rows' # rows
    OBVIOUS
  <2>3. CASE ClaimDelivery
    <3>1. next # 0 /\ rows' = [rows EXCEPT ![next].state = "taken"] /\ next \in Rows
      BY <2>1, <2>3 DEF ClaimDelivery, IdsInv, TypeOK, Rows
    <3>2. i = next
      BY <2>1, <3>1 DEF Rows
    <3> QED
      BY <3>1, <3>2 DEF IdsInv, NextIsOldest
  <2>4. ASSUME NEW k \in Rows, FailDelivery(k)
        PROVE  FALSE
    <3>1. rows[k].state = "taken" /\ rows' = [rows EXCEPT ![k].state = "failed"]
      BY <2>4 DEF FailDelivery
    <3> QED
      BY <2>1, <3>1 DEF Rows
  <2>5. ASSUME NEW seed \in 0..SeedMax, NEW tail \in 0..TailMax, InsertDelivery(seed, tail)
        PROVE  FALSE
    <3>1. PICK x : rows' = Append(rows, x)
      BY <2>5 DEF InsertDelivery
    <3> QED
      BY <2>1, <3>1 DEF Rows
  <2> QED
    BY <2>2, <2>3, <2>4, <2>5
       DEF Next, Tick, Restart, SetBack, StampMessage, NextEligible, ReadPage, vars
<1> QED
  BY <1>1, IdsInvHolds, PTL DEF Spec, OldestFirst

=============================================================================
