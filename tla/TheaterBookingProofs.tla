------------------------- MODULE TheaterBookingProofs -------------------------
(***************************************************************************)
(* Proofs about TheaterBooking for any number of requests, seats and       *)
(* deliveries, and any combination of faults.  What the unique index does  *)
(* for concerts the lock on the schedule row does here: at most one        *)
(* transaction has uncommitted rows, and the tests it made still hold when *)
(* it commits.                                                             *)
(***************************************************************************)
EXTENDS TheaterBooking, FiniteSetTheorems, TLAPS

\* Positions of a handler that has not committed yet.
BeforeCommit == {"idle", "check", "begin", "tx"}

\* A handler that stores an answer has one to store.
ReplyReady == \A d \in Delivery : pc[d] = "store" => reply[d] \in Codes

\* Deliveries beyond the receive count have not happened; one that has not committed
\* has no booking row.
DeliveryDiscipline ==
  /\ ReplyReady
  /\ \A d \in Delivery : d[2] > receives[d[1]] => pc[d] = "idle"
  /\ \A d \in Delivery : pc[d] \in BeforeCommit => booking[d] = "none"

\* The schedule row is locked exactly while a transaction is open, by that transaction.
LockDiscipline == \A d \in Delivery : pc[d] = "tx" <=> lock = d

\* Uncommitted rows are those of the transaction with the lock, all or none, and what
\* it has tested before it inserted them holds until it ends.
PendingDiscipline ==
  \/ pending = {}
  \/ /\ lock \in Delivery
     /\ pending = {lock} \X Want[RefOf(lock)]
     /\ InHall(lock) /\ Enough(lock)
     /\ Want[RefOf(lock)] \intersect SeatsIn(active) = {}

\* Committed rows are exactly the seats of the PAID bookings, none twice.
ActiveDiscipline ==
  /\ \A row \in active : booking[row[1]] = "PAID" /\ row[2] \in Want[RefOf(row[1])]
  /\ \A d \in Delivery : booking[d] = "PAID" => \A s \in Want[RefOf(d)] : <<d, s>> \in active
  /\ \A x, y \in active : x[2] = y[2] => x = y

\* The counter and the status, as the properties say; finitely many seats were booked.
CounterDiscipline ==
  /\ IsFiniteSet(EverBooked)
  /\ RemainCountsBookings
  /\ ClosedWhenExhausted

\* The inductive invariant.
IInv ==
  /\ TypeOK
  /\ DeliveryDiscipline
  /\ LockDiscipline
  /\ PendingDiscipline
  /\ ActiveDiscipline
  /\ CounterDiscipline

\* Unfolded in every step below.
USE DEF Delivery, RefOf, NoCode, Codes, Positions, Running, BeforeCommit,
        DeliveryTypeOK, queueVars, redisVars, handlerVars, deliveryVars, tableVars, vars

-----------------------------------------------------------------------------
(* Initial states, and steps that leave the tables alone                   *)

LEMMA InitIInv == Init => IInv
<1> SUFFICES ASSUME Init PROVE IInv
  OBVIOUS
<1>1. Cardinality(Seat) \in Nat /\ Cardinality(Seat) # 0
  BY SeatAssumption, FS_CardinalityType, FS_EmptySet
<1>2. TypeOK /\ DeliveryDiscipline /\ PendingDiscipline /\ ActiveDiscipline
  BY <1>1, MaxReceiveAssumption
     DEF Init, DeliveryInit, TypeOK, DeliveryDiscipline, ReplyReady, PendingDiscipline,
         ActiveDiscipline
<1>3. LockDiscipline
  BY UnlockedAssumption DEF Init, DeliveryInit, LockDiscipline
<1>4. EverBooked = {}
  BY DEF Init, EverBooked
<1>5. CounterDiscipline
  BY <1>1, <1>4, FS_EmptySet
     DEF Init, CounterDiscipline, RemainCountsBookings, ClosedWhenExhausted
<1> QED
  BY <1>2, <1>3, <1>5 DEF IInv

\* EverBooked and the counter follow the tables.
LEMMA TablesAlone ==
  ASSUME IInv, UNCHANGED <<remain, status, booking>>
  PROVE  CounterDiscipline'
BY DEF IInv, CounterDiscipline, EverBooked, RemainCountsBookings, ClosedWhenExhausted

\* A handler's position outside a transaction moves from "idle" to "check", from
\* "check" to "begin", or to a position from which there is no way back.
ProtocolMove(d) ==
  \/ pc'[d] = pc[d]
  \/ pc[d] = "idle" /\ pc'[d] = "check"
  \/ pc[d] = "check" /\ pc'[d] = "begin"
  \/ pc[d] \notin {"idle", "tx"} /\ pc'[d] \in {"store", "unqueue", "ack", "done"}

\* What a step of the delivery protocol keeps.
ProtocolKept ==
  /\ DeliveryTypeOK'
  /\ ReplyReady'
  /\ \A d \in Delivery : ProtocolMove(d)
  /\ \A d \in Delivery : d[2] > receives'[d[1]] => pc'[d] = "idle"

LEMMA ProtocolStep ==
  ASSUME IInv,
         \/ \E r \in Ref : WriteApi(r) \/ Sqs(r) \/ Ttl(r)
         \/ \E d \in Delivery : HandlerStep(d) \/ HandlerFault(d)
  PROVE  ProtocolKept
<1> DEFINE Before == /\ DeliveryTypeOK
                     /\ ReplyReady
                     /\ \A d \in Delivery : d[2] > receives[d[1]] => pc[d] = "idle"
<1>0. Before
  BY DEF IInv, TypeOK, DeliveryDiscipline
<1> USE <1>0, MaxReceiveAssumption DEF ReplyReady, ProtocolMove, ProtocolKept, Goto
<1>1. CASE \E r \in Ref : WriteApi(r)
  BY <1>1 DEF WriteApi, SendMessage, MarkQueued
<1>2. CASE \E r \in Ref : Receive(r)
  BY <1>2 DEF Receive
<1>3. CASE \E r \in Ref : VisibilityTimeout(r) \/ MoveToDLQ(r)
  BY <1>3 DEF VisibilityTimeout, MoveToDLQ
<1>4. CASE \E r \in Ref : Ttl(r)
  BY <1>4 DEF Ttl, ExpireResult, ExpireQueued
<1>5. CASE \E d \in Delivery : DuplicateCheck(d) \/ DuplicateCheckFails(d) \/ ConnectFails(d)
  BY <1>5 DEF DuplicateCheck, DuplicateCheckFails, ConnectFails
<1>6. CASE \E d \in Delivery : StoreResult(d)
  BY <1>6 DEF StoreResult
<1>7. ASSUME NEW e \in Delivery, StoreResultFails(e) PROVE ProtocolKept
  <2>1. CASE pc' = pc /\ reply' = [reply EXCEPT ![e] = "ERROR"]
    BY <1>7, <2>1 DEF StoreResultFails
  <2>2. CASE reply' = [reply EXCEPT ![e] = "none"] /\ pc' = [pc EXCEPT ![e] = "done"]
    BY <1>7, <2>2 DEF StoreResultFails
  <2> QED
    BY <1>7, <2>1, <2>2 DEF StoreResultFails
<1>8. CASE \E d \in Delivery : ClearQueued(d) \/ Ack(d)
  BY <1>8 DEF ClearQueued, Ack
<1> QED
  BY <1>1, <1>2, <1>3, <1>4, <1>5, <1>6, <1>7, <1>8 DEF Sqs, HandlerStep, HandlerFault

LEMMA ProtocolKeepsIInv ==
  ASSUME IInv,
         \/ \E r \in Ref : WriteApi(r) \/ Sqs(r) \/ Ttl(r)
         \/ \E d \in Delivery : HandlerStep(d) \/ HandlerFault(d),
         UNCHANGED tableVars
  PROVE  IInv'
<1>1. ProtocolKept
  BY ProtocolStep
<1>2. TypeOK' /\ DeliveryDiscipline'
  BY <1>1 DEF ProtocolKept, ProtocolMove, IInv, TypeOK, DeliveryDiscipline
<1>3. LockDiscipline'
  BY <1>1 DEF ProtocolKept, ProtocolMove, IInv, LockDiscipline
<1>4. PendingDiscipline' /\ ActiveDiscipline'
  BY DEF IInv, PendingDiscipline, ActiveDiscipline, InHall, Enough, Requested, SeatsIn
<1>5. CounterDiscipline'
  BY TablesAlone
<1> QED
  BY <1>2, <1>3, <1>4, <1>5 DEF IInv

-----------------------------------------------------------------------------
(* The transaction                                                         *)

\* How a delivery leaves the transaction, or is refused before it.
Leaves(e) ==
  \/ pc' = [pc EXCEPT ![e] = "store"] /\ \E c \in Codes : reply' = [reply EXCEPT ![e] = c]
  \/ pc' = [pc EXCEPT ![e] = "done"] /\ (reply' = [reply EXCEPT ![e] = NoCode] \/ UNCHANGED reply)

LEMMA LeavingKeepsReplies ==
  ASSUME IInv, NEW e \in Delivery, Leaves(e), UNCHANGED receives, pc[e] # "idle"
  PROVE  /\ pc' \in [Delivery -> Positions] /\ reply' \in [Delivery -> Codes \union {NoCode}]
         /\ pc'[e] \in {"store", "done"}
         /\ \A d \in Delivery : d # e => pc'[d] = pc[d]
         /\ ReplyReady'
         /\ \A d \in Delivery : d[2] > receives'[d[1]] => pc'[d] = "idle"
<1> USE DEF IInv, TypeOK, DeliveryDiscipline, ReplyReady
<1>1. CASE pc' = [pc EXCEPT ![e] = "store"] /\ \E c \in Codes : reply' = [reply EXCEPT ![e] = c]
  BY <1>1
<1>2. CASE pc' = [pc EXCEPT ![e] = "done"] /\ reply' = [reply EXCEPT ![e] = NoCode]
  BY <1>2
<1>3. CASE pc' = [pc EXCEPT ![e] = "done"] /\ UNCHANGED reply
  BY <1>3
<1> QED
  BY <1>1, <1>2, <1>3 DEF Leaves

\* The rows of an open transaction are all the uncommitted rows there are.
LEMMA OwnRows ==
  ASSUME IInv, NEW e \in Delivery
  PROVE  /\ pending \ RowsOf(pending, e) = IF lock = e THEN {} ELSE pending
         /\ lock = e => RowsOf(pending, e) = pending
BY DEF IInv, PendingDiscipline, RowsOf

\* A handler that ends without a commit gives back what it has of the schedule.
LEMMA RollbackKeepsIInv ==
  ASSUME IInv, NEW e \in Delivery, pc[e] # "idle", Rollback(e), Leaves(e),
         UNCHANGED <<queueVars, redisVars>>
  PROVE  IInv'
<1>1. /\ lock' = IF lock = e THEN Unlocked ELSE lock
      /\ pending' = IF lock = e THEN {} ELSE pending
      /\ UNCHANGED <<remain, status, booking, active>>
  BY OwnRows DEF Rollback
<1>2. TypeOK' /\ DeliveryDiscipline'
  BY <1>1, LeavingKeepsReplies DEF IInv, TypeOK, DeliveryDiscipline
<1>3. LockDiscipline'
  BY <1>1, LeavingKeepsReplies, UnlockedAssumption DEF IInv, LockDiscipline
<1>4. PendingDiscipline' /\ ActiveDiscipline'
  BY <1>1 DEF IInv, PendingDiscipline, ActiveDiscipline, InHall, Enough, Requested, SeatsIn
<1>5. CounterDiscipline'
  BY <1>1, TablesAlone
<1> QED
  BY <1>2, <1>3, <1>4, <1>5 DEF IInv

\* The lock is taken when nobody has it; before that there are no uncommitted rows.
LEMMA LockKeepsIInv ==
  ASSUME IInv, NEW e \in Delivery, LockSchedule(e)
  PROVE  IInv'
<1>1. /\ pc[e] = "begin" /\ lock = Unlocked /\ lock' = e
      /\ pc' = [pc EXCEPT ![e] = "tx"]
      /\ UNCHANGED <<queueVars, redisVars, reply, remain, status, booking, active, pending>>
  BY DEF LockSchedule, Goto
<1>2. TypeOK' /\ DeliveryDiscipline'
  BY <1>1 DEF IInv, TypeOK, DeliveryDiscipline, ReplyReady
<1>3. LockDiscipline'
  BY <1>1, UnlockedAssumption DEF IInv, TypeOK, LockDiscipline
<1>4. pending = {}
  BY <1>1, UnlockedAssumption DEF IInv, PendingDiscipline
<1>5. PendingDiscipline' /\ ActiveDiscipline'
  BY <1>1, <1>4 DEF IInv, PendingDiscipline, ActiveDiscipline
<1>6. CounterDiscipline'
  BY <1>1, TablesAlone
<1> QED
  BY <1>2, <1>3, <1>5, <1>6 DEF IInv

\* The rows are inserted by the transaction that has the lock, after its tests.
LEMMA InsertKeepsIInv ==
  ASSUME IInv, NEW e \in Delivery, InsertSeats(e)
  PROVE  IInv'
<1>1. /\ pc[e] = "tx" /\ RowsOf(pending, e) = {}
      /\ InHall(e) /\ Enough(e) /\ ~Conflict(e)
      /\ pending' = pending \union ({e} \X Want[RefOf(e)])
      /\ UNCHANGED <<deliveryVars, lock, remain, status, booking, active>>
  BY DEF InsertSeats
<1>2. lock = e /\ pending = {}
  BY <1>1, OwnRows DEF IInv, LockDiscipline
<1>3. pending' = {e} \X Want[RefOf(e)]
  BY <1>1, <1>2
<1>4. TypeOK' /\ DeliveryDiscipline'
  BY <1>1, <1>3 DEF IInv, TypeOK, DeliveryDiscipline, ReplyReady, InHall
<1>5. LockDiscipline' /\ ActiveDiscipline'
  BY <1>1 DEF IInv, LockDiscipline, ActiveDiscipline
<1>6. PendingDiscipline'
  BY <1>1, <1>2, <1>3 DEF PendingDiscipline, InHall, Enough, Requested, Conflict, SeatsIn
<1>7. CounterDiscipline'
  BY <1>1, TablesAlone
<1> QED
  BY <1>4, <1>5, <1>6, <1>7 DEF IInv

\* What a commit finds: it has the lock, its rows are there, and its tests still hold.
LEMMA BeforeTheCommit ==
  ASSUME IInv, NEW e \in Delivery, Commit(e)
  PROVE  /\ pc[e] = "tx" /\ lock = e /\ booking[e] = "none"
         /\ pending = {e} \X Want[RefOf(e)] /\ RowsOf(pending, e) = pending
         /\ InHall(e) /\ Enough(e)
         /\ Want[RefOf(e)] \intersect SeatsIn(active) = {}
         /\ lock' = Unlocked
         /\ remain' = remain - Requested(e)
         /\ status' = IF remain - Requested(e) <= 0 THEN "CLOSED" ELSE status
         /\ booking' = [booking EXCEPT ![e] = "PAID"]
         /\ active' = active \union ({e} \X Want[RefOf(e)])
         /\ pending' = {}
         /\ Leaves(e)
         /\ UNCHANGED <<queueVars, redisVars>>
<1>1. pc[e] = "tx" /\ lock = e /\ booking[e] = "none" /\ RowsOf(pending, e) # {}
  BY DEF Commit, IInv, LockDiscipline, DeliveryDiscipline
<1>2. RowsOf(pending, e) = pending /\ pending \ RowsOf(pending, e) = {}
  BY <1>1, OwnRows
<1>3. /\ pending = {e} \X Want[RefOf(e)] /\ InHall(e) /\ Enough(e)
      /\ Want[RefOf(e)] \intersect SeatsIn(active) = {}
  BY <1>1, <1>2 DEF IInv, PendingDiscipline
<1>4. Leaves(e)
  BY DEF Commit, Answer, GiveUp, Goto, Leaves
<1> QED
  BY <1>1, <1>2, <1>3, <1>4 DEF Commit

\* A commit counts off exactly the seats it adds to those ever booked, and never more
\* than there are.
LEMMA CommitKeepsCounter ==
  ASSUME IInv, NEW e \in Delivery, Commit(e)
  PROVE  CounterDiscipline' /\ remain' \in 0..Cardinality(Seat)
<1> DEFINE new == {e} \X Want[RefOf(e)]
<1>1. /\ booking[e] = "none" /\ Enough(e)
      /\ remain' = remain - Requested(e)
      /\ status' = IF remain - Requested(e) <= 0 THEN "CLOSED" ELSE status
      /\ booking' = [booking EXCEPT ![e] = "PAID"]
  BY BeforeTheCommit
<1>2. IsFiniteSet(Want[RefOf(e)]) /\ Requested(e) \in Nat /\ Requested(e) # 0
  BY WantAssumption, FS_CardinalityType, FS_EmptySet DEF Requested
<1>3. IsFiniteSet(new) /\ Cardinality(new) = Requested(e)
  <2>1. IsFiniteSet({e}) /\ Cardinality({e}) = 1
    BY FS_Singleton
  <2>2. IsFiniteSet(new) /\ Cardinality(new) = 1 * Cardinality(Want[RefOf(e)])
    BY <1>2, <2>1, FS_Product
  <2> QED
    BY <1>2, <2>2 DEF Requested
<1>4. EverBooked' = EverBooked \union new
  BY <1>1 DEF EverBooked, IInv, TypeOK
<1>5. EverBooked \intersect new = {}
  BY <1>1 DEF EverBooked
<1>6. IsFiniteSet(EverBooked) /\ Cardinality(EverBooked) \in Nat
  BY FS_CardinalityType DEF IInv, CounterDiscipline
<1>7. /\ IsFiniteSet(EverBooked')
      /\ Cardinality(EverBooked') = Cardinality(EverBooked) + Requested(e)
  <2> HIDE DEF new
  <2>1. /\ IsFiniteSet(EverBooked \union new)
        /\ Cardinality(EverBooked \union new)
             = Cardinality(EverBooked) + Cardinality(new) - Cardinality(EverBooked \intersect new)
    BY <1>3, <1>6, FS_Union
  <2>2. Cardinality(EverBooked \intersect new) = 0
    BY <1>5, FS_EmptySet
  <2> QED
    BY <1>2, <1>3, <1>4, <1>6, <2>1, <2>2
<1>8. remain \in Nat /\ remain >= Requested(e) /\ Cardinality(Seat) \in Nat
  BY <1>1, SeatAssumption, FS_CardinalityType DEF Enough, IInv, TypeOK
<1>9. RemainCountsBookings' /\ remain' \in 0..Cardinality(Seat)
  <2>1. remain + Cardinality(EverBooked) = Cardinality(Seat)
    BY DEF IInv, CounterDiscipline, RemainCountsBookings
  <2>2. remain' + Cardinality(EverBooked') = Cardinality(Seat)
    BY <1>1, <1>2, <1>6, <1>7, <1>8, <2>1
  <2>3. remain' \in 0..Cardinality(Seat)
    BY <1>1, <1>2, <1>6, <1>8, <2>1
  <2> QED
    BY <2>2, <2>3 DEF RemainCountsBookings
<1>10. ClosedWhenExhausted'
  <2>1. remain # 0 /\ status # "CLOSED"
    BY <1>2, <1>8 DEF IInv, CounterDiscipline, ClosedWhenExhausted
  <2> QED
    BY <1>1, <1>2, <1>8, <2>1 DEF ClosedWhenExhausted
<1> QED
  BY <1>7, <1>9, <1>10 DEF CounterDiscipline

\* The commit turns the transaction's rows, one for each seat asked for, into the
\* booking's ACTIVE rows.
LEMMA CommitKeepsIInv ==
  ASSUME IInv, NEW e \in Delivery, Commit(e)
  PROVE  IInv'
<1> DEFINE new == {e} \X Want[RefOf(e)]
<1>1. /\ pc[e] = "tx" /\ lock = e /\ booking[e] = "none" /\ Leaves(e)
      /\ InHall(e) /\ Want[RefOf(e)] \intersect SeatsIn(active) = {}
      /\ lock' = Unlocked /\ pending' = {}
      /\ status' \in {"CLOSED", status}
      /\ booking' = [booking EXCEPT ![e] = "PAID"]
      /\ active' = active \union new
      /\ UNCHANGED <<queueVars, redisVars>>
  BY BeforeTheCommit
<1>2. CounterDiscipline' /\ remain' \in 0..Cardinality(Seat)
  BY CommitKeepsCounter
<1>3. TypeOK'
  BY <1>1, <1>2, LeavingKeepsReplies DEF IInv, TypeOK, InHall
<1>4. DeliveryDiscipline'
  BY <1>1, LeavingKeepsReplies DEF IInv, TypeOK, DeliveryDiscipline
<1>5. LockDiscipline'
  BY <1>1, LeavingKeepsReplies, UnlockedAssumption DEF IInv, LockDiscipline
<1>6. PendingDiscipline'
  BY <1>1 DEF PendingDiscipline
<1>7. ActiveDiscipline'
  <2>1. \A d \in Delivery : booking'[d] = IF d = e THEN "PAID" ELSE booking[d]
    BY <1>1 DEF IInv, TypeOK
  <2>2. \A row \in active' : booking'[row[1]] = "PAID" /\ row[2] \in Want[RefOf(row[1])]
    BY <1>1, <2>1 DEF IInv, TypeOK, ActiveDiscipline
  <2>3. \A d \in Delivery : booking'[d] = "PAID" => \A s \in Want[RefOf(d)] : <<d, s>> \in active'
    BY <1>1, <2>1 DEF IInv, ActiveDiscipline
  <2>4. \A x \in active : x[2] \notin Want[RefOf(e)]
    BY <1>1 DEF SeatsIn
  <2>5. \A x, y \in active' : x[2] = y[2] => x = y
    BY <1>1, <2>4 DEF IInv, ActiveDiscipline
  <2> QED
    BY <2>2, <2>3, <2>5 DEF ActiveDiscipline
<1> QED
  BY <1>2, <1>3, <1>4, <1>5, <1>6, <1>7 DEF IInv

\* A refund removes the booking's rows and nothing else; the seats were booked once
\* all the same, so the counter stays.
LEMMA RefundKeepsIInv ==
  ASSUME IInv, NEW e \in Delivery, Refund(e)
  PROVE  IInv'
<1>1. /\ booking[e] = "PAID"
      /\ booking' = [booking EXCEPT ![e] = "CANCEL"]
      /\ active' = active \ RowsOf(active, e)
      /\ UNCHANGED <<deliveryVars, lock, remain, status, pending>>
  BY DEF Refund
<1>2. \A d \in Delivery : booking'[d] = IF d = e THEN "CANCEL" ELSE booking[d]
  BY <1>1 DEF IInv, TypeOK
<1>3. TypeOK' /\ DeliveryDiscipline'
  BY <1>1 DEF IInv, TypeOK, DeliveryDiscipline, ReplyReady
<1>4. LockDiscipline'
  BY <1>1 DEF IInv, LockDiscipline
<1>5. PendingDiscipline'
  <2>1. SeatsIn(active') \subseteq SeatsIn(active)
    BY <1>1 DEF SeatsIn
  <2> QED
    BY <1>1, <2>1 DEF IInv, PendingDiscipline, InHall, Enough, Requested, SeatsIn
<1>6. ActiveDiscipline'
  <2>1. \A row \in active' : row \in active /\ row[1] \in Delivery /\ row[1] # e
    BY <1>1 DEF IInv, TypeOK, RowsOf
  <2>2. \A d \in Delivery, s \in Seat : d # e /\ <<d, s>> \in active => <<d, s>> \in active'
    BY <1>1 DEF RowsOf
  <2>3. \A row \in active' : booking'[row[1]] = "PAID" /\ row[2] \in Want[RefOf(row[1])]
    BY <1>2, <2>1 DEF IInv, ActiveDiscipline
  <2>4. ASSUME NEW d \in Delivery, booking'[d] = "PAID", NEW s \in Want[RefOf(d)]
        PROVE  <<d, s>> \in active'
    <3>1. d # e /\ <<d, s>> \in active
      BY <1>2, <2>4 DEF IInv, ActiveDiscipline
    <3> QED
      BY <2>2, <3>1 DEF IInv, TypeOK
  <2>5. \A x, y \in active' : x[2] = y[2] => x = y
    BY <2>1 DEF IInv, ActiveDiscipline
  <2> QED
    BY <2>3, <2>4, <2>5 DEF ActiveDiscipline
<1>7. CounterDiscipline'
  <2>1. {d \in Delivery : booking'[d] # "none"} = {d \in Delivery : booking[d] # "none"}
    BY <1>1, <1>2
  <2>2. EverBooked' = EverBooked
    BY <2>1 DEF EverBooked
  <2> QED
    BY <1>1, <2>2 DEF IInv, CounterDiscipline, RemainCountsBookings, ClosedWhenExhausted
<1> QED
  BY <1>3, <1>4, <1>5, <1>6, <1>7 DEF IInv

\* Every step keeps the inductive invariant.
LEMMA NextKeepsIInv == IInv /\ [Next]_vars => IInv'
<1> SUFFICES ASSUME IInv, [Next]_vars PROVE IInv'
  OBVIOUS
<1>1. CASE UNCHANGED vars
  <2>1. TypeOK' /\ DeliveryDiscipline' /\ LockDiscipline'
    BY <1>1 DEF IInv, TypeOK, DeliveryDiscipline, ReplyReady, LockDiscipline
  <2>2. PendingDiscipline' /\ ActiveDiscipline'
    BY <1>1 DEF IInv, PendingDiscipline, ActiveDiscipline, InHall, Enough, Requested, SeatsIn
  <2> QED
    BY <1>1, <2>1, <2>2, TablesAlone DEF IInv
<1>2. CASE \/ \E r \in Ref : (WriteApi(r) \/ Sqs(r) \/ Ttl(r)) /\ UNCHANGED tableVars
           \/ \E d \in Delivery : (HandlerStep(d) \/ HandlerFault(d)) /\ UNCHANGED tableVars
  BY <1>2, ProtocolKeepsIInv
<1>3. ASSUME NEW e \in Delivery, NoSchedule(e) \/ LockWaitFails(e) PROVE IInv'
  <2>1. /\ pc[e] = "begin" /\ Leaves(e)
        /\ UNCHANGED <<queueVars, redisVars, tableVars>>
    BY <1>3 DEF NoSchedule, LockWaitFails, Answer, Goto, Leaves
  <2>2. lock # e /\ pending \ RowsOf(pending, e) = pending
    BY <2>1, OwnRows DEF IInv, LockDiscipline
  <2>3. Rollback(e)
    BY <2>1, <2>2 DEF Rollback
  <2> QED
    BY <2>1, <2>3, RollbackKeepsIInv
<1>4. ASSUME NEW e \in Delivery, LockSchedule(e) PROVE IInv'
  BY <1>4, LockKeepsIInv
<1>5. ASSUME NEW e \in Delivery, Refuse(e) \/ StatementFails(e) PROVE IInv'
  <2>1. /\ pc[e] = "tx" /\ Rollback(e) /\ Leaves(e)
        /\ UNCHANGED <<queueVars, redisVars>>
    BY <1>5 DEF Refuse, StatementFails, Answer, GiveUp, Goto, Leaves
  <2> QED
    BY <2>1, RollbackKeepsIInv
<1>6. ASSUME NEW e \in Delivery, WorkerCrash(e) PROVE IInv'
  <2>1. /\ pc[e] # "idle" /\ Rollback(e) /\ Leaves(e)
        /\ UNCHANGED <<queueVars, redisVars>>
    BY <1>6 DEF WorkerCrash, Crash, Goto, Leaves
  <2> QED
    BY <2>1, RollbackKeepsIInv
<1>7. ASSUME NEW e \in Delivery, InsertSeats(e) PROVE IInv'
  BY <1>7, InsertKeepsIInv
<1>8. ASSUME NEW e \in Delivery, Commit(e) PROVE IInv'
  BY <1>8, CommitKeepsIInv
<1>9. ASSUME NEW e \in Delivery, Refund(e) PROVE IInv'
  BY <1>9, RefundKeepsIInv
<1> QED
  BY <1>1, <1>2, <1>3, <1>4, <1>5, <1>6, <1>7, <1>8, <1>9 DEF Next, Transaction

-----------------------------------------------------------------------------
(* Theorems                                                                *)

LEMMA Invariance == Spec => []IInv
BY InitIInv, NextKeepsIInv, PTL DEF Spec

\* The variables keep their types; in particular remain_count never gets negative.
THEOREM TheaterTypeCorrect == Spec => []TypeOK
<1>1. IInv => TypeOK
  BY DEF IInv
<1> QED
  BY <1>1, Invariance, PTL

\* The counter has been reduced by the seats of every booking ever committed, for any
\* number of customers, workers, redeliveries and refunds, and whatever fails.
THEOREM TheCounterIsExact == Spec => []RemainCountsBookings
<1>1. IInv => RemainCountsBookings
  BY DEF IInv, CounterDiscipline
<1> QED
  BY <1>1, Invariance, PTL

\* The schedule closes with its last seat and not before.
THEOREM TheScheduleClosesInTime == Spec => []ClosedWhenExhausted
<1>1. IInv => ClosedWhenExhausted
  BY DEF IInv, CounterDiscipline
<1> QED
  BY <1>1, Invariance, PTL

\* The schedule row is locked only by a transaction that is open: it is free again after
\* a return, an exception or a crash.
THEOREM TheLockIsGivenBack == Spec => []LockIsOwned
<1>1. IInv => LockIsOwned
  BY DEF IInv, TypeOK, LockDiscipline, LockIsOwned
<1> QED
  BY <1>1, Invariance, PTL

-----------------------------------------------------------------------------
(* Refinement of SeatSale                                                  *)

\* A commit is a sale: its seats were free, and no other booking of the request
\* is live, or it would hold one of them.
LEMMA CommitIsSell ==
  ASSUME IInv, NEW e \in Delivery, Commit(e)
  PROVE  Sales!Sell(e)
<1> DEFINE seats == Want[RefOf(e)]
<1>1. /\ booking[e] = "none" /\ seats \subseteq Seat
      /\ seats \intersect SeatsIn(active) = {}
      /\ booking' = [booking EXCEPT ![e] = "PAID"]
      /\ active' = active \union ({e} \X seats)
  BY BeforeTheCommit DEF InHall
<1>2. \A s \in seats : Sales!Free(s)
  BY <1>1 DEF Sales!Free, SeatsIn
<1>3. ASSUME NEW c \in Delivery, booking[c] = "PAID", RefOf(c) = RefOf(e)
      PROVE  FALSE
  <2>1. PICK s \in seats : TRUE
    BY WantAssumption
  <2>2. <<c, s>> \in active /\ <<c, s>>[2] = s
    BY <1>3, <2>1 DEF IInv, ActiveDiscipline
  <2> QED
    BY <1>2, <2>1, <2>2 DEF Sales!Free
<1> QED
  BY <1>1, <1>2, <1>3 DEF Sales!Sell

\* Every step is a sale, a return, or leaves the sales alone.
LEMMA NextImplements == IInv /\ [Next]_vars => [Sales!SaleNext]_(Sales!saleVars)
<1> SUFFICES ASSUME IInv, [Next]_vars
             PROVE  Sales!SaleNext \/ UNCHANGED <<booking, active>>
  BY DEF Sales!saleVars
<1>1. ASSUME NEW e \in Delivery, Commit(e) PROVE Sales!SaleNext
  BY <1>1, CommitIsSell DEF Sales!SaleNext
<1>2. ASSUME NEW e \in Delivery, Refund(e) PROVE Sales!SaleNext
  <2>1. Sales!Return(e)
    BY <1>2 DEF Refund, RowsOf, Sales!Return
  <2> QED
    BY <2>1 DEF Sales!SaleNext
<1>3. CASE UNCHANGED tableVars \/ UNCHANGED vars
  BY <1>3
<1>4. ASSUME NEW e \in Delivery,
             \/ NoSchedule(e) \/ LockSchedule(e) \/ LockWaitFails(e) \/ Refuse(e)
             \/ InsertSeats(e) \/ StatementFails(e) \/ WorkerCrash(e)
      PROVE  UNCHANGED <<booking, active>>
  BY <1>4 DEF NoSchedule, LockSchedule, LockWaitFails, Refuse, InsertSeats, StatementFails,
              WorkerCrash, Rollback
<1> QED
  BY <1>1, <1>2, <1>3, <1>4 DEF Next, Transaction

\* The theater path sells seats the way SeatSale promises.
THEOREM TheaterRefinement == Spec => ImplementsSeatSale
<1>1. Init => Sales!SaleInit
  BY DEF Init, Sales!SaleInit
<1>2. IInv /\ [Next]_vars => [Sales!SaleNext]_(Sales!saleVars)
  BY NextImplements
<1> QED
  BY <1>1, <1>2, Invariance, PTL DEF Spec, ImplementsSeatSale, Sales!SaleSpec

-----------------------------------------------------------------------------
(* What the counter promises                                               *)

\* The counter never promises more seats than are free: every sold seat is one of the
\* seats ever booked, which the counter has been reduced by.
THEOREM TheCounterIsAvailable == Spec => []RemainIsAvailable
<1>1. IInv => RemainIsAvailable
  <2> SUFFICES ASSUME IInv PROVE remain <= Cardinality(FreeSeats)
    BY DEF RemainIsAvailable
  <2>1. active \subseteq EverBooked
    BY DEF IInv, TypeOK, ActiveDiscipline, EverBooked
  <2>2. IsFiniteSet(active) /\ Cardinality(active) <= Cardinality(EverBooked)
    BY <2>1, FS_Subset DEF IInv, CounterDiscipline
  <2>3. Cardinality(SeatsIn(active)) <= Cardinality(active)
    <3> DEFINE seat == [row \in active |-> row[2]]
    <3>1. seat \in Surjection(active, SeatsIn(active))
      BY DEF Surjection, SeatsIn
    <3> QED
      BY <2>2, <3>1, FS_Surjection
  <2>4. SeatsIn(active) \subseteq Seat
    BY DEF IInv, TypeOK, SeatsIn
  <2>5. /\ IsFiniteSet(SeatsIn(active))
        /\ Cardinality(FreeSeats) = Cardinality(Seat) - Cardinality(SeatsIn(active))
    <3>1. IsFiniteSet(SeatsIn(active)) /\ Seat \cap SeatsIn(active) = SeatsIn(active)
      BY <2>4, SeatAssumption, FS_Subset
    <3> QED
      BY <3>1, SeatAssumption, FS_Difference DEF FreeSeats
  <2>6. /\ Cardinality(Seat) \in Nat /\ Cardinality(SeatsIn(active)) \in Nat
        /\ Cardinality(active) \in Nat /\ Cardinality(EverBooked) \in Nat /\ remain \in Nat
    BY <2>2, <2>5, SeatAssumption, FS_CardinalityType DEF IInv, TypeOK, CounterDiscipline
  <2> QED
    BY <2>2, <2>3, <2>5, <2>6 DEF IInv, CounterDiscipline, RemainCountsBookings
<1> QED
  BY <1>1, Invariance, PTL

-----------------------------------------------------------------------------
(* Answers                                                                 *)

\* OK is on its way, or was given, only for a row that was committed.
OkInv ==
  /\ \A d \in Delivery : reply[d] = "OK" => booking[d] # "none"
  /\ OkIsBacked

\* Positions from which a handler can acknowledge.
AnswerInv ==
  /\ \A r \in Ref : result[r] # NoCode => told[r] # {}
  /\ \A d \in Delivery : pc[d] \in {"unqueue", "ack"} => told[d[1]] # {}
  /\ AnsweredBeforeDeleted

\* What the steps of the transaction do to positions, replies and rows.
LEMMA TransactionShape ==
  ASSUME IInv, NEW e \in Delivery, Transaction(e) \/ StatementFails(e) \/ WorkerCrash(e)
  PROVE  /\ UNCHANGED <<queueVars, redisVars>>
         /\ pc[e] \in Running
         /\ pc' = pc \/ \E p \in {"tx", "store", "done"} : pc' = [pc EXCEPT ![e] = p]
         /\ \A d \in Delivery : d # e => reply'[d] = reply[d]
         /\ reply'[e] = "OK" => reply[e] = "OK" \/ booking'[e] = "PAID"
         /\ \A d \in Delivery : booking[d] # "none" => booking'[d] # "none"
<1> USE DEF IInv, TypeOK, Goto, Answer, GiveUp
<1>1. CASE NoSchedule(e) \/ LockSchedule(e) \/ LockWaitFails(e) \/ InsertSeats(e)
  BY <1>1 DEF NoSchedule, LockSchedule, LockWaitFails, InsertSeats
<1>2. CASE Refuse(e)
  BY <1>2 DEF Refuse, Rollback
<1>3. CASE Commit(e)
  BY <1>3 DEF Commit
<1>4. CASE StatementFails(e)
  BY <1>4 DEF StatementFails, Rollback
<1>5. CASE WorkerCrash(e)
  BY <1>5 DEF WorkerCrash, Crash, Rollback
<1> QED
  BY <1>1, <1>2, <1>3, <1>4, <1>5 DEF Transaction

\* A transaction may make a booking to be answered OK; it stores and deletes nothing.
LEMMA TransactionKeepsAnswers ==
  ASSUME IInv, OkInv, AnswerInv, NEW e \in Delivery,
         Transaction(e) \/ StatementFails(e) \/ WorkerCrash(e)
  PROVE  OkInv' /\ AnswerInv'
<1>1. OkInv'
  BY TransactionShape DEF OkInv, OkIsBacked
<1>2. \A d \in Delivery : pc'[d] \in {"unqueue", "ack"} => pc[d] \in {"unqueue", "ack"}
  BY TransactionShape DEF IInv, TypeOK
<1> QED
  BY <1>1, <1>2, TransactionShape DEF AnswerInv, AnsweredBeforeDeleted

\* The command that stores a result is the one that answers the request.
LEMMA StoreKeepsAnswers ==
  ASSUME IInv, OkInv, AnswerInv, NEW e \in Delivery, StoreResult(e), UNCHANGED tableVars
  PROVE  OkInv' /\ AnswerInv'
<1>1. /\ told' = [told EXCEPT ![e[1]] = @ \union {reply[e]}] /\ told \in [Ref -> SUBSET Codes]
      /\ \A d \in Delivery : reply'[d] = IF d = e THEN NoCode ELSE reply[d]
      /\ \A r \in Ref : r # e[1] => result'[r] = result[r]
      /\ \A d \in Delivery : d # e => pc'[d] = pc[d]
      /\ UNCHANGED queueVars
  BY DEF StoreResult, Goto, IInv, TypeOK
<1>2. \A d \in Delivery : d[1] \in Ref
  OBVIOUS
<1>3. OkInv'
  <2>1. \A r \in Ref : "OK" \in told'[r] => "OK" \in told[r] \/ (r = e[1] /\ reply[e] = "OK")
    BY <1>1
  <2> QED
    BY <1>1, <2>1 DEF OkInv, OkIsBacked
<1>4. \A r \in Ref : told[r] # {} \/ r = e[1] => told'[r] # {}
  <2>1. \A r \in Ref : \A c \in told[r] : c \in told'[r]
    BY <1>1
  <2>2. reply[e] \in told'[e[1]]
    BY <1>1, <1>2
  <2> QED
    BY <2>1, <2>2
<1> QED
  BY <1>1, <1>2, <1>3, <1>4 DEF AnswerInv, AnsweredBeforeDeleted

LEMMA NextKeepsAnswers == IInv /\ OkInv /\ AnswerInv /\ [Next]_vars => OkInv' /\ AnswerInv'
<1> SUFFICES ASSUME IInv, OkInv, AnswerInv, [Next]_vars PROVE OkInv' /\ AnswerInv'
  OBVIOUS
<1> DEFINE Quiet == \/ UNCHANGED reply
                    \/ \E e \in Delivery, c \in {"ERROR", NoCode} : reply' = [reply EXCEPT ![e] = c]
<1>1. ASSUME UNCHANGED <<told, tableVars>>, Quiet PROVE OkInv'
  BY <1>1 DEF OkInv, OkIsBacked, IInv, TypeOK
<1> USE DEF Goto, IInv, TypeOK, AnswerInv, AnsweredBeforeDeleted
<1>2. ASSUME NEW r \in Ref, WriteApi(r) \/ Sqs(r) \/ Ttl(r) PROVE UNCHANGED <<told, reply>> /\ AnswerInv'
  <2>1. CASE SendMessage(r)
    BY <2>1 DEF SendMessage
  <2>2. CASE MarkQueued(r)
    BY <2>2 DEF MarkQueued
  <2>3. CASE Receive(r)
    BY <2>3, MaxReceiveAssumption DEF Receive
  <2>4. CASE VisibilityTimeout(r)
    BY <2>4 DEF VisibilityTimeout
  <2>5. CASE MoveToDLQ(r)
    BY <2>5 DEF MoveToDLQ
  <2>6. CASE ExpireResult(r)
    BY <2>6 DEF ExpireResult
  <2>7. CASE ExpireQueued(r)
    BY <2>7 DEF ExpireQueued
  <2> QED
    BY <1>2, <2>1, <2>2, <2>3, <2>4, <2>5, <2>6, <2>7 DEF WriteApi, Sqs, Ttl
<1>3. ASSUME NEW e \in Delivery, DuplicateCheck(e) \/ ClearQueued(e) \/ Ack(e)
      PROVE  UNCHANGED <<told, reply>> /\ AnswerInv'
  <2>1. CASE DuplicateCheck(e)
    BY <2>1 DEF DuplicateCheck
  <2>2. CASE ClearQueued(e)
    BY <2>2 DEF ClearQueued
  <2>3. CASE Ack(e)
    BY <2>3 DEF Ack
  <2> QED
    BY <1>3, <2>1, <2>2, <2>3
<1>4. ASSUME NEW e \in Delivery, HandlerFault(e) PROVE UNCHANGED told /\ Quiet /\ AnswerInv'
  <2>1. CASE DuplicateCheckFails(e)
    BY <2>1 DEF DuplicateCheckFails
  <2>2. CASE ConnectFails(e)
    BY <2>2 DEF ConnectFails
  <2>3. CASE StoreResultFails(e)
    BY <2>3 DEF StoreResultFails
  <2> QED
    BY <1>4, <2>1, <2>2, <2>3 DEF HandlerFault
<1>5. ASSUME NEW e \in Delivery, Refund(e) PROVE OkInv' /\ AnswerInv'
  BY <1>5 DEF Refund, OkInv, OkIsBacked
<1>6. CASE UNCHANGED vars
  BY <1>1, <1>6
<1> QED
  BY <1>1, <1>2, <1>3, <1>4, <1>5, <1>6, StoreKeepsAnswers, TransactionKeepsAnswers
     DEF Next, HandlerStep

\* Why the two theorems hold together.
LEMMA Answers == Spec => [](OkInv /\ AnswerInv)
<1>1. Init => OkInv /\ AnswerInv
  BY DEF Init, DeliveryInit, OkInv, OkIsBacked, AnswerInv, AnsweredBeforeDeleted
<1> QED
  BY <1>1, Invariance, NextKeepsAnswers, PTL DEF Spec

\* OK is only ever answered for a committed booking.
THEOREM TheaterAnswersAreTrue == Spec => []OkIsBacked
<1>1. OkInv => OkIsBacked
  BY DEF OkInv
<1> QED
  BY <1>1, Answers, PTL

\* No message is deleted unanswered, under any fault.
THEOREM NoTheaterRequestIsDropped == Spec => []AnsweredBeforeDeleted
<1>1. AnswerInv => AnsweredBeforeDeleted
  BY DEF AnswerInv
<1> QED
  BY <1>1, Answers, PTL

=============================================================================
