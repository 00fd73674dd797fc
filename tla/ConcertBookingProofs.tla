------------------------- MODULE ConcertBookingProofs -------------------------
(***************************************************************************)
(* Proofs about ConcertBooking for any number of requests, seats and       *)
(* deliveries, and any combination of faults.                              *)
(***************************************************************************)
EXTENDS ConcertBooking, TLAPS

\* Positions of a handler that has not committed yet.
BeforeCommit == {"idle", "check", "begin", "tx"}

\* A handler that stores an answer has one to store.
ReplyReady == \A d \in Delivery : pc[d] = "store" => reply[d] \in Codes

\* Deliveries beyond the receive count have not happened; an open transaction
\* only asks for seats of the hall; its booking row is not there yet.
DeliveryDiscipline ==
  /\ ReplyReady
  /\ \A d \in Delivery : d[2] > receives[d[1]] => pc[d] = "idle"
  /\ \A d \in Delivery : pc[d] = "tx" => Want[RefOf(d)] \subseteq Seat
  /\ \A d \in Delivery : pc[d] \in BeforeCommit => booking[d] = "none"

\* Uncommitted rows belong to open transactions, and the unique index keeps their
\* seats apart from each other and from the committed ones.
PendingDiscipline ==
  /\ \A row \in pending : pc[row[1]] = "tx" /\ row[2] \in Want[RefOf(row[1])]
  /\ \A x, y \in pending : x[2] = y[2] => x = y
  /\ \A x \in pending, y \in active : x[2] # y[2]

\* Committed rows are exactly the seats of the PAID bookings.
ActiveDiscipline ==
  /\ \A row \in active : booking[row[1]] = "PAID" /\ row[2] \in Want[RefOf(row[1])]
  /\ \A d \in Delivery : booking[d] = "PAID" => \A s \in Want[RefOf(d)] : <<d, s>> \in active

\* The inductive invariant behind NoDoubleSale.
IInv ==
  /\ TypeOK
  /\ DeliveryDiscipline
  /\ PendingDiscipline
  /\ ActiveDiscipline
  /\ NoDoubleSale

\* Unfolded in every step below.
USE DEF Delivery, RefOf, NoCode, Codes, Positions, Running, BeforeCommit,
        DeliveryTypeOK, queueVars, redisVars, handlerVars, deliveryVars, tableVars, vars

-----------------------------------------------------------------------------
(* Steps that leave the tables alone                                       *)

\* A handler's position outside a transaction moves from "idle" to "check", from
\* "check" to "begin", or to a position from which there is no way back.
ProtocolMove(d) ==
  \/ pc'[d] = pc[d]
  \/ pc[d] = "idle" /\ pc'[d] = "check"
  \/ pc[d] = "check" /\ pc'[d] = "begin"
  \/ pc[d] \notin {"idle", "tx"} /\ pc'[d] \in {"store", "unqueue", "ack", "done"}

\* Every step of the delivery protocol keeps the types and moves handlers so.
LEMMA ProtocolStep ==
  ASSUME IInv,
         \/ \E r \in Ref : WriteApi(r) \/ Sqs(r) \/ Ttl(r)
         \/ \E d \in Delivery : HandlerStep(d) \/ HandlerFault(d)
  PROVE  /\ DeliveryTypeOK'
         /\ ReplyReady'
         /\ \A d \in Delivery : ProtocolMove(d)
         /\ \A d \in Delivery : d[2] > receives'[d[1]] => pc'[d] = "idle"
<1> USE MaxReceiveAssumption DEF IInv, TypeOK, DeliveryDiscipline, ReplyReady, ProtocolMove, Goto
<1>1. CASE \E r \in Ref : SendMessage(r)
  BY <1>1 DEF SendMessage
<1>2. CASE \E r \in Ref : MarkQueued(r)
  BY <1>2 DEF MarkQueued
<1>3. CASE \E r \in Ref : Receive(r)
  BY <1>3 DEF Receive
<1>4. CASE \E r \in Ref : VisibilityTimeout(r)
  BY <1>4 DEF VisibilityTimeout
<1>5. CASE \E r \in Ref : MoveToDLQ(r)
  BY <1>5 DEF MoveToDLQ
<1>6. CASE \E r \in Ref : Ttl(r)
  BY <1>6 DEF Ttl, ExpireResult, ExpireQueued
<1>7. CASE \E d \in Delivery : DuplicateCheck(d) \/ DuplicateCheckFails(d)
  BY <1>7 DEF DuplicateCheck, DuplicateCheckFails
<1>8. CASE \E d \in Delivery : StoreResult(d)
  BY <1>8 DEF StoreResult
<1>9. ASSUME NEW e \in Delivery, StoreResultFails(e)
      PROVE  /\ DeliveryTypeOK'
             /\ ReplyReady'
             /\ \A d \in Delivery : ProtocolMove(d)
             /\ \A d \in Delivery : d[2] > receives'[d[1]] => pc'[d] = "idle"
  <2>1. CASE pc' = pc /\ reply' = [reply EXCEPT ![e] = "ERROR"]
    BY <1>9, <2>1 DEF StoreResultFails
  <2>2. CASE reply' = [reply EXCEPT ![e] = "none"] /\ pc' = [pc EXCEPT ![e] = "done"]
    BY <1>9, <2>2 DEF StoreResultFails
  <2> QED
    BY <1>9, <2>1, <2>2 DEF StoreResultFails
<1>10. CASE \E d \in Delivery : ClearQueued(d)
  BY <1>10 DEF ClearQueued
<1>11. CASE \E d \in Delivery : Ack(d)
  BY <1>11 DEF Ack
<1>12. CASE \E d \in Delivery : ConnectFails(d)
  BY <1>12 DEF ConnectFails
<1> QED
  BY <1>1, <1>2, <1>3, <1>4, <1>5, <1>6, <1>7, <1>8, <1>9, <1>10, <1>11, <1>12
     DEF WriteApi, Sqs, Ttl, HandlerStep, HandlerFault

\* The protocol steps keep the inductive invariant: no open transaction is left
\* or entered, and no booking row is touched.
LEMMA ProtocolKeepsIInv ==
  ASSUME IInv,
         \/ \E r \in Ref : WriteApi(r) \/ Sqs(r) \/ Ttl(r)
         \/ \E d \in Delivery : HandlerStep(d) \/ HandlerFault(d),
         UNCHANGED tableVars
  PROVE  IInv'
<1>1. /\ DeliveryTypeOK'
      /\ ReplyReady'
      /\ \A d \in Delivery : ProtocolMove(d)
      /\ \A d \in Delivery : d[2] > receives'[d[1]] => pc'[d] = "idle"
  BY ProtocolStep
<1>2. TypeOK'
  BY <1>1 DEF IInv, TypeOK
<1>3. DeliveryDiscipline'
  BY <1>1 DEF IInv, TypeOK, DeliveryDiscipline, ProtocolMove
<1>4. PendingDiscipline'
  <2>1. \A row \in pending : row[1] \in Delivery /\ pc[row[1]] = "tx"
    BY DEF IInv, TypeOK, PendingDiscipline
  <2>2. \A d \in Delivery : pc[d] = "tx" => pc'[d] = "tx"
    BY <1>1 DEF ProtocolMove
  <2> QED
    BY <2>1, <2>2 DEF IInv, PendingDiscipline
<1>5. ActiveDiscipline' /\ NoDoubleSale'
  BY DEF IInv, ActiveDiscipline, NoDoubleSale
<1> QED
  BY <1>2, <1>3, <1>4, <1>5 DEF IInv

-----------------------------------------------------------------------------
(* The transaction                                                         *)

LEMMA InitIInv == Init => IInv
BY MaxReceiveAssumption
   DEF Init, DeliveryInit, IInv, TypeOK, DeliveryDiscipline, ReplyReady, PendingDiscipline,
       ActiveDiscipline, NoDoubleSale

\* How a transaction ends for its handler: with a code to store, or for good.
Leaves(e) ==
  \/ pc' = [pc EXCEPT ![e] = "store"] /\ \E c \in Codes : reply' = [reply EXCEPT ![e] = c]
  \/ pc' = [pc EXCEPT ![e] = "done"] /\ (reply' = [reply EXCEPT ![e] = NoCode] \/ UNCHANGED reply)

LEMMA LeavingKeepsReplies ==
  ASSUME IInv, NEW e \in Delivery, Leaves(e), UNCHANGED receives, pc[e] # "idle"
  PROVE  /\ pc' \in [Delivery -> Positions] /\ reply' \in [Delivery -> Codes \union {NoCode}]
         /\ pc'[e] \in {"store", "done"}
         /\ \A d \in Delivery : d # e => pc'[d] = pc[d]
         /\ ReplyReady'
         /\ \A d \in Delivery : d[2] > receives'[d[1]] => pc'[d] = "idle"
<1> USE DEF IInv, TypeOK, DeliveryDiscipline, ReplyReady
<1>1. CASE pc' = [pc EXCEPT ![e] = "store"] /\ \E c \in Codes : reply' = [reply EXCEPT ![e] = c]
  BY <1>1
<1>2. CASE pc' = [pc EXCEPT ![e] = "done"] /\ reply' = [reply EXCEPT ![e] = NoCode]
  BY <1>2
<1>3. CASE pc' = [pc EXCEPT ![e] = "done"] /\ UNCHANGED reply
  BY <1>3
<1> QED
  BY <1>1, <1>2, <1>3 DEF Leaves

\* Entering the transaction, or being refused before it.
LEMMA OpenKeepsIInv ==
  ASSUME IInv, NEW e \in Delivery, Refuse(e) \/ OpenBooking(e)
  PROVE  IInv'
<1> USE DEF Goto, Answer
<1>1. UNCHANGED <<queueVars, redisVars, tableVars>> /\ pc[e] = "begin"
  BY DEF Refuse, OpenBooking
<1>2. CASE Refuse(e)
  <2>1. pc' = [pc EXCEPT ![e] = "store"] /\ \E c \in Codes : reply' = [reply EXCEPT ![e] = c]
    BY <1>2 DEF Refuse
  <2>2. TypeOK' /\ DeliveryDiscipline'
    BY <1>1, <2>1 DEF IInv, TypeOK, DeliveryDiscipline, ReplyReady
  <2>3. PendingDiscipline' /\ ActiveDiscipline' /\ NoDoubleSale'
    BY <1>1, <2>1 DEF IInv, TypeOK, PendingDiscipline, ActiveDiscipline, NoDoubleSale
  <2> QED
    BY <2>2, <2>3 DEF IInv
<1>3. CASE OpenBooking(e)
  <2>1. pc' = [pc EXCEPT ![e] = "tx"] /\ UNCHANGED reply /\ Want[RefOf(e)] \subseteq Seat
    BY <1>3 DEF OpenBooking
  <2>2. TypeOK' /\ DeliveryDiscipline'
    BY <1>1, <2>1 DEF IInv, TypeOK, DeliveryDiscipline, ReplyReady
  <2>3. PendingDiscipline' /\ ActiveDiscipline' /\ NoDoubleSale'
    BY <1>1, <2>1 DEF IInv, TypeOK, PendingDiscipline, ActiveDiscipline, NoDoubleSale
  <2> QED
    BY <2>2, <2>3 DEF IInv
<1> QED
  BY <1>2, <1>3

\* Inserting a seat row takes a seat that nobody has, committed or not.
LEMMA InsertKeepsIInv ==
  ASSUME IInv, NEW e \in Delivery, InsertSeat(e)
  PROVE  IInv'
<1>1. PICK s \in Want[RefOf(e)] :
        /\ pc[e] = "tx"
        /\ s \notin SeatsIn(active)
        /\ s \notin SeatsIn(pending)
        /\ pending' = pending \union {<<e, s>>}
        /\ UNCHANGED <<deliveryVars, booking, active>>
  BY DEF InsertSeat
<1>2. s \in Seat
  BY <1>1 DEF IInv, DeliveryDiscipline
<1>3. TypeOK' /\ DeliveryDiscipline'
  BY <1>1, <1>2 DEF IInv, TypeOK, DeliveryDiscipline, ReplyReady
<1>4. PendingDiscipline'
  BY <1>1, <1>2 DEF IInv, TypeOK, PendingDiscipline, SeatsIn
<1>5. ActiveDiscipline' /\ NoDoubleSale'
  BY <1>1 DEF IInv, ActiveDiscipline, NoDoubleSale
<1> QED
  BY <1>3, <1>4, <1>5 DEF IInv

\* A transaction that rolls back takes its own rows with it and nothing else.
LEMMA RollbackKeepsIInv ==
  ASSUME IInv, NEW e \in Delivery,
         pc[e] # "idle", Rollback(e), Leaves(e),
         UNCHANGED <<queueVars, redisVars, booking, active>>
  PROVE  IInv'
<1>1. TypeOK' /\ DeliveryDiscipline'
  <2>1. pending' \subseteq pending
    BY DEF Rollback
  <2> QED
    BY <2>1, LeavingKeepsReplies DEF IInv, TypeOK, DeliveryDiscipline
<1>2. PendingDiscipline'
  <2>1. \A row \in pending' : row \in pending /\ row[1] \in Delivery /\ row[1] # e
    BY DEF IInv, TypeOK, Rollback, RowsOf
  <2>2. \A d \in Delivery : d # e => pc'[d] = pc[d]
    BY LeavingKeepsReplies
  <2> QED
    BY <2>1, <2>2 DEF IInv, PendingDiscipline
<1>3. ActiveDiscipline' /\ NoDoubleSale'
  BY DEF IInv, ActiveDiscipline, NoDoubleSale
<1> QED
  BY <1>1, <1>2, <1>3 DEF IInv

\* The commit turns the transaction's rows, one for each seat asked for, into the
\* booking's ACTIVE rows.
LEMMA CommitKeepsIInv ==
  ASSUME IInv, NEW e \in Delivery, Commit(e)
  PROVE  IInv'
<1>1. /\ pc[e] = "tx" /\ booking[e] = "none"
      /\ booking' = [booking EXCEPT ![e] = "PAID"]
      /\ active' = active \union RowsOf(pending, e)
      /\ pending' = pending \ RowsOf(pending, e)
      /\ Leaves(e)
      /\ UNCHANGED <<queueVars, redisVars>>
  BY DEF Commit, Rollback, Answer, GiveUp, Goto, Leaves, IInv, DeliveryDiscipline
<1>2. \A row \in RowsOf(pending, e) :
        /\ row \in pending /\ row[1] = e /\ row = <<e, row[2]>>
        /\ row[2] \in Want[RefOf(e)]
  BY DEF IInv, TypeOK, PendingDiscipline, RowsOf
<1>3. \A s \in Want[RefOf(e)] : <<e, s>> \in RowsOf(pending, e)
  BY <1>2 DEF Commit, Inserted, SeatsIn
<1>4. TypeOK'
  BY <1>1, <1>2, LeavingKeepsReplies DEF IInv, TypeOK
<1>5. DeliveryDiscipline'
  <2>1. \A d \in Delivery : d # e => booking'[d] = booking[d]
    BY <1>1 DEF IInv, TypeOK
  <2> QED
    BY <1>1, <2>1, LeavingKeepsReplies DEF IInv, DeliveryDiscipline
<1>6. PendingDiscipline'
  <2>1. \A row \in pending' : row \in pending /\ row[1] \in Delivery /\ row[1] # e
    BY <1>1 DEF IInv, TypeOK, RowsOf
  <2>2. \A d \in Delivery : d # e => pc'[d] = pc[d]
    BY <1>1, LeavingKeepsReplies
  <2>3. \A x \in pending', y \in active' : x[2] # y[2]
    BY <1>1, <1>2, <2>1 DEF IInv, PendingDiscipline
  <2> QED
    BY <2>1, <2>2, <2>3 DEF IInv, PendingDiscipline
<1>7. ActiveDiscipline'
  <2>1. \A d \in Delivery : booking'[d] = IF d = e THEN "PAID" ELSE booking[d]
    BY <1>1 DEF IInv, TypeOK
  <2>2. \A row \in active' : booking'[row[1]] = "PAID" /\ row[2] \in Want[RefOf(row[1])]
    BY <1>1, <1>2, <2>1 DEF IInv, TypeOK, ActiveDiscipline
  <2>3. \A d \in Delivery : booking'[d] = "PAID" => \A s \in Want[RefOf(d)] : <<d, s>> \in active'
    BY <1>1, <1>3, <2>1 DEF IInv, ActiveDiscipline
  <2> QED
    BY <2>2, <2>3 DEF ActiveDiscipline
<1>8. NoDoubleSale'
  BY <1>1, <1>2 DEF IInv, PendingDiscipline, NoDoubleSale
<1> QED
  BY <1>4, <1>5, <1>6, <1>7, <1>8 DEF IInv

\* A refund removes the booking's rows and leaves every other booking complete.
LEMMA RefundKeepsIInv ==
  ASSUME IInv, NEW e \in Delivery, Refund(e)
  PROVE  IInv'
<1>1. /\ booking[e] = "PAID"
      /\ booking' = [booking EXCEPT ![e] = "CANCEL"]
      /\ active' = active \ RowsOf(active, e)
      /\ UNCHANGED <<deliveryVars, pending>>
  BY DEF Refund
<1>2. TypeOK' /\ DeliveryDiscipline'
  BY <1>1 DEF IInv, TypeOK, DeliveryDiscipline, ReplyReady
<1>3. PendingDiscipline' /\ NoDoubleSale'
  BY <1>1 DEF IInv, PendingDiscipline, NoDoubleSale
<1>4. ActiveDiscipline'
  <2>1. \A d \in Delivery : booking'[d] = IF d = e THEN "CANCEL" ELSE booking[d]
    BY <1>1 DEF IInv, TypeOK
  <2>2. \A row \in active' : row \in active /\ row[1] \in Delivery /\ row[1] # e
    BY <1>1 DEF IInv, TypeOK, RowsOf
  <2>3. \A d \in Delivery, s \in Seat : d # e /\ <<d, s>> \in active => <<d, s>> \in active'
    BY <1>1 DEF RowsOf
  <2>4. \A row \in active' : booking'[row[1]] = "PAID" /\ row[2] \in Want[RefOf(row[1])]
    BY <2>1, <2>2 DEF IInv, ActiveDiscipline
  <2>5. ASSUME NEW d \in Delivery, booking'[d] = "PAID", NEW s \in Want[RefOf(d)]
        PROVE  <<d, s>> \in active'
    <3>1. d # e /\ <<d, s>> \in active
      BY <2>1, <2>5 DEF IInv, ActiveDiscipline
    <3>2. s \in Seat
      BY <3>1 DEF IInv, TypeOK
    <3> QED
      BY <2>3, <3>1, <3>2
  <2> QED
    BY <2>4, <2>5 DEF ActiveDiscipline
<1> QED
  BY <1>2, <1>3, <1>4 DEF IInv

\* Every step keeps the inductive invariant.
LEMMA NextKeepsIInv == IInv /\ [Next]_vars => IInv'
<1> SUFFICES ASSUME IInv, [Next]_vars PROVE IInv'
  OBVIOUS
<1>1. CASE UNCHANGED vars
  BY <1>1 DEF IInv, TypeOK, DeliveryDiscipline, ReplyReady, PendingDiscipline,
              ActiveDiscipline, NoDoubleSale
<1>2. CASE \/ \E r \in Ref : (WriteApi(r) \/ Sqs(r) \/ Ttl(r)) /\ UNCHANGED tableVars
           \/ \E d \in Delivery : (HandlerStep(d) \/ HandlerFault(d)) /\ UNCHANGED tableVars
  BY <1>2, ProtocolKeepsIInv
<1>3. ASSUME NEW e \in Delivery, Refuse(e) \/ OpenBooking(e) PROVE IInv'
  BY <1>3, OpenKeepsIInv
<1>4. ASSUME NEW e \in Delivery, InsertSeat(e) PROVE IInv'
  BY <1>4, InsertKeepsIInv
<1>5. ASSUME NEW e \in Delivery, SeatTaken(e) \/ LockWaitFails(e) \/ StatementFails(e) PROVE IInv'
  <2>1. /\ pc[e] # "idle" /\ Rollback(e) /\ Leaves(e)
        /\ UNCHANGED <<queueVars, redisVars, booking, active>>
    BY <1>5 DEF SeatTaken, LockWaitFails, StatementFails, Answer, GiveUp, Goto, Leaves
  <2> QED
    BY <2>1, RollbackKeepsIInv
<1>6. ASSUME NEW e \in Delivery, WorkerCrash(e) PROVE IInv'
  <2>1. /\ pc[e] # "idle" /\ Rollback(e) /\ Leaves(e)
        /\ UNCHANGED <<queueVars, redisVars, booking, active>>
    BY <1>6 DEF WorkerCrash, Crash, Goto, Leaves
  <2> QED
    BY <2>1, RollbackKeepsIInv
<1>7. ASSUME NEW e \in Delivery, Commit(e) PROVE IInv'
  BY <1>7, CommitKeepsIInv
<1>8. ASSUME NEW e \in Delivery, Refund(e) PROVE IInv'
  BY <1>8, RefundKeepsIInv
<1> QED
  BY <1>1, <1>2, <1>3, <1>4, <1>5, <1>6, <1>7, <1>8 DEF Next, Transaction

-----------------------------------------------------------------------------
(* Theorems                                                                *)

LEMMA Invariance == Spec => []IInv
BY InitIInv, NextKeepsIInv, PTL DEF Spec

\* The variables keep their types.
THEOREM TypeCorrect == Spec => []TypeOK
<1>1. IInv => TypeOK
  BY DEF IInv
<1> QED
  BY <1>1, Invariance, PTL

\* No seat is ever sold twice, for any number of customers, workers, deliveries
\* and refunds, and whatever fails.
THEOREM SeatsAreSoldOnce == Spec => []NoDoubleSale
<1>1. IInv => NoDoubleSale
  BY DEF IInv
<1> QED
  BY <1>1, Invariance, PTL

\* Booking rows and seat rows always agree.
THEOREM BookingsAreWhole == Spec => []AllOrNothing
<1>1. IInv => AllOrNothing
  <2> SUFFICES ASSUME IInv, NEW d \in Delivery
               PROVE  SeatsIn(RowsOf(active, d))
                        = IF booking[d] = "PAID" THEN Want[RefOf(d)] ELSE {}
    BY DEF AllOrNothing
  <2>1. SeatsIn(RowsOf(active, d)) \subseteq Want[RefOf(d)]
    BY DEF IInv, ActiveDiscipline, SeatsIn, RowsOf
  <2>2. CASE booking[d] = "PAID"
    <3>1. \A s \in Want[RefOf(d)] : <<d, s>> \in RowsOf(active, d)
      BY <2>2 DEF IInv, ActiveDiscipline, RowsOf
    <3>2. Want[RefOf(d)] \subseteq SeatsIn(RowsOf(active, d))
      <4> SUFFICES ASSUME NEW s \in Want[RefOf(d)] PROVE s \in SeatsIn(RowsOf(active, d))
        OBVIOUS
      <4>1. <<d, s>>[2] = s /\ <<d, s>> \in RowsOf(active, d)
        BY <3>1
      <4> QED
        BY <4>1 DEF SeatsIn
    <3> QED
      BY <2>1, <2>2, <3>2
  <2>3. CASE booking[d] # "PAID"
    BY <2>3 DEF IInv, ActiveDiscipline, SeatsIn, RowsOf
  <2> QED
    BY <2>2, <2>3
<1> QED
  BY <1>1, Invariance, PTL

\* A request never has two live bookings, although nothing in the database knows
\* its booking_ref: the seats it asks for stand in for it.
THEOREM RequestsAreServedOnce == Spec => []OneLiveBookingPerRef
<1>1. IInv => OneLiveBookingPerRef
  <2> SUFFICES ASSUME IInv, NEW d \in Delivery, NEW e \in Delivery,
                      booking[d] = "PAID", booking[e] = "PAID", RefOf(d) = RefOf(e)
               PROVE  d = e
    BY DEF OneLiveBookingPerRef
  <2>1. PICK s \in Want[RefOf(d)] : TRUE
    BY WantAssumption
  <2>2. <<d, s>> \in active /\ <<e, s>> \in active
    BY <2>1 DEF IInv, ActiveDiscipline
  <2> QED
    BY <2>2 DEF IInv, NoDoubleSale
<1> QED
  BY <1>1, Invariance, PTL

-----------------------------------------------------------------------------
(* Refinement of SeatSale                                                  *)

\* A commit is a sale: its seats were free, and no other booking of the request
\* is live, or it would hold one of them.
LEMMA CommitIsSell ==
  ASSUME IInv, NEW e \in Delivery, Commit(e)
  PROVE  Sales!Sell(e)
<1> DEFINE seats == Want[RefOf(e)]
<1>1. /\ pc[e] = "tx" /\ booking[e] = "none" /\ seats \subseteq Seat
      /\ booking' = [booking EXCEPT ![e] = "PAID"]
      /\ active' = active \union RowsOf(pending, e)
      /\ SeatsIn(RowsOf(pending, e)) = seats
  BY DEF Commit, Inserted, IInv, DeliveryDiscipline
<1>2. \A row \in RowsOf(pending, e) : row \in pending /\ row = <<e, row[2]>> /\ row[2] \in seats
  BY <1>1 DEF IInv, TypeOK, RowsOf, SeatsIn
<1>3. \A s \in seats : <<e, s>> \in RowsOf(pending, e)
  BY <1>1, <1>2 DEF SeatsIn
<1>4. RowsOf(pending, e) = {e} \X seats
  BY <1>2, <1>3
<1>5. \A s \in seats : Sales!Free(s)
  <2>1. \A s \in seats : <<e, s>> \in pending
    BY <1>2, <1>3
  <2>2. \A s \in seats, row \in active : row[2] # <<e, s>>[2]
    BY <2>1 DEF IInv, PendingDiscipline
  <2> QED
    BY <2>2 DEF Sales!Free
<1>6. ASSUME NEW c \in Delivery, booking[c] = "PAID", RefOf(c) = RefOf(e)
      PROVE  FALSE
  <2>1. PICK s \in seats : TRUE
    BY WantAssumption
  <2>2. <<c, s>> \in active /\ <<c, s>>[2] = s
    BY <1>6, <2>1 DEF IInv, ActiveDiscipline
  <2> QED
    BY <1>5, <2>1, <2>2 DEF Sales!Free
<1> QED
  BY <1>1, <1>4, <1>5, <1>6 DEF Sales!Sell

\* Every step is a sale, a return, or leaves the sales alone.
LEMMA NextImplements == IInv /\ [Next]_vars => [Sales!SaleNext]_(Sales!saleVars)
<1> SUFFICES ASSUME IInv, [Next]_vars
             PROVE  Sales!SaleNext \/ UNCHANGED <<booking, active>>
  BY DEF Sales!saleVars
<1>1. ASSUME NEW e \in Delivery, Commit(e) PROVE Sales!SaleNext
  BY <1>1, CommitIsSell DEF Sales!SaleNext
<1>2. ASSUME NEW e \in Delivery, Refund(e) PROVE Sales!SaleNext
  <2>1. Sales!Return(e)
    BY <1>2 DEF Refund, RowsOf, Sales!Return
  <2> QED
    BY <2>1 DEF Sales!SaleNext
<1>3. CASE UNCHANGED tableVars \/ UNCHANGED vars
  BY <1>3
<1>4. ASSUME NEW e \in Delivery,
             \/ Refuse(e) \/ OpenBooking(e) \/ InsertSeat(e) \/ SeatTaken(e)
             \/ LockWaitFails(e) \/ StatementFails(e) \/ WorkerCrash(e)
      PROVE  UNCHANGED <<booking, active>>
  BY <1>4 DEF Refuse, OpenBooking, InsertSeat, SeatTaken, LockWaitFails, StatementFails, WorkerCrash
<1> QED
  BY <1>1, <1>2, <1>3, <1>4 DEF Next, Transaction

\* The whole pipeline sells seats the way SeatSale promises.
THEOREM Refinement == Spec => ImplementsSeatSale
<1>1. Init => Sales!SaleInit
  BY DEF Init, Sales!SaleInit
<1>2. IInv /\ [Next]_vars => [Sales!SaleNext]_(Sales!saleVars)
  BY NextImplements
<1> QED
  BY <1>1, <1>2, Invariance, PTL DEF Spec, ImplementsSeatSale, Sales!SaleSpec

-----------------------------------------------------------------------------
(* Answers                                                                 *)

\* OK is on its way, or was given, only for a row that was committed.
OkInv ==
  /\ \A d \in Delivery : reply[d] = "OK" => booking[d] # "none"
  /\ OkIsBacked

LEMMA NextKeepsOkInv == IInv /\ OkInv /\ [Next]_vars => OkInv'
<1> SUFFICES ASSUME IInv, OkInv, [Next]_vars PROVE OkInv'
  OBVIOUS
<1> USE DEF Goto, Answer, GiveUp
<1>1. \A d \in Delivery : booking[d] # "none" => booking'[d] # "none"
  <2>1. UNCHANGED booking \/ \E e \in Delivery : Commit(e) \/ Refund(e)
    BY DEF Next, Transaction, Refuse, OpenBooking, InsertSeat, SeatTaken, LockWaitFails,
           StatementFails, WorkerCrash
  <2> QED
    BY <2>1 DEF Commit, Refund, IInv, TypeOK
<1>2. CASE UNCHANGED <<told, reply>>
  BY <1>1, <1>2 DEF OkInv, OkIsBacked
<1>3. ASSUME NEW e \in Delivery, StoreResult(e), UNCHANGED tableVars PROVE OkInv'
  <2>1. \A d \in Delivery : reply'[d] = "OK" => reply[d] = "OK"
    BY <1>3 DEF StoreResult, IInv, TypeOK
  <2>2. \A r \in Ref : "OK" \in told'[r] => "OK" \in told[r] \/ (r = RefOf(e) /\ reply[e] = "OK")
    BY <1>3 DEF StoreResult, IInv, TypeOK
  <2> QED
    BY <1>3, <2>1, <2>2 DEF OkInv, OkIsBacked
<1>4. ASSUME NEW e \in Delivery, UNCHANGED told, NEW c \in {"NOT_FOUND", "INVALID_SEAT",
             "DUPLICATE_SEAT", "ERROR", NoCode}, reply' = [reply EXCEPT ![e] = c]
      PROVE  OkInv'
  BY <1>1, <1>4 DEF OkInv, OkIsBacked, IInv, TypeOK
<1>5. ASSUME NEW e \in Delivery, Commit(e) PROVE OkInv'
  <2>1. booking'[e] = "PAID" /\ UNCHANGED told
    BY <1>5 DEF Commit, IInv, TypeOK
  <2>2. \A d \in Delivery : d # e => reply'[d] = reply[d]
    BY <1>5 DEF Commit, IInv, TypeOK
  <2> QED
    BY <1>1, <2>1, <2>2 DEF OkInv, OkIsBacked
<1>6. ASSUME NEW r \in Ref, WriteApi(r) \/ Sqs(r) \/ Ttl(r) PROVE UNCHANGED <<told, reply>>
  BY <1>6 DEF WriteApi, Sqs, Ttl, SendMessage, MarkQueued, Receive, VisibilityTimeout,
              MoveToDLQ, ExpireResult, ExpireQueued
<1>7. ASSUME NEW e \in Delivery, HandlerStep(e) \/ HandlerFault(e), UNCHANGED tableVars
      PROVE  OkInv'
  <2>1. CASE DuplicateCheck(e) \/ DuplicateCheckFails(e) \/ ConnectFails(e) \/ ClearQueued(e) \/ Ack(e)
    BY <1>2, <2>1 DEF DuplicateCheck, DuplicateCheckFails, ConnectFails, ClearQueued, Ack
  <2>2. CASE StoreResultFails(e)
    BY <1>4, <2>2 DEF StoreResultFails
  <2> QED
    BY <1>3, <1>7, <2>1, <2>2 DEF HandlerStep, HandlerFault
<1>8. ASSUME NEW e \in Delivery,
             Refuse(e) \/ SeatTaken(e) \/ LockWaitFails(e) \/ StatementFails(e) \/ WorkerCrash(e)
      PROVE  OkInv'
  BY <1>2, <1>4, <1>8 DEF Refuse, SeatTaken, LockWaitFails, StatementFails, WorkerCrash, Crash
<1>9. ASSUME NEW e \in Delivery, OpenBooking(e) \/ InsertSeat(e) \/ Refund(e)
      PROVE  UNCHANGED <<told, reply>>
  BY <1>9 DEF OpenBooking, InsertSeat, Refund
<1> QED
  BY <1>2, <1>5, <1>6, <1>7, <1>8, <1>9 DEF Next, Transaction

\* OK is only ever answered for a committed booking.
THEOREM OkAnswersAreTrue == Spec => []OkIsBacked
<1>1. Init => OkInv
  BY DEF Init, DeliveryInit, OkInv, OkIsBacked
<1>2. OkInv => OkIsBacked
  BY DEF OkInv
<1> QED
  BY <1>1, <1>2, Invariance, NextKeepsOkInv, PTL DEF Spec

\* Positions from which a handler can acknowledge.
AnswerInv ==
  /\ \A r \in Ref : result[r] # NoCode => told[r] # {}
  /\ \A d \in Delivery : pc[d] \in {"unqueue", "ack"} => told[RefOf(d)] # {}
  /\ AnsweredBeforeDeleted

\* A transaction step stores nothing, deletes nothing, and ends before the ACK.
LEMMA TransactionKeepsAnswerInv ==
  ASSUME IInv, AnswerInv, NEW e \in Delivery,
         Transaction(e) \/ StatementFails(e) \/ WorkerCrash(e) \/ Refund(e)
  PROVE  AnswerInv'
<1>1. UNCHANGED <<queueVars, redisVars>>
  BY DEF Transaction, Refuse, OpenBooking, InsertSeat, SeatTaken, LockWaitFails, Commit,
         StatementFails, WorkerCrash, Crash, Refund
<1>2. pc' = pc \/ \E p \in {"tx", "store", "done"} : pc' = [pc EXCEPT ![e] = p]
  BY DEF Transaction, Refuse, OpenBooking, InsertSeat, SeatTaken, LockWaitFails, Commit,
         StatementFails, WorkerCrash, Crash, Refund, Goto, Answer, GiveUp
<1>3. \A d \in Delivery : pc'[d] \in {"unqueue", "ack"} => pc[d] \in {"unqueue", "ack"}
  BY <1>2 DEF IInv, TypeOK
<1> QED
  BY <1>1, <1>3 DEF AnswerInv, AnsweredBeforeDeleted

\* The command that stores a result is the one that answers the request.
LEMMA StoreResultKeepsAnswerInv ==
  ASSUME TypeOK, AnswerInv, NEW e \in Delivery, StoreResult(e)
  PROVE  AnswerInv'
<1>1. \A d \in Delivery : RefOf(d) \in Ref
  BY DEF Delivery, RefOf
<1>2. \A r \in Ref : told'[r] = IF r = RefOf(e) THEN told[r] \union {reply[e]} ELSE told[r]
  BY DEF StoreResult, TypeOK, DeliveryTypeOK
<1>3. \A r \in Ref : told[r] # {} => told'[r] # {}
  BY <1>2
<1>4. told'[RefOf(e)] # {}
  BY <1>1, <1>2
<1>5. \A r \in Ref : result'[r] # NoCode => told'[r] # {}
  <2>1. \A r \in Ref : r # RefOf(e) => result'[r] = result[r]
    BY DEF StoreResult, TypeOK, DeliveryTypeOK
  <2> QED
    BY <1>3, <1>4, <2>1 DEF AnswerInv
<1>6. \A d \in Delivery : pc'[d] \in {"unqueue", "ack"} => told'[RefOf(d)] # {}
  <2>1. \A d \in Delivery : d # e => pc'[d] = pc[d]
    BY DEF StoreResult, Goto, TypeOK, DeliveryTypeOK
  <2> QED
    BY <1>1, <1>3, <1>4, <2>1 DEF AnswerInv
<1>7. AnsweredBeforeDeleted'
  BY <1>3 DEF AnswerInv, AnsweredBeforeDeleted, StoreResult, queueVars
<1> QED
  BY <1>5, <1>6, <1>7 DEF AnswerInv

LEMMA NextKeepsAnswerInv == IInv /\ AnswerInv /\ [Next]_vars => AnswerInv'
<1> SUFFICES ASSUME IInv, AnswerInv, [Next]_vars PROVE AnswerInv'
  OBVIOUS
<1> USE DEF Goto, IInv, TypeOK, AnswerInv, AnsweredBeforeDeleted
<1>1. ASSUME NEW r \in Ref, SendMessage(r) \/ MarkQueued(r) PROVE AnswerInv'
  BY <1>1 DEF SendMessage, MarkQueued
<1>2. ASSUME NEW r \in Ref, Sqs(r) PROVE AnswerInv'
  <2>1. CASE Receive(r)
    BY <2>1, MaxReceiveAssumption DEF Receive
  <2>2. CASE VisibilityTimeout(r)
    BY <2>2 DEF VisibilityTimeout
  <2>3. CASE MoveToDLQ(r)
    BY <2>3 DEF MoveToDLQ
  <2> QED
    BY <1>2, <2>1, <2>2, <2>3 DEF Sqs
<1>3. ASSUME NEW r \in Ref, Ttl(r) PROVE AnswerInv'
  BY <1>3 DEF Ttl, ExpireResult, ExpireQueued
<1>4. ASSUME NEW e \in Delivery, DuplicateCheck(e) PROVE AnswerInv'
  BY <1>4 DEF DuplicateCheck
<1>5. ASSUME NEW e \in Delivery, StoreResult(e) PROVE AnswerInv'
  BY <1>5, StoreResultKeepsAnswerInv
<1>6. ASSUME NEW e \in Delivery, ClearQueued(e) PROVE AnswerInv'
  BY <1>6 DEF ClearQueued
<1>7. ASSUME NEW e \in Delivery, Ack(e) PROVE AnswerInv'
  BY <1>7 DEF Ack
<1>8. ASSUME NEW e \in Delivery, HandlerFault(e) PROVE AnswerInv'
  BY <1>8 DEF HandlerFault, DuplicateCheckFails, ConnectFails, StoreResultFails
<1>9. CASE UNCHANGED vars
  BY <1>9
<1> QED
  BY <1>1, <1>2, <1>3, <1>4, <1>5, <1>6, <1>7, <1>8, <1>9, TransactionKeepsAnswerInv
     DEF Next, WriteApi, HandlerStep

\* No message is deleted unanswered, under any fault.
THEOREM NothingIsDroppedSilently == Spec => []AnsweredBeforeDeleted
<1>1. Init => AnswerInv
  BY DEF Init, DeliveryInit, AnswerInv, AnsweredBeforeDeleted
<1>2. AnswerInv => AnsweredBeforeDeleted
  BY DEF AnswerInv
<1> QED
  BY <1>1, <1>2, Invariance, NextKeepsAnswerInv, PTL DEF Spec

-----------------------------------------------------------------------------
(* One handler at a time                                                   *)

NoOverlap == "slow" \notin Faults /\ "redis" \notin Faults

\* A message is in flight while a handler works on it, and that is its latest delivery;
\* a handler that found no result stores the first one.
SoloInv ==
  /\ \A r \in Ref : api[r] = "new" => msg[r] = "unsent"
  /\ \A d \in Delivery : pc[d] \in Running => d[2] = receives[d[1]] /\ msg[d[1]] = "inflight"
  /\ \A d \in Delivery : pc[d] \in {"begin", "tx", "store"} => result[d[1]] = NoCode

\* Two running handlers of one message are one.
LEMMA OneHandler ==
  ASSUME SoloInv, NEW d \in Delivery, NEW e \in Delivery,
         pc[d] \in Running, pc[e] \in Running, d[1] = e[1]
  PROVE  d = e
BY DEF SoloInv

\* Steps of a handler that keep it running, or end it, with the result as it is.
LEMMA HandlerKeepsSolo ==
  ASSUME IInv, SoloInv, NEW e \in Delivery, pc[e] \in Running,
         NEW p \in Running \union {"done"}, pc' = [pc EXCEPT ![e] = p],
         p \in {"begin", "tx", "store"} => result[e[1]] = NoCode,
         UNCHANGED <<queueVars, result>>
  PROVE  SoloInv'
<1>1. pc'[e] = p /\ \A d \in Delivery : d # e => pc'[d] = pc[d]
  BY DEF IInv, TypeOK
<1> QED
  BY <1>1 DEF SoloInv

LEMMA QueueKeepsSolo ==
  ASSUME NoOverlap, IInv, SoloInv, NEW r \in Ref, WriteApi(r) \/ Sqs(r) \/ Ttl(r)
  PROVE  SoloInv'
<1> USE DEF IInv, TypeOK, SoloInv
<1>1. CASE SendMessage(r)
  <2>1. \A d \in Delivery : d[1] = r => pc[d] \notin Running
    BY <1>1 DEF SendMessage
  <2> QED
    BY <1>1, <2>1 DEF SendMessage
<1>2. CASE MarkQueued(r)
  BY <1>2 DEF MarkQueued
<1>3. CASE Receive(r)
  <2> DEFINE d == <<r, receives[r] + 1>>
  <2>1. msg[r] = "visible" /\ d \in Delivery
    BY <1>3, MaxReceiveAssumption DEF Receive
  <2>2. \A e \in Delivery : e[1] = r => pc[e] \notin Running
    BY <2>1
  <2>3. /\ pc'[d] = "check" /\ receives'[r] = receives[r] + 1 /\ msg'[r] = "inflight" /\ result' = result
        /\ \A e \in Delivery : e # d => pc'[e] = pc[e]
        /\ \A q \in Ref : q # r => receives'[q] = receives[q] /\ msg'[q] = msg[q]
    BY <1>3, <2>1 DEF Receive
  <2>4. ASSUME NEW e \in Delivery, pc'[e] \in Running
        PROVE  e[2] = receives'[e[1]] /\ msg'[e[1]] = "inflight"
    <3>1. CASE e = d
      BY <2>3, <3>1
    <3>2. CASE e # d
      <4>1. pc[e] \in Running /\ e[1] # r
        BY <2>2, <2>3, <2>4, <3>2
      <4> QED
        BY <2>3, <4>1
    <3> QED
      BY <3>1, <3>2
  <2>5. \A e \in Delivery : pc'[e] \in {"begin", "tx", "store"} => result'[e[1]] = NoCode
    BY <2>3
  <2>6. api' = api /\ \A q \in Ref : api'[q] = "new" => msg'[q] = "unsent"
    BY <1>3, <2>1, <2>3 DEF Receive
  <2> QED
    BY <2>4, <2>5, <2>6
<1>4. CASE VisibilityTimeout(r)
  <2>1. \A d \in Delivery : d[1] = r => pc[d] \notin Running
    BY <1>4 DEF VisibilityTimeout, NoOverlap
  <2> QED
    BY <1>4, <2>1 DEF VisibilityTimeout
<1>5. CASE MoveToDLQ(r)
  <2>1. \A d \in Delivery : d[1] = r => pc[d] \notin Running
    BY <1>5 DEF MoveToDLQ
  <2> QED
    BY <1>5, <2>1 DEF MoveToDLQ
<1>6. CASE Ttl(r)
  BY <1>6 DEF Ttl, ExpireResult, ExpireQueued
<1> QED
  BY <1>1, <1>2, <1>3, <1>4, <1>5, <1>6 DEF WriteApi, Sqs

LEMMA StoreKeepsSolo ==
  ASSUME IInv, SoloInv, NEW e \in Delivery, StoreResult(e)
  PROVE  SoloInv'
<1>1. /\ pc[e] = "store" /\ pc'[e] = "unqueue" /\ UNCHANGED queueVars
      /\ \A d \in Delivery : d # e => pc'[d] = pc[d]
      /\ \A r \in Ref : r # e[1] => result'[r] = result[r]
  BY DEF StoreResult, Goto, IInv, TypeOK
<1>2. \A d \in Delivery : d # e /\ d[1] = e[1] => pc[d] \notin Running
  BY <1>1, OneHandler
<1> QED
  BY <1>1, <1>2 DEF SoloInv

LEMMA AckKeepsSolo ==
  ASSUME IInv, SoloInv, NEW e \in Delivery, Ack(e)
  PROVE  SoloInv'
<1>1. /\ pc[e] = "ack" /\ pc'[e] = "done" /\ UNCHANGED <<api, receives, result>>
      /\ \A d \in Delivery : d # e => pc'[d] = pc[d]
      /\ \A r \in Ref : r # e[1] => msg'[r] = msg[r]
  BY DEF Ack, Goto, IInv, TypeOK
<1>2. \A d \in Delivery : d # e /\ d[1] = e[1] => pc[d] \notin Running
  BY <1>1, OneHandler
<1> QED
  BY <1>1, <1>2 DEF SoloInv

LEMMA NextKeepsSolo ==
  ASSUME NoOverlap
  PROVE  IInv /\ SoloInv /\ [Next]_vars => SoloInv'
<1> SUFFICES ASSUME IInv, SoloInv, [Next]_vars PROVE SoloInv'
  OBVIOUS
<1> USE DEF Goto, Answer, GiveUp
<1>1. ASSUME NEW r \in Ref, WriteApi(r) \/ Sqs(r) \/ Ttl(r) PROVE SoloInv'
  BY <1>1, QueueKeepsSolo
<1>2. ASSUME NEW e \in Delivery, DuplicateCheck(e) \/ ConnectFails(e) \/ ClearQueued(e) PROVE SoloInv'
  <2>1. /\ pc[e] \in Running /\ UNCHANGED <<queueVars, result>>
        /\ \E p \in {"begin", "ack", "done"} :
              pc' = [pc EXCEPT ![e] = p] /\ (p = "begin" => result[e[1]] = NoCode)
    BY <1>2 DEF DuplicateCheck, ConnectFails, ClearQueued
  <2> QED
    BY <2>1, HandlerKeepsSolo
<1>3. ASSUME NEW e \in Delivery, Transaction(e) \/ StatementFails(e) \/ WorkerCrash(e) PROVE SoloInv'
  <2>1. UNCHANGED <<queueVars, result>>
    BY <1>3 DEF Transaction, Refuse, OpenBooking, InsertSeat, SeatTaken, LockWaitFails, Commit,
                StatementFails, WorkerCrash, Crash
  <2>2. \/ pc' = pc
        \/ /\ pc[e] \in {"begin", "tx"}
           /\ \E p \in {"tx", "store", "done"} : pc' = [pc EXCEPT ![e] = p]
        \/ pc[e] \in Running /\ pc' = [pc EXCEPT ![e] = "done"]
    BY <1>3 DEF Transaction, Refuse, OpenBooking, InsertSeat, SeatTaken, LockWaitFails, Commit,
                StatementFails, WorkerCrash, Crash
  <2>3. CASE pc' = pc
    BY <2>1, <2>3 DEF SoloInv
  <2>4. pc[e] \in {"begin", "tx"} => result[e[1]] = NoCode
    BY DEF SoloInv
  <2> QED
    BY <2>1, <2>2, <2>3, <2>4, HandlerKeepsSolo
<1>4. ASSUME NEW e \in Delivery, Refund(e) PROVE SoloInv'
  BY <1>4 DEF Refund, SoloInv
<1>5. CASE UNCHANGED vars
  BY <1>5 DEF SoloInv
<1>6. ASSUME NEW e \in Delivery, DuplicateCheckFails(e) \/ StoreResultFails(e) PROVE FALSE
  BY <1>6 DEF DuplicateCheckFails, StoreResultFails, NoOverlap
<1> QED
  BY <1>1, <1>2, <1>3, <1>4, <1>5, <1>6, StoreKeepsSolo, AckKeepsSolo DEF Next, HandlerStep, HandlerFault

\* Without handlers that outlive the visibility timeout and without failing Redis commands
\* the stored answer of a request is never replaced by another: the duplicate check is
\* enough for every crash, lost ACK, broken connection and expiry.
THEOREM TheResultIsFinal ==
  ASSUME "slow" \notin Faults, "redis" \notin Faults
  PROVE  Spec => ResultIsFinal
<1> USE DEF NoOverlap
<1>1. Init => SoloInv
  BY DEF Init, DeliveryInit, SoloInv
<1>2. Spec => []SoloInv
  BY <1>1, Invariance, NextKeepsSolo, PTL DEF Spec
<1>3. IInv /\ SoloInv /\ [Next]_vars
        => [\A r \in Ref : result[r] # NoCode => result'[r] \in {result[r], NoCode}]_result
  <2> SUFFICES ASSUME IInv, SoloInv, [Next]_vars, NEW r \in Ref, result[r] # NoCode
               PROVE  result'[r] \in {result[r], NoCode}
    OBVIOUS
  <2>1. \/ UNCHANGED result
        \/ \E q \in Ref : ExpireResult(q)
        \/ \E e \in Delivery : StoreResult(e)
    BY DEF Next, WriteApi, SendMessage, MarkQueued, Sqs, Receive, VisibilityTimeout, MoveToDLQ, Ttl,
           ExpireQueued, HandlerStep, DuplicateCheck, ClearQueued, Ack, HandlerFault,
           DuplicateCheckFails, ConnectFails, StoreResultFails, Transaction, Refuse, OpenBooking,
           InsertSeat, SeatTaken, LockWaitFails, Commit, StatementFails, WorkerCrash, Crash, Refund
  <2>2. CASE \E q \in Ref : ExpireResult(q)
    BY <2>2 DEF ExpireResult, IInv, TypeOK
  <2>3. ASSUME NEW e \in Delivery, StoreResult(e) PROVE result'[r] = result[r]
    <3>1. result[e[1]] = NoCode /\ e[1] # r
      BY <2>3 DEF StoreResult, SoloInv
    <3> QED
      BY <2>3, <3>1 DEF StoreResult, IInv, TypeOK
  <2> QED
    BY <2>1, <2>2, <2>3
<1> QED
  BY <1>2, <1>3, Invariance, PTL DEF Spec, ResultIsFinal

-----------------------------------------------------------------------------
(* Failures                                                                *)

OnlyLostAcks == Faults \subseteq {"delete"}

\* What was booked is answered with OK, or that answer is on its way.
KeptInv ==
  \A d \in Delivery : booking[d] # "none" =>
    result[d[1]] = "OK" \/ (pc[d] = "store" /\ reply[d] = "OK")

LEMMA NextKeepsKept ==
  ASSUME OnlyLostAcks
  PROVE  IInv /\ SoloInv /\ KeptInv /\ [Next]_vars => KeptInv'
<1> SUFFICES ASSUME IInv, SoloInv, KeptInv, [Next]_vars PROVE KeptInv'
  OBVIOUS
<1> USE DEF Goto, Answer, GiveUp, IInv, TypeOK
<1>1. CASE UNCHANGED <<booking, result, reply>> /\ \A d \in Delivery : pc[d] = "store" => pc'[d] = "store"
  BY <1>1 DEF KeptInv
<1>2. ASSUME NEW r \in Ref, WriteApi(r) \/ Sqs(r) \/ Ttl(r), UNCHANGED tableVars PROVE KeptInv'
  <2>1. UNCHANGED <<result, reply>>
    BY <1>2 DEF WriteApi, SendMessage, MarkQueued, Sqs, Receive, VisibilityTimeout, MoveToDLQ, Ttl,
                ExpireResult, ExpireQueued, OnlyLostAcks
  <2>2. \A d \in Delivery : pc[d] = "store" => pc'[d] = "store"
    <3>1. CASE Receive(r)
      <4>1. receives[r] + 1 \in 1..MaxReceive
        BY <3>1, MaxReceiveAssumption DEF Receive
      <4>2. pc[<<r, receives[r] + 1>>] = "idle"
        BY <4>1 DEF DeliveryDiscipline
      <4> QED
        BY <3>1, <4>2 DEF Receive
    <3>2. CASE ~Receive(r)
      BY <1>2, <3>2 DEF WriteApi, SendMessage, MarkQueued, Sqs, VisibilityTimeout, MoveToDLQ, Ttl,
                        ExpireResult, ExpireQueued
    <3> QED
      BY <3>1, <3>2
  <2> QED
    BY <1>1, <1>2, <2>1, <2>2
<1>3. ASSUME NEW e \in Delivery, DuplicateCheck(e) \/ ClearQueued(e) \/ Ack(e), UNCHANGED tableVars
      PROVE  KeptInv'
  BY <1>1, <1>3 DEF DuplicateCheck, ClearQueued, Ack
<1>4. ASSUME NEW e \in Delivery, StoreResult(e), UNCHANGED tableVars PROVE KeptInv'
  <2> SUFFICES ASSUME NEW d \in Delivery, booking[d] # "none"
               PROVE  result'[d[1]] = "OK" \/ (pc'[d] = "store" /\ reply'[d] = "OK")
    BY <1>4 DEF KeptInv
  <2>1. CASE d[1] # e[1]
    BY <1>4, <2>1 DEF StoreResult, KeptInv
  <2>2. CASE d[1] = e[1]
    <3>1. result[e[1]] = NoCode /\ pc[e] = "store"
      BY <1>4 DEF StoreResult, SoloInv
    <3>2. pc[d] = "store" /\ reply[d] = "OK"
      BY <2>2, <3>1 DEF KeptInv
    <3>3. d = e
      BY <2>2, <3>1, <3>2, OneHandler
    <3> QED
      BY <1>4, <3>2, <3>3 DEF StoreResult
  <2> QED
    BY <2>1, <2>2
<1>5. ASSUME NEW e \in Delivery, Refuse(e) \/ SeatTaken(e) \/ LockWaitFails(e) PROVE KeptInv'
  <2>1. booking[e] = "none" /\ UNCHANGED <<booking, result>>
    BY <1>5 DEF Refuse, SeatTaken, LockWaitFails, DeliveryDiscipline
  <2>2. \A d \in Delivery : d # e => pc'[d] = pc[d] /\ reply'[d] = reply[d]
    BY <1>5 DEF Refuse, SeatTaken, LockWaitFails
  <2> QED
    BY <2>1, <2>2 DEF KeptInv
<1>6. ASSUME NEW e \in Delivery, OpenBooking(e) \/ InsertSeat(e) PROVE KeptInv'
  BY <1>1, <1>6 DEF OpenBooking, InsertSeat
<1>7. ASSUME NEW e \in Delivery, Commit(e) PROVE KeptInv'
  <2>1. /\ UNCHANGED result /\ pc'[e] = "store" /\ reply'[e] = "OK"
        /\ \A d \in Delivery : d # e => pc'[d] = pc[d] /\ reply'[d] = reply[d] /\ booking'[d] = booking[d]
    BY <1>7 DEF Commit, OnlyLostAcks
  <2> QED
    BY <2>1 DEF KeptInv
<1>8. ASSUME NEW e \in Delivery, Refund(e) PROVE KeptInv'
  <2>1. UNCHANGED <<result, pc, reply>> /\ \A d \in Delivery : booking'[d] # "none" => booking[d] # "none"
    BY <1>8 DEF Refund
  <2> QED
    BY <2>1 DEF KeptInv
<1>9. CASE UNCHANGED vars
  BY <1>1, <1>9
<1>10. ASSUME NEW e \in Delivery, HandlerFault(e) \/ StatementFails(e) \/ WorkerCrash(e) PROVE FALSE
  BY <1>10 DEF HandlerFault, DuplicateCheckFails, ConnectFails, StoreResultFails, StatementFails,
               WorkerCrash, Crash, OnlyLostAcks
<1> QED
  BY <1>2, <1>3, <1>4, <1>5, <1>6, <1>7, <1>8, <1>9, <1>10 DEF Next, Transaction, HandlerStep

\* A request that is answered with a failure is not booked, whatever is refunded and
\* however often delete_message fails, if nothing else does.
THEOREM FailuresAreTrue ==
  ASSUME Faults \subseteq {"delete"}
  PROVE  Spec => []FailureMeansNotBooked
<1>1. NoOverlap /\ OnlyLostAcks
  BY DEF NoOverlap, OnlyLostAcks
<1>2. Init => SoloInv /\ KeptInv
  BY DEF Init, DeliveryInit, SoloInv, KeptInv
<1>3. SoloInv /\ KeptInv => FailureMeansNotBooked
  <2> SUFFICES ASSUME SoloInv, KeptInv, NEW d \in Delivery,
                      result[d[1]] \in {"DUPLICATE_SEAT", "ERROR"}
               PROVE  booking[d] # "PAID"
    BY DEF FailureMeansNotBooked
  <2> QED
    BY DEF SoloInv, KeptInv
<1> QED
  BY <1>1, <1>2, <1>3, Invariance, NextKeepsSolo, NextKeepsKept, PTL DEF Spec

=============================================================================
