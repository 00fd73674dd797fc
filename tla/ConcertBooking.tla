---------------------------- MODULE ConcertBooking ----------------------------
(***************************************************************************)
(* A concert booking from the queue to the database: process_concert_      *)
(* booking of worker-svc inside the delivery protocol, and the refund of   *)
(* write-api.                                                              *)
(*                                                                         *)
(* Nothing locks the show row.  Seats are taken by inserting into          *)
(* concert_booking_seats, whose unique index over ACTIVE rows makes a      *)
(* second insert of a seat fail, or wait while the first is uncommitted.   *)
(* A delivery inserts at most one booking row, so <<ref, receive count>>   *)
(* names the row; no table stores the booking_ref.                         *)
(***************************************************************************)
EXTENDS BookingDelivery

CONSTANTS Seat,         \* the seats inside the rows x columns of the show
          Want,         \* the distinct seats a request names
          KnownShow,    \* requests whose show exists
          KnownUser     \* requests whose user exists (foreign key)

\* commit_concert_booking refuses a request without seats.
ASSUME WantAssumption == DOMAIN Want = Ref /\ \A r \in Ref : Want[r] # {}
ASSUME KnownAssumption == KnownShow \subseteq Ref /\ KnownUser \subseteq Ref

VARIABLES booking,      \* concert_booking (with its payment row): book_status, or "none"
          active,       \* committed ACTIVE rows <<booking, seat>> of concert_booking_seats
          pending       \* rows inserted by transactions that are still open

tableVars == <<booking, active, pending>>
vars == <<deliveryVars, tableVars>>

RowsOf(rows, d)  == {row \in rows : row[1] = d}
SeatsIn(rows)    == {row[2] : row \in rows}
Inserted(d)      == SeatsIn(RowsOf(pending, d))
Rollback(d)      == pending' = pending \ RowsOf(pending, d)

TypeOK ==
  /\ DeliveryTypeOK
  /\ booking \in [Delivery -> {"none", "PAID", "CANCEL"}]
  /\ active \subseteq Delivery \X Seat
  /\ pending \subseteq Delivery \X Seat

Init ==
  /\ DeliveryInit
  /\ booking = [d \in Delivery |-> "none"]
  /\ active = {}
  /\ pending = {}

-----------------------------------------------------------------------------
(* process_concert_booking                                                 *)

\* The statements before the seats: show lookup, seat bounds, the booking row
\* (whose only possible integrity error, an unknown user, is answered with the
\* code of a seat conflict).
Refuse(d) ==
  LET r == RefOf(d) IN
  /\ pc[d] = "begin"
  /\ \/ r \notin KnownShow /\ Answer(d, "NOT_FOUND")
     \/ r \in KnownShow /\ ~(Want[r] \subseteq Seat) /\ Answer(d, "INVALID_SEAT")
     \/ /\ r \in KnownShow \ KnownUser
        /\ Want[r] \subseteq Seat
        /\ Answer(d, "DUPLICATE_SEAT")
  /\ UNCHANGED <<queueVars, redisVars, tableVars>>

OpenBooking(d) ==
  /\ pc[d] = "begin"
  /\ RefOf(d) \in KnownShow \intersect KnownUser
  /\ Want[RefOf(d)] \subseteq Seat
  /\ Goto(d, "tx")
  /\ UNCHANGED <<queueVars, redisVars, reply, tableVars>>

\* Mutant: no unique index over the ACTIVE rows.
InsertSeatUnchecked(d) ==
  \E s \in Want[RefOf(d)] \ Inserted(d) :
    /\ pc[d] = "tx"
    /\ pending' = pending \union {<<d, s>>}
    /\ UNCHANGED <<deliveryVars, booking, active>>

\* The multi-row INSERT locks index entries one row after the other, in the
\* order the client listed the seats; it waits while another open transaction
\* has the entry.
InsertSeat(d) ==
  \E s \in Want[RefOf(d)] \ Inserted(d) :
    /\ pc[d] = "tx"
    /\ s \notin SeatsIn(active)
    /\ s \notin SeatsIn(pending)
    /\ pending' = pending \union {<<d, s>>}
    /\ UNCHANGED <<deliveryVars, booking, active>>

\* Mutant: an integrity error is taken for an earlier delivery's success.
SeatTakenMeansDone(d) ==
  \E s \in Want[RefOf(d)] \ Inserted(d) :
    /\ pc[d] = "tx"
    /\ s \in SeatsIn(active)
    /\ Rollback(d)
    /\ Answer(d, "OK")
    /\ UNCHANGED <<queueVars, redisVars, booking, active>>

\* uq_concert_booking_seats_active_seat: a committed ACTIVE row exists.
SeatTaken(d) ==
  \E s \in Want[RefOf(d)] \ Inserted(d) :
    /\ pc[d] = "tx"
    /\ s \in SeatsIn(active)
    /\ Rollback(d)
    /\ Answer(d, "DUPLICATE_SEAT")
    /\ UNCHANGED <<queueVars, redisVars, booking, active>>

\* Mutant: a wait for another transaction's seat never ends by itself.
LockWaitForEver(d) == FALSE

\* InnoDB ends the wait: deadlock victim or innodb_lock_wait_timeout.
LockWaitFails(d) ==
  \E s \in Want[RefOf(d)] \ Inserted(d) :
    /\ pc[d] = "tx"
    /\ s \in SeatsIn(pending)
    /\ Rollback(d)
    /\ Answer(d, "ERROR")
    /\ UNCHANGED <<queueVars, redisVars, booking, active>>

\* A statement (or the commit) fails in MySQL, which keeps nothing: the handler rolls
\* back and answers ERROR, or has lost the connection.
StatementFails(d) ==
  /\ "db" \in Faults
  /\ pc[d] = "tx"
  /\ Rollback(d)
  /\ Answer(d, "ERROR") \/ GiveUp(d)
  /\ UNCHANGED <<queueVars, redisVars, booking, active>>

\* Mutant: INSERT IGNORE, the booking takes the seats it can get.
CommitPartly(d) ==
  /\ pc[d] = "tx"
  /\ Inserted(d) # {}
  /\ booking' = [booking EXCEPT ![d] = "PAID"]
  /\ active' = active \union RowsOf(pending, d)
  /\ Rollback(d)
  /\ Answer(d, "OK")
  /\ UNCHANGED <<queueVars, redisVars>>

\* conn.commit(), after the payment row: everything becomes visible at once.
\* If the connection breaks while MySQL acknowledges, the rows are there but the
\* handler sees an exception and can neither roll back nor answer.
Commit(d) ==
  /\ pc[d] = "tx"
  /\ Inserted(d) = Want[RefOf(d)]
  /\ booking' = [booking EXCEPT ![d] = "PAID"]
  /\ active' = active \union RowsOf(pending, d)
  /\ Rollback(d)
  /\ \/ Answer(d, "OK")
     \/ "db" \in Faults /\ GiveUp(d)
  /\ UNCHANGED <<queueVars, redisVars>>

\* Dying with an open transaction makes MySQL roll it back.
WorkerCrash(d) ==
  /\ Crash(d)
  /\ Rollback(d)
  /\ UNCHANGED <<booking, active>>

-----------------------------------------------------------------------------
(* write-api: _refund_concert_booking, one transaction on the locked row   *)

\* Mutant: the refund forgets the seat rows.
RefundKeepsSeats(d) ==
  /\ booking[d] = "PAID"
  /\ booking' = [booking EXCEPT ![d] = "CANCEL"]
  /\ UNCHANGED <<deliveryVars, active, pending>>

Refund(d) ==
  /\ booking[d] = "PAID"
  /\ booking' = [booking EXCEPT ![d] = "CANCEL"]
  /\ active' = active \ RowsOf(active, d)
  /\ UNCHANGED <<deliveryVars, pending>>

-----------------------------------------------------------------------------
Transaction(d) ==
  Refuse(d) \/ OpenBooking(d) \/ InsertSeat(d) \/ SeatTaken(d) \/ LockWaitFails(d) \/ Commit(d)

Next ==
  \/ \E r \in Ref : (WriteApi(r) \/ Sqs(r) \/ Ttl(r)) /\ UNCHANGED tableVars
  \/ \E d \in Delivery :
       \/ (HandlerStep(d) \/ HandlerFault(d)) /\ UNCHANGED tableVars
       \/ Transaction(d)
       \/ StatementFails(d)
       \/ WorkerCrash(d)
       \/ Refund(d)

Spec == Init /\ [][Next]_vars

\* The poll loops never stop and boto retries, so a visible message is received
\* and a running handler takes its next step; a lock wait ends by success or by
\* InnoDB's timeout.  Customers, faults and TTLs get no fairness.
FairSpec ==
  /\ Spec
  /\ \A r \in Ref : WF_vars(Sqs(r) /\ UNCHANGED tableVars)
  /\ \A d \in Delivery :
       WF_vars((HandlerStep(d) /\ UNCHANGED tableVars) \/ Transaction(d))

-----------------------------------------------------------------------------
(* Properties                                                              *)

\* A seat of a show has at most one ACTIVE row (concert_load_verify.sql calls
\* two of them a double-booking bug), whatever is redelivered or refunded.
NoDoubleSale ==
  \A x, y \in active : x[2] = y[2] => x = y

\* The booking row and its seat rows always agree: a PAID booking occupies
\* exactly the seats its request named, any other booking occupies none, so no
\* crash, rollback or refund leaves half a booking.
AllOrNothing ==
  \A d \in Delivery :
    SeatsIn(RowsOf(active, d)) = IF booking[d] = "PAID" THEN Want[RefOf(d)] ELSE {}

\* Nothing in the database knows the booking_ref, and a redelivered message may
\* run again in full; still one request never has two live bookings, because the
\* second run finds the seats of the first taken.
OneLiveBookingPerRef ==
  \A d, e \in Delivery :
    booking[d] = "PAID" /\ booking[e] = "PAID" /\ RefOf(d) = RefOf(e) => d = e

\* The answer OK is never given for a booking that was not committed.
OkIsBacked ==
  \A r \in Ref : "OK" \in told[r] => \E d \in Delivery : RefOf(d) = r /\ booking[d] # "none"

\* The opposite direction of OkIsBacked: a request answered with a failure is not
\* booked.  It survives a lost ACK, thanks to the duplicate check, and nothing
\* worse: a crash between commit and store_result defeats it (sqs_client.py, 5).
FailureMeansNotBooked ==
  \A r \in Ref :
    result[r] \in {"DUPLICATE_SEAT", "ERROR"} =>
      \A d \in Delivery : RefOf(d) = r => booking[d] # "PAID"

\* Customers' seats through the queue, the worker and the tables are sold as
\* SeatSale says.
Sales == INSTANCE SeatSale WITH
           Order <- Ref, Sale <- Delivery, SeatsOf <- Want,
           OrderOf <- [d \in Delivery |-> RefOf(d)],
           sold <- booking, holding <- active

ImplementsSeatSale == Sales!SaleSpec

=============================================================================
