---------------------------- MODULE TheaterBooking ----------------------------
(***************************************************************************)
(* A theater booking from the queue to the database: process_theater_      *)
(* booking of worker-svc inside the delivery protocol, and the refund of   *)
(* write-api, for the requests of one schedule.                            *)
(*                                                                         *)
(* Unlike the concert path, SELECT ... FOR UPDATE serialises the bookings  *)
(* of a schedule, and the row it locks has a counter of its own,           *)
(* remain_count, next to the ACTIVE seat rows from which every reader      *)
(* derives what is left.  The refund does not lock the schedule.           *)
(***************************************************************************)
EXTENDS BookingDelivery

CONSTANTS Seat,         \* hall_seats of the schedule's hall
          Want,         \* the distinct seats a request names
          KnownSchedule,\* requests whose schedule exists
          KnownUser,    \* requests whose user exists (foreign key)
          Unlocked      \* no transaction has the schedule row

ASSUME WantAssumption == DOMAIN Want = Ref /\ \A r \in Ref : Want[r] # {} /\ IsFiniteSet(Want[r])
ASSUME SeatAssumption == IsFiniteSet(Seat) /\ Seat # {}
ASSUME KnownAssumption == KnownSchedule \subseteq Ref /\ KnownUser \subseteq Ref
ASSUME UnlockedAssumption == Unlocked \notin Delivery

VARIABLES lock,         \* the delivery whose transaction has the schedule row
          remain,       \* schedules.remain_count
          status,       \* schedules.status
          booking,      \* booking (with its payment row): book_status, or "none"
          active,       \* committed ACTIVE rows <<booking, seat>> of booking_seats
          pending       \* booking_seats rows inserted by the open transaction

tableVars == <<lock, remain, status, booking, active, pending>>
vars == <<deliveryVars, tableVars>>

RowsOf(rows, d) == {row \in rows : row[1] = d}
SeatsIn(rows)   == {row[2] : row \in rows}
FreeSeats       == Seat \ SeatsIn(active)
Requested(d)    == Cardinality(Want[RefOf(d)])

TypeOK ==
  /\ DeliveryTypeOK
  /\ lock    \in Delivery \union {Unlocked}
  /\ remain  \in 0..Cardinality(Seat)
  /\ status  \in {"OPEN", "CLOSED"}
  /\ booking \in [Delivery -> {"none", "PAID", "CANCEL"}]
  /\ active  \subseteq Delivery \X Seat
  /\ pending \subseteq Delivery \X Seat

\* The seed data: remain_count = total_count = the seats of the hall.
Init ==
  /\ DeliveryInit
  /\ lock = Unlocked
  /\ remain = Cardinality(Seat)
  /\ status = "OPEN"
  /\ booking = [d \in Delivery |-> "none"]
  /\ active = {}
  /\ pending = {}

-----------------------------------------------------------------------------
(* process_theater_booking                                                 *)

NoSchedule(d) ==
  /\ pc[d] = "begin"
  /\ RefOf(d) \notin KnownSchedule
  /\ Answer(d, "NOT_FOUND")
  /\ UNCHANGED <<queueVars, redisVars, tableVars>>

\* SELECT ... FOR UPDATE waits until no other transaction has the row.
LockSchedule(d) ==
  /\ pc[d] = "begin"
  /\ RefOf(d) \in KnownSchedule
  /\ lock = Unlocked
  /\ lock' = d
  /\ Goto(d, "tx")
  /\ UNCHANGED <<queueVars, redisVars, reply, remain, status, booking, active, pending>>

\* innodb_lock_wait_timeout ends the wait for the schedule row.
LockWaitFails(d) ==
  /\ pc[d] = "begin"
  /\ RefOf(d) \in KnownSchedule
  /\ lock # Unlocked
  /\ Answer(d, "ERROR")
  /\ UNCHANGED <<queueVars, redisVars, tableVars>>

\* conn.rollback(): the lock and the inserted rows are gone, the counter is as before.
Rollback(d) ==
  /\ lock' = IF lock = d THEN Unlocked ELSE lock
  /\ pending' = pending \ RowsOf(pending, d)
  /\ UNCHANGED <<remain, status, booking, active>>

\* Mutant: the seat rows have no unique index.
ConflictOfUser(d) == RefOf(d) \notin KnownUser

InHall(d)   == Want[RefOf(d)] \subseteq Seat
Enough(d)   == remain >= Requested(d)
Conflict(d) == Want[RefOf(d)] \intersect SeatsIn(active) # {} \/ RefOf(d) \notin KnownUser

\* Mutant: a conflict is retried for ever.
RefuseAndRetry(d) ==
  /\ pc[d] = "tx" /\ RowsOf(pending, d) = {}
  /\ Rollback(d)
  /\ InHall(d) /\ (~Enough(d) \/ Conflict(d)) /\ Goto(d, "begin")
  /\ UNCHANGED <<queueVars, redisVars, reply>>

\* The statements of the transaction in their order: the seats exist, the counter
\* is large enough, the booking and seat rows meet no integrity error.
Refuse(d) ==
  /\ pc[d] = "tx" /\ RowsOf(pending, d) = {}
  /\ Rollback(d)
  /\ \/ ~InHall(d) /\ Answer(d, "INVALID_SEAT")
     \/ InHall(d) /\ ~Enough(d) /\ Answer(d, "SOLD_OUT")
     \/ InHall(d) /\ Enough(d) /\ Conflict(d) /\ Answer(d, "DUPLICATE_SEAT")
  /\ UNCHANGED <<queueVars, redisVars>>

InsertSeats(d) ==
  /\ pc[d] = "tx" /\ RowsOf(pending, d) = {}
  /\ InHall(d) /\ Enough(d) /\ ~Conflict(d)
  /\ pending' = pending \union ({d} \X Want[RefOf(d)])
  /\ UNCHANGED <<deliveryVars, lock, remain, status, booking, active>>

\* Mutants: one seat fewer whatever the request asked for; the schedule closes one
\* booking too late.
CommitDecrementsOne(d) ==
  /\ pc[d] = "tx" /\ RowsOf(pending, d) # {}
  /\ lock' = Unlocked
  /\ remain' = remain - 1
  /\ booking' = [booking EXCEPT ![d] = "PAID"]
  /\ active' = active \union RowsOf(pending, d)
  /\ pending' = pending \ RowsOf(pending, d)
  /\ Answer(d, "OK")
  /\ UNCHANGED <<queueVars, redisVars, status>>
CommitClosesLate(d) ==
  /\ pc[d] = "tx" /\ RowsOf(pending, d) # {}
  /\ lock' = Unlocked
  /\ remain' = remain - Requested(d)
  /\ status' = IF remain - Requested(d) < 0 THEN "CLOSED" ELSE status
  /\ booking' = [booking EXCEPT ![d] = "PAID"]
  /\ active' = active \union RowsOf(pending, d)
  /\ pending' = pending \ RowsOf(pending, d)
  /\ Answer(d, "OK")
  /\ UNCHANGED <<queueVars, redisVars>>

\* conn.commit(): the counter goes down, the schedule closes when it reaches zero.
\* If the connection breaks while MySQL acknowledges, the rows are there
\* but the handler can neither roll back nor answer.
Commit(d) ==
  /\ pc[d] = "tx" /\ RowsOf(pending, d) # {}
  /\ lock' = Unlocked
  /\ remain' = remain - Requested(d)
  /\ status' = IF remain - Requested(d) <= 0 THEN "CLOSED" ELSE status
  /\ booking' = [booking EXCEPT ![d] = "PAID"]
  /\ active' = active \union RowsOf(pending, d)
  /\ pending' = pending \ RowsOf(pending, d)
  /\ \/ Answer(d, "OK")
     \/ "db" \in Faults /\ GiveUp(d)
  /\ UNCHANGED <<queueVars, redisVars>>

\* A statement (or the commit) fails in MySQL, which keeps nothing: the handler rolls
\* back and answers ERROR, or has lost the connection.
StatementFails(d) ==
  /\ "db" \in Faults
  /\ pc[d] = "tx"
  /\ Rollback(d)
  /\ Answer(d, "ERROR") \/ GiveUp(d)
  /\ UNCHANGED <<queueVars, redisVars>>

WorkerCrash(d) == Crash(d) /\ Rollback(d)

-----------------------------------------------------------------------------
(* write-api: _refund_movie_booking.  Booking, payment and seat rows change;
   remain_count and the schedule's status do not.                          *)

Refund(d) ==
  /\ booking[d] = "PAID"
  /\ booking' = [booking EXCEPT ![d] = "CANCEL"]
  /\ active' = active \ RowsOf(active, d)
  /\ UNCHANGED <<deliveryVars, lock, remain, status, pending>>

-----------------------------------------------------------------------------
Transaction(d) ==
  NoSchedule(d) \/ LockSchedule(d) \/ LockWaitFails(d) \/ Refuse(d) \/ InsertSeats(d) \/ Commit(d)

Next ==
  \/ \E r \in Ref : (WriteApi(r) \/ Sqs(r) \/ Ttl(r)) /\ UNCHANGED tableVars
  \/ \E d \in Delivery :
       \/ (HandlerStep(d) \/ HandlerFault(d)) /\ UNCHANGED tableVars
       \/ Transaction(d)
       \/ StatementFails(d)
       \/ WorkerCrash(d)
       \/ Refund(d)

Spec == Init /\ [][Next]_vars

\* As in ConcertBooking: pollers, SQS and InnoDB's lock waits make progress.
FairSpec ==
  /\ Spec
  /\ \A r \in Ref : WF_vars(Sqs(r) /\ UNCHANGED tableVars)
  /\ \A d \in Delivery :
       WF_vars((HandlerStep(d) /\ UNCHANGED tableVars) \/ Transaction(d))

-----------------------------------------------------------------------------
(* Properties                                                              *)

\* remain_count has been reduced by exactly the seats of every booking that was
\* ever committed: no rollback, crash or redelivery loses or repeats a decrement,
\* and no refund gives one back.
EverBooked == UNION {{d} \X Want[RefOf(d)] : d \in {e \in Delivery : booking[e] # "none"}}
RemainCountsBookings == remain + Cardinality(EverBooked) = Cardinality(Seat)

\* The counter never promises a seat that is not free, so the test on it cannot
\* let a transaction oversell the hall, even before the unique index is asked.
RemainIsAvailable == remain <= Cardinality(FreeSeats)

\* A schedule is CLOSED exactly when its counter is used up.
ClosedWhenExhausted == (status = "CLOSED") <=> (remain = 0)

\* The schedule row is locked by a running transaction or by none: no return,
\* exception or crash of a handler leaves the schedule locked for good.
LockIsOwned == lock # Unlocked => pc[lock] = "tx"

\* OK is answered only for a booking that was committed.
OkIsBacked ==
  \A r \in Ref : "OK" \in told[r] => \E d \in Delivery : RefOf(d) = r /\ booking[d] # "none"

\* A refund "returns the seats" (user_write.py), and what is left of a schedule "is
\* derived from the ACTIVE rows at run time" (create.sql): a request is refused as
\* SOLD_OUT only if the free seats do not suffice.
SoldOutMeansFull ==
  [][\A d \in Delivery :
       reply[d] = NoCode /\ reply'[d] = "SOLD_OUT" => Cardinality(FreeSeats) < Requested(d)]_vars

Sales == INSTANCE SeatSale WITH
           Order <- Ref, Sale <- Delivery, SeatsOf <- Want,
           OrderOf <- [d \in Delivery |-> RefOf(d)],
           sold <- booking, holding <- active

\* The theater path, too, sells seats as SeatSale says: all of a request's seats at
\* once, none twice, one live booking for a request.
ImplementsSeatSale == Sales!SaleSpec

=============================================================================
