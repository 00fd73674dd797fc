--------------------------- MODULE BookingDelivery ---------------------------
(***************************************************************************)
(* How one booking request travels from write-api to a worker and how its  *)
(* answer travels back: the SQS FIFO queue (at-least-once delivery, a      *)
(* visibility timeout, a dead-letter queue), the two Redis keys            *)
(* booking:queued:{ref} and booking:result:{ref}, and the part of the      *)
(* worker's handler that is the same for both kinds of booking.            *)
(*                                                                         *)
(* A request is its booking_ref.  A handler invocation is a delivery       *)
(* <<ref, n>>, n being ApproximateReceiveCount: pollers, batch threads and *)
(* pods only decide which CPU runs a delivery, so any set of deliveries    *)
(* may run at once.  The database transaction in the middle of the handler *)
(* is left to the modules that extend this one (ConcertBooking,            *)
(* TheaterBooking); they conjoin these actions with their own tables.      *)
(***************************************************************************)
EXTENDS Naturals, FiniteSets

CONSTANTS Ref,          \* booking_refs, one fresh UUID per accepted POST
          MaxReceive,   \* maxReceiveCount of the redrive policy
          Faults        \* which parts of the environment may fail in this instance

\* "redis", "db": a command raises.  "delete": delete_message fails.  "crash": a
\* pod dies.  "slow": a handler outlives the visibility timeout.  "ttl": a key
\* expires.
FaultKinds == {"redis", "db", "delete", "crash", "slow", "ttl"}

ASSUME MaxReceiveAssumption == MaxReceive \in Nat \ {0}
ASSUME FaultsAssumption == Faults \subseteq FaultKinds

VARIABLES api,          \* progress of the POST handler that sends the request
          msg,          \* where SQS keeps the message
          receives,     \* ApproximateReceiveCount
          queued,       \* requests whose booking:queued:{ref} exists
          result,       \* code in booking:result:{ref}, or NoCode
          told,         \* history: every code ever stored as the result
          pc, reply     \* per delivery: the handler's position, the code it will store

queueVars   == <<api, msg, receives>>
redisVars   == <<queued, result, told>>
handlerVars == <<pc, reply>>
deliveryVars == <<queueVars, redisVars, handlerVars>>

Delivery == Ref \X (1..MaxReceive)
RefOf(d) == d[1]

NoCode == "none"
Codes  == {"OK", "NOT_FOUND", "INVALID_SEAT", "SOLD_OUT", "DUPLICATE_SEAT", "ERROR"}

\* "idle": not delivered yet.  "done": the handler returned, or its pod died.
Positions == {"idle", "check", "begin", "tx", "store", "unqueue", "ack", "done"}
Running   == {"check", "begin", "tx", "store", "unqueue", "ack"}

DeliveryTypeOK ==
  /\ api      \in [Ref -> {"new", "sent", "answered"}]
  /\ msg      \in [Ref -> {"unsent", "visible", "inflight", "deleted", "dlq"}]
  /\ receives \in [Ref -> 0..MaxReceive]
  /\ queued   \subseteq Ref
  /\ result   \in [Ref -> Codes \union {NoCode}]
  /\ told     \in [Ref -> SUBSET Codes]
  /\ pc       \in [Delivery -> Positions]
  /\ reply    \in [Delivery -> Codes \union {NoCode}]

DeliveryInit ==
  /\ api      = [r \in Ref |-> "new"]
  /\ msg      = [r \in Ref |-> "unsent"]
  /\ receives = [r \in Ref |-> 0]
  /\ queued   = {}
  /\ result   = [r \in Ref |-> NoCode]
  /\ told     = [r \in Ref |-> {}]
  /\ pc       = [d \in Delivery |-> "idle"]
  /\ reply    = [d \in Delivery |-> NoCode]

-----------------------------------------------------------------------------
(* write-api: send_booking_message                                         *)

\* sqs.send_message: the request is in the queue before anything is recorded in Redis.
SendMessage(r) ==
  /\ api[r] = "new"
  /\ api' = [api EXCEPT ![r] = "sent"]
  /\ msg' = [msg EXCEPT ![r] = "visible"]
  /\ UNCHANGED <<receives, redisVars, handlerVars>>

\* _mark_booking_queued, then the POST answers QUEUED.  A Redis failure is only logged.
MarkQueued(r) ==
  /\ api[r] = "sent"
  /\ api' = [api EXCEPT ![r] = "answered"]
  /\ \/ queued' = queued \union {r}
     \/ "redis" \in Faults /\ UNCHANGED queued
  /\ UNCHANGED <<msg, receives, result, told, handlerVars>>

\* get_booking_status_dict: what a GET on the status endpoint answers now.
Status(r) ==
  IF result[r] # NoCode THEN result[r]
  ELSE IF r \in queued THEN "PROCESSING" ELSE "UNKNOWN_OR_EXPIRED"

-----------------------------------------------------------------------------
(* SQS and the TTLs of the booking-state Redis database                    *)

\* receive_message hands the message out; the handler starts at its duplicate check.
Receive(r) ==
  /\ msg[r] = "visible"
  /\ receives[r] < MaxReceive
  /\ msg' = [msg EXCEPT ![r] = "inflight"]
  /\ receives' = [receives EXCEPT ![r] = @ + 1]
  /\ pc' = [pc EXCEPT ![<<r, receives[r] + 1>>] = "check"]
  /\ UNCHANGED <<api, redisVars, reply>>

\* visibility_timeout_seconds: the message comes back once no handler has it any
\* more, and even while one still runs if that handler is slow.
VisibilityTimeout(r) ==
  /\ msg[r] = "inflight"
  /\ "slow" \in Faults \/ \A d \in Delivery : RefOf(d) = r => pc[d] \notin Running
  /\ msg' = [msg EXCEPT ![r] = "visible"]
  /\ UNCHANGED <<api, receives, redisVars, handlerVars>>

\* Mutant: a queue without a redrive policy.
NoRedrive(r) == FALSE

\* redrive_policy: a message received maxReceiveCount times goes to the dead-letter queue.
MoveToDLQ(r) ==
  /\ msg[r] = "visible"
  /\ receives[r] = MaxReceive
  /\ msg' = [msg EXCEPT ![r] = "dlq"]
  /\ UNCHANGED <<api, receives, redisVars, handlerVars>>

\* BOOKING_RESULT_TTL_SEC elapses.
ExpireResult(r) ==
  /\ "ttl" \in Faults
  /\ result[r] # NoCode
  /\ result' = [result EXCEPT ![r] = NoCode]
  /\ UNCHANGED <<queueVars, queued, told, handlerVars>>

\* BOOKING_QUEUED_TTL_SEC elapses.
ExpireQueued(r) ==
  /\ "ttl" \in Faults
  /\ r \in queued
  /\ queued' = queued \ {r}
  /\ UNCHANGED <<queueVars, result, told, handlerVars>>

-----------------------------------------------------------------------------
(* worker-svc: _handle_one_sqs_message around the transaction              *)

Goto(d, there) == pc' = [pc EXCEPT ![d] = there]

\* The connection to MySQL is lost: conn.rollback() in the except block raises too, so
\* the handler returns without an answer and without an ACK.
GiveUp(d) == Goto(d, "done") /\ UNCHANGED reply

\* The handler decided on a code and enters store_result.
Answer(d, code) ==
  /\ Goto(d, "store")
  /\ reply' = [reply EXCEPT ![d] = code]

\* Mutant: every delivery is processed, whatever is stored.
NoDuplicateCheck(d) ==
  /\ pc[d] = "check"
  /\ Goto(d, "begin")
  /\ UNCHANGED <<queueVars, redisVars, reply>>

\* A result already stored means a duplicate delivery: ACK.  If Redis cannot be
\* read the handler goes on as if there were none.
DuplicateCheck(d) ==
  /\ pc[d] = "check"
  /\ \/ result[RefOf(d)] # NoCode /\ Goto(d, "ack")
     \/ result[RefOf(d)] = NoCode /\ Goto(d, "begin")
  /\ UNCHANGED <<queueVars, redisVars, reply>>

DuplicateCheckFails(d) ==
  /\ "redis" \in Faults
  /\ pc[d] = "check"
  /\ Goto(d, "begin")
  /\ UNCHANGED <<queueVars, redisVars, reply>>

\* Mutant: the handler acknowledges although it could not connect.
ConnectFailsAcked(d) ==
  /\ "db" \in Faults
  /\ pc[d] = "begin"
  /\ Goto(d, "ack")
  /\ UNCHANGED <<queueVars, redisVars, reply>>

\* get_tx_conn raises outside the try block: no answer, no ACK.
ConnectFails(d) ==
  /\ "db" \in Faults
  /\ pc[d] = "begin"
  /\ Goto(d, "done")
  /\ UNCHANGED <<queueVars, redisVars, reply>>

\* store_result, first command: SETEX booking:result, whatever was there before.
StoreResult(d) ==
  /\ pc[d] = "store"
  /\ result' = [result EXCEPT ![RefOf(d)] = reply[d]]
  /\ told' = [told EXCEPT ![RefOf(d)] = @ \union {reply[d]}]
  /\ reply' = [reply EXCEPT ![d] = NoCode]
  /\ Goto(d, "unqueue")
  /\ UNCHANGED <<queueVars, queued>>

\* SETEX raises.  Inside the try block the handler falls into "except Exception"
\* and tries to store ERROR, even after the commit; from an except block the
\* exception leaves the handler, which then does not ACK.
StoreResultFails(d) ==
  /\ "redis" \in Faults
  /\ pc[d] = "store"
  /\ \/ /\ reply[d] \in {"OK", "NOT_FOUND", "INVALID_SEAT", "SOLD_OUT"}
        /\ reply' = [reply EXCEPT ![d] = "ERROR"]
        /\ UNCHANGED pc
     \/ /\ reply[d] \in {"DUPLICATE_SEAT", "ERROR"}
        /\ reply' = [reply EXCEPT ![d] = NoCode]
        /\ Goto(d, "done")
  /\ UNCHANGED <<queueVars, redisVars>>

\* store_result, second command: DEL booking:queued; a failure is ignored.
ClearQueued(d) ==
  /\ pc[d] = "unqueue"
  /\ \/ queued' = queued \ {RefOf(d)}
     \/ "redis" \in Faults /\ UNCHANGED queued
  /\ Goto(d, "ack")
  /\ UNCHANGED <<queueVars, result, told, reply>>

\* _ack_if_ok: delete_message.  Its failure is only logged; the receipt handle of an
\* earlier or expired receive may be accepted without effect.
StaleHandle(d) == d[2] < receives[RefOf(d)] \/ msg[RefOf(d)] # "inflight"

Ack(d) ==
  LET r == RefOf(d) IN
  /\ pc[d] = "ack"
  /\ \/ msg[r] \in {"visible", "inflight"} /\ msg' = [msg EXCEPT ![r] = "deleted"]
     \/ UNCHANGED msg /\ ("delete" \in Faults \/ StaleHandle(d))
  /\ Goto(d, "done")
  /\ UNCHANGED <<api, receives, redisVars, reply>>

\* The pod dies; the message stays in flight until its visibility timeout.
Crash(d) ==
  /\ "crash" \in Faults
  /\ pc[d] \in Running
  /\ Goto(d, "done")
  /\ reply' = [reply EXCEPT ![d] = NoCode]
  /\ UNCHANGED <<queueVars, redisVars>>

-----------------------------------------------------------------------------
(* Steps by who takes them                                                 *)

WriteApi(r)    == SendMessage(r) \/ MarkQueued(r)
Sqs(r)         == Receive(r) \/ VisibilityTimeout(r) \/ MoveToDLQ(r)
Ttl(r)         == ExpireResult(r) \/ ExpireQueued(r)
HandlerStep(d) == DuplicateCheck(d) \/ StoreResult(d) \/ ClearQueued(d) \/ Ack(d)
HandlerFault(d) == DuplicateCheckFails(d) \/ ConnectFails(d) \/ StoreResultFails(d)

-----------------------------------------------------------------------------
(* Properties of the delivery protocol, whatever the transaction does      *)

\* A message leaves the queue through delete_message only after some delivery of
\* it stored an answer (main.py: True, and with it the ACK, is returned only
\* after store_result or when a result is already there).
AnsweredBeforeDeleted ==
  \A r \in Ref : msg[r] = "deleted" => told[r] # {}

\* Every request that was sent is eventually deleted or parked in the dead-letter
\* queue: no fault keeps it circulating, because each delivery ends or times out
\* and the queue counts deliveries.
EveryMessageSettles ==
  \A r \in Ref : msg[r] = "visible" ~> msg[r] \in {"deleted", "dlq"}

\* No handler hangs: every delivery's handler returns (or dies), even when two
\* transactions wait for each other's seats.
EveryHandlerEnds ==
  \A d \in Delivery : pc[d] = "check" ~> pc[d] = "done"

\* "result -> final JSON" (sqs_client.py): a stored result is not replaced by a
\* different one.  Two overlapping deliveries of one message break this.
ResultIsFinal ==
  [][\A r \in Ref : result[r] # NoCode => result'[r] \in {result[r], NoCode}]_result

=============================================================================
