------------------------------- MODULE SeatHold -------------------------------
(***************************************************************************)
(* Accepting a concert booking in write-api: commit_concert_booking checks *)
(* the sale state, holds every seat in Redis (try_hold_seats) and only     *)
(* then sends the request to the queue.  Holds, the reserved-seat set and  *)
(* the sale state live in the Redis database of the read cache, whose      *)
(* rebuild starts with FLUSHDB.                                            *)
(*                                                                         *)
(* A redis-py pipeline is a MULTI/EXEC, hence one step; two pipelines are  *)
(* two steps, and other requests run in between.                           *)
(***************************************************************************)
EXTENDS Sequences, SequencesExt

CONSTANTS Request,      \* POSTs on one show, each with its fresh booking_ref
          Seat,
          Want,         \* the seats of a request, in the order the client listed them
          Nobody,       \* the value of a seat key that does not exist
          Faults        \* what may go wrong in this instance

\* "redis": a pipeline raises.  "sqs": send_message raises.  "ttl": a key expires.
\* "flush": the read cache is rebuilt.
ASSUME FaultsAssumption == Faults \subseteq {"redis", "sqs", "ttl", "flush"}

\* Validation has removed repeated seats and refused an empty list.
ASSUME WantAssumption ==
  /\ Want \in [Request -> Seq(Seat)]
  /\ \A p \in Request : Want[p] # <<>> /\ IsInjective(Want[p])

ASSUME NobodyAssumption == Nobody \notin Request

VARIABLES pc,           \* where each POST handler is, or how it answered
          taken,        \* the seats whose SET NX succeeded for the request, as its loop sees them
          seen,         \* seats release_seats found to be its own
          hold,         \* concert:seat:{show}:{seat}:hold, the ref that holds the seat
          reserved,     \* concert:reserved:{show}, what the seat map shows as taken
          sale,         \* concert:sale:{show}: "OPEN", "CLOSED", or "absent"
          wiped,        \* history: a key has expired or the database was flushed
          lost          \* history: seats whose key was lost since the request read its owner

past == <<wiped, lost>>
vars == <<pc, taken, seen, hold, reserved, sale, past>>

SeatsOf(p) == ToSet(Want[p])

InProgress == {"check", "hold", "reserve", "send", "read", "release"}
Answers    == {"QUEUED", "SALES_CLOSED", "DUPLICATE_SEAT", "500"}

TypeOK ==
  /\ pc       \in [Request -> {"new"} \union InProgress \union Answers]
  /\ taken    \in [Request -> SUBSET Seat]
  /\ seen     \in [Request -> SUBSET Seat]
  /\ hold     \in [Seat -> Request \union {Nobody}]
  /\ reserved \subseteq Seat
  /\ sale     \in {"OPEN", "CLOSED", "absent"}
  /\ wiped    \in BOOLEAN
  /\ lost     \in [Request -> SUBSET Seat]

Init ==
  /\ pc       = [p \in Request |-> "new"]
  /\ taken    = [p \in Request |-> {}]
  /\ seen     = [p \in Request |-> {}]
  /\ hold     = [s \in Seat |-> Nobody]
  /\ reserved = {}
  /\ sale     = "absent"
  /\ wiped    = FALSE
  /\ lost     = [p \in Request |-> {}]

Goto(p, there) == pc' = [pc EXCEPT ![p] = there]

\* After a pipeline: its replies arrive, or are lost and the POST answers 500.
Proceed(p, there) == Goto(p, there) \/ ("redis" \in Faults /\ Goto(p, "500"))

\* The keys of S are deleted; those of P that are between the two pipelines of their
\* rollback do not see it.
Lose(P, S) ==
  lost' = [p \in Request |-> IF p \in P /\ pc[p] = "release"
                             THEN lost[p] \union {s \in S : hold[s] = p} ELSE lost[p]]

\* is_open: a missing or unreadable sale state counts as OPEN.
IsOpen == sale # "CLOSED"

-----------------------------------------------------------------------------
(* commit_concert_booking                                                  *)

Arrive(p) ==
  /\ pc[p] = "new"
  /\ Goto(p, "check")
  /\ UNCHANGED <<taken, seen, hold, reserved, sale, past>>

CheckSale(p) ==
  /\ pc[p] = "check"
  /\ Goto(p, IF IsOpen THEN "hold" ELSE "SALES_CLOSED")
  /\ UNCHANGED <<taken, seen, hold, reserved, sale, past>>

\* Mutants: SET without NX; a request is accepted with the seats it could get.
HoldSeatsOverwriting(p) ==
  /\ pc[p] = "hold"
  /\ hold' = [s \in Seat |-> IF s \in SeatsOf(p) THEN p ELSE hold[s]]
  /\ taken' = [taken EXCEPT ![p] = SeatsOf(p)]
  /\ Goto(p, "reserve")
  /\ UNCHANGED <<seen, reserved, sale, past>>
HoldWhatIsFree(p) ==
  /\ pc[p] = "hold"
  /\ hold' = [s \in Seat |-> IF s \in SeatsOf(p) /\ hold[s] = Nobody THEN p ELSE hold[s]]
  /\ taken' = [taken EXCEPT ![p] = {s \in SeatsOf(p) : hold[s] = Nobody}]
  /\ Goto(p, "reserve")
  /\ UNCHANGED <<seen, reserved, sale, past>>

\* The first pipeline of try_hold_seats: SET NX on every seat of the request.  The loop
\* over the replies stops at the first seat i that was taken: only those before it are
\* in "held", although the free ones after it are set as well.
HoldSeats(p) ==
  /\ pc[p] = "hold"
  /\ hold' = [s \in Seat |-> IF s \in SeatsOf(p) /\ hold[s] = Nobody THEN p ELSE hold[s]]
  /\ \/ /\ \A s \in SeatsOf(p) : hold[s] = Nobody
        /\ taken' = [taken EXCEPT ![p] = SeatsOf(p)]
        /\ Proceed(p, "reserve")
     \/ \E i \in DOMAIN Want[p] :
          /\ hold[Want[p][i]] # Nobody
          /\ \A j \in 1..(i - 1) : hold[Want[p][j]] = Nobody
          /\ taken' = [taken EXCEPT ![p] = {Want[p][j] : j \in 1..(i - 1)}]
          /\ Proceed(p, IF i = 1 THEN "DUPLICATE_SEAT" ELSE "read")
  /\ UNCHANGED <<seen, reserved, sale, past>>

\* The second pipeline: SADD the seats, renew the set's expiry, write the metadata
\* (which nothing reads).
ReserveSeats(p) ==
  /\ pc[p] = "reserve"
  /\ reserved' = reserved \union taken[p]
  /\ Proceed(p, "send")
  /\ UNCHANGED <<taken, seen, hold, sale, past>>

Send(p) ==
  /\ pc[p] = "send"
  /\ Goto(p, "QUEUED")
  /\ UNCHANGED <<taken, seen, hold, reserved, sale, past>>

\* Mutant: the rollback does not look at the owners of the keys.
ReadNothing(p) ==
  /\ pc[p] = "read"
  /\ seen' = [seen EXCEPT ![p] = taken[p]]
  /\ Goto(p, "release")
  /\ UNCHANGED <<taken, hold, reserved, sale, past>>

\* release_seats, first pipeline: GET the keys in "held".
ReadOwn(p) ==
  /\ pc[p] = "read"
  /\ seen' = [seen EXCEPT ![p] = {s \in taken[p] : hold[s] = p}]
  /\ Goto(p, "release")
  /\ UNCHANGED <<taken, hold, reserved, sale, past>>

\* Mutant: the rollback drops every seat of the request, its own or not.
ReleaseAll(p) ==
  /\ pc[p] = "release"
  /\ hold' = [s \in Seat |-> IF s \in SeatsOf(p) THEN Nobody ELSE hold[s]]
  /\ reserved' = reserved \ SeatsOf(p)
  /\ Goto(p, "DUPLICATE_SEAT")
  /\ Lose(Request \ {p}, SeatsOf(p))
  /\ UNCHANGED <<taken, seen, sale, wiped>>

\* Second pipeline: DEL the keys that were its own, SREM their seats.
ReleaseOwn(p) ==
  /\ pc[p] = "release"
  /\ hold' = [s \in Seat |-> IF s \in seen[p] THEN Nobody ELSE hold[s]]
  /\ reserved' = reserved \ seen[p]
  /\ Proceed(p, "DUPLICATE_SEAT")
  /\ Lose(Request \ {p}, seen[p])
  /\ UNCHANGED <<taken, seen, sale, wiped>>

\* A pipeline is not executed, or send_message raises.  Nothing catches it: the POST
\* answers 500 and what was written before stays.
HandlerFails(p) ==
  /\ \/ "redis" \in Faults /\ pc[p] \in {"check", "hold", "reserve", "read", "release"}
     \/ "sqs" \in Faults /\ pc[p] = "send"
  /\ Goto(p, "500")
  /\ UNCHANGED <<taken, seen, hold, reserved, sale, past>>

-----------------------------------------------------------------------------
(* The sale endpoints, the TTLs, the cache rebuild                         *)

SetSaleState(st) ==
  /\ sale' = st
  /\ UNCHANGED <<pc, taken, seen, hold, reserved, past>>

Wipe(S) == wiped' = TRUE /\ Lose(Request, S)

ExpireHold(s) ==
  /\ "ttl" \in Faults
  /\ hold[s] # Nobody
  /\ hold' = [hold EXCEPT ![s] = Nobody]
  /\ Wipe({s})
  /\ UNCHANGED <<pc, taken, seen, reserved, sale>>

\* The set expires as a whole.
ExpireReserved ==
  /\ "ttl" \in Faults
  /\ reserved # {}
  /\ reserved' = {}
  /\ Wipe({})
  /\ UNCHANGED <<pc, taken, seen, hold, sale>>

\* rebuild_all_cache: FLUSHDB on the cache database.
Flush ==
  /\ "flush" \in Faults
  /\ hold' = [s \in Seat |-> Nobody]
  /\ reserved' = {}
  /\ sale' = "absent"
  /\ Wipe(Seat)
  /\ UNCHANGED <<pc, taken, seen>>

-----------------------------------------------------------------------------
Handler(p) ==
  CheckSale(p) \/ HoldSeats(p) \/ ReserveSeats(p) \/ Send(p) \/ ReadOwn(p) \/ ReleaseOwn(p)

Next ==
  \/ \E p \in Request : Arrive(p) \/ Handler(p) \/ HandlerFails(p)
  \/ \E st \in {"OPEN", "CLOSED"} : SetSaleState(st)
  \/ \E s \in Seat : ExpireHold(s)
  \/ ExpireReserved
  \/ Flush

Spec == Init /\ [][Next]_vars

-----------------------------------------------------------------------------
(* Properties                                                              *)

\* A handler that took all its seats and is not finished with failure.
Accepted(p) == pc[p] \in {"reserve", "send", "QUEUED"}

\* As long as no key expired and the cache was not rebuilt, two accepted requests
\* never share a seat, so the queue carries no booking that must end in
\* DUPLICATE_SEAT, although failing requests roll back next to them.
AcceptedSeatsDisjoint ==
  \A p, q \in Request :
    Accepted(p) /\ Accepted(q) /\ p # q =>
      wiped \/ SeatsOf(p) \intersect SeatsOf(q) = {}

\* Under the same condition the seat map shows every seat of a request that was sent.
ReservedShowsAccepted ==
  \A p \in Request : pc[p] \in {"send", "QUEUED"} => wiped \/ SeatsOf(p) \subseteq reserved

\* The seat map never shows a seat as taken that no request managed to hold with
\* all its other seats, whatever expires, is flushed or fails.
ReservedOnlyAccepted ==
  \A s \in reserved : \E p \in Request :
    s \in SeatsOf(p) /\ taken[p] = SeatsOf(p) /\ pc[p] \in {"send", "QUEUED", "500"}

\* "Release only the holds I took, do not touch another booking_ref's"
\* (seat_hold.py): the owners are read in one pipeline and the keys deleted in the next,
\* and a rollback deletes no key and takes no seat off the map that is not its own,
\* unless it lost the key between the two.
ReleaseTouchesOnlyOwn ==
  [][\A p \in Request, s \in Seat :
       /\ pc[p] = "release" /\ pc'[p] # "release"
       /\ hold'[s] # hold[s] \/ s \in reserved \ reserved'
       => hold[s] = p \/ s \in lost[p]]_vars

\* "If even one fails, roll back everything (atomic per request)" (seat_hold.py): a
\* request refused with DUPLICATE_SEAT holds no seat.
RefusedHoldsNothing ==
  \A p \in Request, s \in Seat : pc[p] = "DUPLICATE_SEAT" => hold[s] # p

=============================================================================
