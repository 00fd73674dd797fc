---------------------------- MODULE SeatHoldProofs ----------------------------
(***************************************************************************)
(* Proofs about SeatHold for any requests, seats and faults.               *)
(***************************************************************************)
EXTENDS SeatHold, TLAPS

\* A request that got past the first pipeline has all its seats in "held"; if
\* nothing was lost, their keys are its own, so no other accepted request has them.
HeldByAccepted ==
  /\ \A p \in Request : Accepted(p) => taken[p] = SeatsOf(p)
  /\ wiped \/ \A p \in Request : Accepted(p) => \A s \in SeatsOf(p) : hold[s] = p

\* What release_seats found to be its own is still its own when it deletes it, or was
\* lost in between.
OwnedUntilReleased ==
  \A p \in Request : pc[p] = "release" => \A s \in seen[p] : hold[s] = p \/ s \in lost[p]

NothingLost == wiped \/ \A p \in Request : lost[p] = {}

HoldInv ==
  /\ TypeOK
  /\ HeldByAccepted
  /\ OwnedUntilReleased
  /\ NothingLost
  /\ ReservedShowsAccepted
  /\ ReservedOnlyAccepted

\* Unfolded in every step below.
USE DEF InProgress, Answers, Accepted, past, vars

\* The seats of a request are seats, and so are those before a position of its list.
LEMMA SeatsOfType ==
  ASSUME NEW p \in Request
  PROVE  /\ SeatsOf(p) \subseteq Seat
         /\ \A i \in DOMAIN Want[p] : Want[p][i] \in Seat /\ Want[p][i] \in SeatsOf(p)
         /\ \A i \in DOMAIN Want[p] : {Want[p][j] : j \in 1..(i - 1)} \subseteq SeatsOf(p)
<1>1. Want[p] \in Seq(Seat)
  BY WantAssumption
<1>2. DOMAIN Want[p] = 1..Len(Want[p]) /\ Len(Want[p]) \in Nat
  BY <1>1
<1>3. \A i \in DOMAIN Want[p] : Want[p][i] \in Seat
  BY <1>1
<1>4. \A i \in DOMAIN Want[p] : \A j \in 1..(i - 1) : j \in DOMAIN Want[p]
  BY <1>2
<1> QED
  BY <1>3, <1>4 DEF SeatsOf, ToSet

\* Two requests whose seats are all keyed to them share none.
LEMMA OwnersAreApart == HoldInv => AcceptedSeatsDisjoint
<1> SUFFICES ASSUME HoldInv, ~wiped,
                    NEW p \in Request, NEW q \in Request, Accepted(p), Accepted(q), p # q
             PROVE  SeatsOf(p) \intersect SeatsOf(q) = {}
  BY DEF AcceptedSeatsDisjoint
<1>1. \A s \in SeatsOf(p) : hold[s] = p
  BY DEF HoldInv, HeldByAccepted
<1>2. \A s \in SeatsOf(q) : hold[s] = q
  BY DEF HoldInv, HeldByAccepted
<1> QED
  BY <1>1, <1>2

-----------------------------------------------------------------------------
(* The pipelines                                                           *)

\* SET NX changes no key that exists, so every owner stays one; the new owner has all
\* its seats or is not accepted.
LEMMA HoldSeatsKeepsInv ==
  ASSUME HoldInv, NEW p \in Request, HoldSeats(p)
  PROVE  HoldInv'
<1> USE DEF HoldInv, TypeOK
<1>1. SeatsOf(p) \subseteq Seat
  BY SeatsOfType
<1> DEFINE Outcome(T, x) ==
             /\ taken' = [taken EXCEPT ![p] = T]
             /\ pc' = [pc EXCEPT ![p] = x]
             /\ x = "reserve" => T = SeatsOf(p) /\ \A s \in SeatsOf(p) : hold[s] = Nobody
           Ends == {"reserve", "read", "DUPLICATE_SEAT", "500"}
<1>2. \E T \in SUBSET Seat, x \in Ends : Outcome(T, x)
  <2>1. CASE /\ \A s \in SeatsOf(p) : hold[s] = Nobody
             /\ taken' = [taken EXCEPT ![p] = SeatsOf(p)]
             /\ Proceed(p, "reserve")
    BY <1>1, <2>1 DEF Proceed, Goto
  <2>2. ASSUME NEW i \in DOMAIN Want[p],
               taken' = [taken EXCEPT ![p] = {Want[p][j] : j \in 1..(i - 1)}],
               Proceed(p, IF i = 1 THEN "DUPLICATE_SEAT" ELSE "read")
        PROVE  \E T \in SUBSET Seat, x \in Ends : Outcome(T, x)
    <3>1. {Want[p][j] : j \in 1..(i - 1)} \in SUBSET Seat
      BY <1>1, SeatsOfType
    <3>2. \E x \in {"read", "DUPLICATE_SEAT", "500"} : pc' = [pc EXCEPT ![p] = x]
      BY <2>2 DEF Proceed, Goto
    <3> QED
      BY <2>2, <3>1, <3>2
  <2> QED
    BY <2>1, <2>2 DEF HoldSeats
<1>3. PICK T \in SUBSET Seat, x \in Ends : Outcome(T, x)
  BY <1>2
<1>4. pc[p] = "hold" /\ UNCHANGED <<seen, reserved, sale, past>>
  BY DEF HoldSeats
<1>5. \A s \in Seat : hold'[s] = IF s \in SeatsOf(p) /\ hold[s] = Nobody THEN p ELSE hold[s]
  BY DEF HoldSeats
<1>6. TypeOK'
  BY <1>3, <1>4 DEF HoldSeats
<1>7. HeldByAccepted'
  <2>1. \A q \in Request : Accepted(q)' => taken'[q] = SeatsOf(q)
    BY <1>3 DEF HeldByAccepted
  <2>2. ASSUME ~wiped, NEW q \in Request, Accepted(q)', NEW s \in SeatsOf(q) PROVE hold'[s] = q
    <3>1. s \in Seat
      BY SeatsOfType
    <3>2. CASE q = p
      BY <1>3, <1>5, <2>2, <3>1, <3>2
    <3>3. CASE q # p
      BY <1>3, <1>5, <2>2, <3>1, <3>3, NobodyAssumption DEF HeldByAccepted
    <3> QED
      BY <3>2, <3>3
  <2> QED
    BY <1>4, <2>1, <2>2 DEF HeldByAccepted, SeatsOf
<1>8. OwnedUntilReleased' /\ NothingLost'
  BY <1>3, <1>4, <1>5, NobodyAssumption DEF OwnedUntilReleased, NothingLost
<1>9. ReservedShowsAccepted' /\ ReservedOnlyAccepted'
  BY <1>3, <1>4 DEF ReservedShowsAccepted, ReservedOnlyAccepted, SeatsOf
<1> QED
  BY <1>6, <1>7, <1>8, <1>9

\* SADD makes the seats of an accepted request visible before it is sent.
LEMMA ReserveSeatsKeepsInv ==
  ASSUME HoldInv, NEW p \in Request, ReserveSeats(p)
  PROVE  HoldInv'
<1> USE DEF HoldInv, TypeOK
<1>1. /\ pc[p] = "reserve" /\ reserved' = reserved \union taken[p]
      /\ UNCHANGED <<taken, seen, hold, sale, past>>
  BY DEF ReserveSeats
<1>2. PICK x \in {"send", "500"} : pc' = [pc EXCEPT ![p] = x]
  BY DEF ReserveSeats, Proceed, Goto
<1>3. taken[p] = SeatsOf(p)
  BY <1>1 DEF HeldByAccepted
<1>4. TypeOK'
  BY <1>1, <1>2
<1>5. HeldByAccepted' /\ OwnedUntilReleased' /\ NothingLost'
  BY <1>1, <1>2 DEF HeldByAccepted, OwnedUntilReleased, NothingLost, SeatsOf
<1>6. ReservedShowsAccepted'
  BY <1>1, <1>2, <1>3 DEF ReservedShowsAccepted, SeatsOf
<1>7. ReservedOnlyAccepted'
  <2>1. ASSUME NEW s \in taken[p]
        PROVE  s \in SeatsOf(p) /\ taken'[p] = SeatsOf(p) /\ pc'[p] \in {"send", "500"}
    BY <1>1, <1>2, <1>3, <2>1
  <2>2. ASSUME NEW s \in reserved
        PROVE  \E q \in Request :
                 s \in SeatsOf(q) /\ taken'[q] = SeatsOf(q) /\ pc'[q] \in {"send", "QUEUED", "500"}
    <3>1. PICK q \in Request :
            s \in SeatsOf(q) /\ taken[q] = SeatsOf(q) /\ pc[q] \in {"send", "QUEUED", "500"}
      BY <2>2 DEF ReservedOnlyAccepted
    <3>2. q # p
      BY <1>1, <3>1
    <3> QED
      BY <1>1, <1>2, <3>1, <3>2
  <2> QED
    BY <1>1, <2>1, <2>2 DEF ReservedOnlyAccepted, SeatsOf
<1> QED
  BY <1>4, <1>5, <1>6, <1>7

\* A rollback deletes keys that are still its own, hence of no accepted request.
LEMMA ReleaseOwnKeepsInv ==
  ASSUME HoldInv, NEW p \in Request, ReleaseOwn(p)
  PROVE  HoldInv'
<1> USE DEF HoldInv, TypeOK
<1>1. /\ pc[p] = "release" /\ reserved' = reserved \ seen[p]
      /\ UNCHANGED <<taken, seen, sale, wiped>>
  BY DEF ReleaseOwn
<1>2. \A s \in Seat : hold'[s] = IF s \in seen[p] THEN Nobody ELSE hold[s]
  BY DEF ReleaseOwn
<1>3. PICK x \in {"DUPLICATE_SEAT", "500"} : pc' = [pc EXCEPT ![p] = x]
  BY DEF ReleaseOwn, Proceed, Goto
<1>4. ASSUME ~wiped, NEW q \in Request, q # p, NEW s \in Seat, hold[s] = q PROVE s \notin seen[p]
  BY <1>1, <1>4 DEF OwnedUntilReleased, NothingLost
<1>5. TypeOK'
  BY <1>1, <1>3 DEF ReleaseOwn, Lose
<1>6. HeldByAccepted'
  <2>1. ASSUME NEW q \in Request, Accepted(q)' PROVE q # p /\ Accepted(q) /\ taken'[q] = SeatsOf(q)
    BY <1>1, <1>3, <2>1 DEF HeldByAccepted
  <2>2. ASSUME ~wiped, NEW q \in Request, Accepted(q)', NEW s \in SeatsOf(q) PROVE hold'[s] = q
    <3>1. s \in Seat
      BY SeatsOfType
    <3>2. hold[s] = q
      BY <2>1, <2>2 DEF HeldByAccepted
    <3> QED
      BY <1>2, <1>4, <2>1, <2>2, <3>1, <3>2
  <2> QED
    BY <1>1, <2>1, <2>2 DEF HeldByAccepted, SeatsOf
<1>7. OwnedUntilReleased'
  <2>1. ASSUME NEW q \in Request, pc'[q] = "release", NEW s \in seen'[q]
        PROVE  hold'[s] = q \/ s \in lost'[q]
    <3>1. q # p /\ pc[q] = "release" /\ s \in Seat
      BY <1>1, <1>3, <2>1
    <3>2. s \in seen[q] /\ (hold[s] = q \/ s \in lost[q])
      BY <1>1, <2>1, <3>1 DEF OwnedUntilReleased
    <3>3. lost'[q] = lost[q] \union {y \in seen[p] : hold[y] = q}
      BY <3>1 DEF ReleaseOwn, Lose
    <3> QED
      BY <1>2, <3>1, <3>2, <3>3
  <2> QED
    BY <2>1 DEF OwnedUntilReleased
<1>8. NothingLost'
  BY <1>1, <1>4 DEF ReleaseOwn, Lose, NothingLost
<1>9. ReservedShowsAccepted'
  <2>1. ASSUME ~wiped, NEW q \in Request, pc'[q] \in {"send", "QUEUED"}, NEW s \in SeatsOf(q)
        PROVE  s \in reserved'
    <3>1. q # p /\ pc[q] \in {"send", "QUEUED"}
      BY <1>3, <2>1
    <3>2. s \in Seat /\ hold[s] = q /\ s \in reserved
      BY <2>1, <3>1, SeatsOfType DEF HeldByAccepted, ReservedShowsAccepted
    <3> QED
      BY <1>1, <1>4, <2>1, <3>1, <3>2
  <2> QED
    BY <1>1, <2>1 DEF ReservedShowsAccepted, SeatsOf
<1>10. ReservedOnlyAccepted'
  BY <1>1, <1>3 DEF ReservedOnlyAccepted, SeatsOf
<1> QED
  BY <1>5, <1>6, <1>7, <1>8, <1>9, <1>10

-----------------------------------------------------------------------------
(* Everything else                                                         *)

\* Steps that write none of the keys: arrival, sale check, send, GET, failures.
LEMMA QuietStepKeepsInv ==
  ASSUME HoldInv, NEW p \in Request,
         Arrive(p) \/ CheckSale(p) \/ Send(p) \/ ReadOwn(p) \/ HandlerFails(p)
  PROVE  HoldInv'
<1> USE DEF HoldInv, TypeOK
<1>1. UNCHANGED <<taken, hold, reserved, sale, past>>
  BY DEF Arrive, CheckSale, Send, ReadOwn, HandlerFails
<1>2. PICK x \in {"check", "hold", "SALES_CLOSED", "QUEUED", "release", "500"} :
        /\ pc' = [pc EXCEPT ![p] = x]
        /\ x = "QUEUED" => pc[p] = "send"
        /\ pc[p] \notin {"QUEUED", "500"}
        /\ pc[p] = "send" => x \in {"QUEUED", "500"}
        /\ x # "release" => seen' = seen
        /\ x = "release" => seen' = [seen EXCEPT ![p] = {s \in taken[p] : hold[s] = p}]
  BY DEF Arrive, CheckSale, Send, ReadOwn, HandlerFails, Goto
<1>3. TypeOK'
  BY <1>1, <1>2
<1>4. HeldByAccepted'
  BY <1>1, <1>2 DEF HeldByAccepted, SeatsOf
<1>5. OwnedUntilReleased'
  BY <1>1, <1>2 DEF OwnedUntilReleased
<1>6. NothingLost'
  BY <1>1 DEF NothingLost
<1>7. ReservedShowsAccepted'
  BY <1>1, <1>2 DEF ReservedShowsAccepted, SeatsOf
<1>8. ReservedOnlyAccepted'
  BY <1>1, <1>2 DEF ReservedOnlyAccepted, SeatsOf
<1> QED
  BY <1>3, <1>4, <1>5, <1>6, <1>7, <1>8

\* What expires or is flushed counts as lost, and leaves no seat on the map that was
\* not there.
LEMMA EnvironmentKeepsInv ==
  ASSUME HoldInv,
         \/ \E st \in {"OPEN", "CLOSED"} : SetSaleState(st)
         \/ \E s \in Seat : ExpireHold(s)
         \/ ExpireReserved
         \/ Flush
  PROVE  HoldInv'
<1> USE DEF HoldInv, TypeOK, HeldByAccepted, OwnedUntilReleased, NothingLost,
            ReservedShowsAccepted, ReservedOnlyAccepted, SeatsOf, Wipe, Lose
<1>1. CASE \E st \in {"OPEN", "CLOSED"} : SetSaleState(st)
  BY <1>1 DEF SetSaleState
<1>2. CASE \E s \in Seat : ExpireHold(s)
  BY <1>2 DEF ExpireHold
<1>3. CASE ExpireReserved
  BY <1>3 DEF ExpireReserved
<1>4. CASE Flush
  BY <1>4 DEF Flush
<1> QED
  BY <1>1, <1>2, <1>3, <1>4

LEMMA InitHoldInv == Init => HoldInv
BY DEF Init, HoldInv, TypeOK, HeldByAccepted, OwnedUntilReleased, NothingLost,
       ReservedShowsAccepted, ReservedOnlyAccepted

LEMMA NextKeepsHoldInv == HoldInv /\ [Next]_vars => HoldInv'
<1> SUFFICES ASSUME HoldInv, [Next]_vars PROVE HoldInv'
  OBVIOUS
<1>1. CASE UNCHANGED vars
  BY <1>1 DEF HoldInv, TypeOK, HeldByAccepted, OwnedUntilReleased, NothingLost,
              ReservedShowsAccepted, ReservedOnlyAccepted, SeatsOf
<1> QED
  BY <1>1, HoldSeatsKeepsInv, ReserveSeatsKeepsInv, ReleaseOwnKeepsInv, QuietStepKeepsInv,
     EnvironmentKeepsInv DEF Next, Handler

LEMMA HoldInvariance == Spec => []HoldInv
BY InitHoldInv, NextKeepsHoldInv, PTL DEF Spec

-----------------------------------------------------------------------------
(* Theorems                                                                *)

\* The variables of the concert POST keep their types.
THEOREM HoldsAreTypeCorrect == Spec => []TypeOK
<1>1. HoldInv => TypeOK
  BY DEF HoldInv
<1> QED
  BY <1>1, HoldInvariance, PTL

\* Until a key is lost, two accepted requests share no seat: what write-api accepts
\* the worker can book.
THEOREM AcceptedRequestsAreDisjoint == Spec => []AcceptedSeatsDisjoint
BY HoldInvariance, OwnersAreApart, PTL

\* Until a key is lost, a request is sent only when the map shows all its seats, and
\* no rollback takes them away.
THEOREM AcceptedRequestsAreShown == Spec => []ReservedShowsAccepted
<1>1. HoldInv => ReservedShowsAccepted
  BY DEF HoldInv
<1> QED
  BY <1>1, HoldInvariance, PTL

\* Whatever fails, expires or is flushed, the map shows no seat that no request held
\* together with all its other seats.
THEOREM NothingElseIsShown == Spec => []ReservedOnlyAccepted
<1>1. HoldInv => ReservedOnlyAccepted
  BY DEF HoldInv
<1> QED
  BY <1>1, HoldInvariance, PTL

-----------------------------------------------------------------------------
(* Rolling back                                                            *)

\* "Release only the holds I took, do not touch another booking_ref's" (seat_hold.py):
\* whatever fails and expires, and whichever requests run between its two pipelines, a
\* rollback takes a key or a place on the map from another request only if it lost the
\* key itself after reading its owner.
THEOREM RollbacksTouchOnlyTheirOwn == Spec => ReleaseTouchesOnlyOwn
<1> DEFINE Spares == \A p \in Request, s \in Seat :
                       /\ pc[p] = "release" /\ pc'[p] # "release"
                       /\ hold'[s] # hold[s] \/ s \in reserved \ reserved'
                       => hold[s] = p \/ s \in lost[p]
<1>1. HoldInv /\ [Next]_vars => [Spares]_vars
  <2> SUFFICES ASSUME HoldInv, [Next]_vars,
                      NEW p \in Request, pc[p] = "release", pc'[p] # "release",
                      NEW s \in Seat, hold'[s] # hold[s] \/ s \in reserved \ reserved'
               PROVE  hold[s] = p \/ s \in lost[p]
    OBVIOUS
  <2>1. \E q \in Request : HoldSeats(q) \/ ReleaseOwn(q)
    BY DEF Next, Arrive, Handler, CheckSale, ReserveSeats, Send, ReadOwn,
           HandlerFails, SetSaleState, ExpireHold, ExpireReserved, Flush
  <2>2. PICK q \in Request : HoldSeats(q) \/ ReleaseOwn(q)
    BY <2>1
  <2>3. q = p /\ ReleaseOwn(p)
    BY <2>2 DEF HoldSeats, ReleaseOwn, Proceed, Goto, HoldInv, TypeOK
  <2> QED
    BY <2>3 DEF ReleaseOwn, HoldInv, OwnedUntilReleased
<1> QED
  BY <1>1, HoldInvariance, PTL DEF Spec, ReleaseTouchesOnlyOwn

=============================================================================
