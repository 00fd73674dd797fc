---------------------------- MODULE ConcertReadCache ----------------------------
(***************************************************************************)
(* The seat maps that read-api serves from Redis (concert_read_cache).     *)
(* A show's snapshot is filled on a miss: one thread of a pod at a time,   *)
(* from the reserved set of write-api if that has members and from the     *)
(* ACTIVE rows otherwise.  Bookings and refunds delete the snapshot after  *)
(* their commit, by a command of their own.                                *)
(*                                                                         *)
(* The write path is here what a reader can tell of it: SeatHold and       *)
(* ConcertBooking have its details.                                        *)
(***************************************************************************)
EXTENDS Naturals, FiniteSets

CONSTANTS Reader,       \* GETs of read-api
          PodOf,        \* the pod that serves each of them
          Show, Seat,   \* shows of one concert, the seats of each
          All,          \* a GET for all shows, get_concert_bootstrap_cached_or_load
          Missing,      \* a snapshot key that does not exist
          Free,         \* a lock nobody has
          Faults        \* what may go wrong in this instance

\* "redis": a command raises.  "ttl": holds and reserved sets
\* expire.  "flush": the cache is rebuilt.
ASSUME FaultsAssumption == Faults \subseteq {"redis", "ttl", "flush"}
ASSUME SeatAssumption == IsFiniteSet(Seat)
ASSUME NamesAssumption == All \notin Show /\ Free \notin Reader

VARIABLES active,       \* per show: seats of its ACTIVE rows
          queued,       \* seats of accepted requests the worker has not handled
          hold,         \* seats whose hold key is of an accepted request
          stray,        \* seats whose hold key is of a refused request
          rolling,      \* rollbacks that found the key of a seat their own and will delete it
          reserved,     \* concert:reserved:{show}
          torn,         \* history: booked seats that the reserved set did not have, see below
          snapshot,     \* concert:show:{show}:read:v2
          lock,         \* per pod and show: the thread in its fill lock
          pc, ask,      \* per GET: where it is, what it asks for
          todo,         \* the shows it still has to fill
          at,           \* the show it is filling
          keys,         \* per show: the reserved keys it has read
          due           \* history: seats booked when it began to read, and ever since

rows      == <<active, queued>>
seats     == <<hold, stray, rolling, reserved, torn>>
writeVars == <<rows, seats>>
readVars  == <<lock, pc, ask, todo, at, keys, due>>
vars      == <<writeVars, snapshot, readVars>>

Pod == {PodOf[t] : t \in Reader}

\* A list of seat keys: which seats it names, and its length.
Keys    == [shown : SUBSET Seat, length : 0..2 * Cardinality(Seat)]
NoKeys  == [shown |-> {}, length |-> 0]
Listing(S) == [shown |-> S, length |-> Cardinality(S)]
Appended(k, S) == [shown |-> k.shown \union S, length |-> k.length + Cardinality(S)]

\* _show_payload_from_row: reserved_seats and remain_count; a show without remaining
\* seats is CLOSED.  "by" is the pod that stored it (history).
Payload(k, pod) ==
  [shown |-> k.shown,
   remain |-> IF k.length <= Cardinality(Seat) THEN Cardinality(Seat) - k.length ELSE 0,
   by |-> pod]

TypeOK ==
  /\ active   \in [Show -> SUBSET Seat]
  /\ queued   \in [Show -> SUBSET Seat]
  /\ hold     \in [Show -> SUBSET Seat]
  /\ stray    \in [Show -> SUBSET Seat]
  /\ rolling  \in [Show -> [Seat -> Nat]]
  /\ reserved \in [Show -> SUBSET Seat]
  /\ torn     \in [Show -> SUBSET Seat]
  /\ snapshot \in [Show -> {Missing} \union
                           [shown : SUBSET Seat, remain : 0..Cardinality(Seat), by : Pod]]
  /\ lock     \in [Pod -> [Show -> Reader \union {Free}]]
  /\ pc       \in [Reader -> {"new", "get", "lock", "again", "members", "rows", "store", "done"}]
  /\ ask      \in [Reader -> Show \union {All}]
  /\ todo     \in [Reader -> SUBSET Show]
  /\ at       \in [Reader -> Show]
  /\ keys     \in [Reader -> [Show -> Keys]]
  /\ due      \in [Reader -> [Show -> SUBSET Seat]]

\* Before the sale: nothing is booked, held or cached.
Init ==
  /\ active   = [w \in Show |-> {}]
  /\ queued   = [w \in Show |-> {}]
  /\ hold     = [w \in Show |-> {}]
  /\ stray    = [w \in Show |-> {}]
  /\ rolling  = [w \in Show |-> [s \in Seat |-> 0]]
  /\ reserved = [w \in Show |-> {}]
  /\ torn     = [w \in Show |-> {}]
  /\ snapshot = [w \in Show |-> Missing]
  /\ lock     = [p \in Pod |-> [w \in Show |-> Free]]
  /\ pc       = [t \in Reader |-> "new"]
  /\ ask      = [t \in Reader |-> All]
  /\ todo     = [t \in Reader |-> {}]
  /\ at       = [t \in Reader |-> CHOOSE w \in Show : TRUE]
  /\ keys     = [t \in Reader |-> [w \in Show |-> NoKeys]]
  /\ due      = [t \in Reader |-> [w \in Show |-> {}]]

-----------------------------------------------------------------------------
(* The write path                                                          *)

Booked(w) == active[w] \union queued[w]

\* write-api accepts a request: hold key, reserved set, message.  The key may be lost
\* again before the set is written.  A set that has no members starts anew, without the
\* seats that are booked already.
Accept(w, s) ==
  /\ s \notin hold[w] \union stray[w]
  /\ \E kept \in {{s}} \union (IF Faults \intersect {"ttl", "flush"} # {} THEN {{}} ELSE {}) :
       hold' = [hold EXCEPT ![w] = @ \union kept]
  /\ reserved' = [reserved EXCEPT ![w] = @ \union {s}]
  /\ queued' = [queued EXCEPT ![w] = @ \union {s}]
  /\ torn' = IF reserved[w] = {} THEN [torn EXCEPT ![w] = @ \union (Booked(w) \ {s})] ELSE torn
  /\ UNCHANGED <<active, stray, rolling, snapshot, readVars>>

\* A request gets this seat but not another one, which is taken, or its reply is lost.
\* It found the key its own and goes on to delete it, or it leaks it: the seats after the
\* first one that was taken are never released.
HoldInVain(w, s) ==
  /\ s \notin hold[w] \union stray[w]
  /\ hold[w] \union stray[w] # {} \/ "redis" \in Faults
  /\ stray' = [stray EXCEPT ![w] = @ \union {s}]
  /\ \E more \in {0, 1} : rolling' = [rolling EXCEPT ![w][s] = @ + more]
  /\ UNCHANGED <<rows, hold, reserved, torn, snapshot, readVars>>

\* release_seats, second pipeline: DEL and SREM, whoever has the key by now.
Release(w, s) ==
  /\ rolling[w][s] > 0
  /\ rolling' = [rolling EXCEPT ![w][s] = @ - 1]
  /\ hold' = [hold EXCEPT ![w] = @ \ {s}]
  /\ stray' = [stray EXCEPT ![w] = @ \ {s}]
  /\ reserved' = [reserved EXCEPT ![w] = @ \ {s}]
  /\ torn' = IF s \in reserved[w] \intersect Booked(w) THEN [torn EXCEPT ![w] = @ \union {s}] ELSE torn
  /\ UNCHANGED <<rows, snapshot, readVars>>

ReleaseFails(w, s) ==
  /\ "redis" \in Faults
  /\ rolling[w][s] > 0
  /\ rolling' = [rolling EXCEPT ![w][s] = @ - 1]
  /\ UNCHANGED <<rows, hold, stray, reserved, torn, snapshot, readVars>>

\* The worker commits the booking.
Book(w, s) ==
  /\ s \in queued[w] /\ s \notin active[w]
  /\ queued' = [queued EXCEPT ![w] = @ \ {s}]
  /\ active' = [active EXCEPT ![w] = @ \union {s}]
  /\ UNCHANGED <<seats, snapshot, readVars>>

\* The worker refuses the request, or gives it up; hold and reserved set stay.
Refuse(w, s) ==
  /\ s \in queued[w]
  /\ queued' = [queued EXCEPT ![w] = @ \ {s}]
  /\ UNCHANGED <<active, seats, snapshot, readVars>>

\* The refund frees the row; hold and reserved set stay.
Refund(w, s) ==
  /\ s \in active[w]
  /\ active' = [active EXCEPT ![w] = @ \ {s}]
  /\ due' = [t \in Reader |-> [due[t] EXCEPT ![w] = @ \ {s}]]
  /\ UNCHANGED <<queued, seats, snapshot, lock, pc, ask, todo, at, keys>>

\* invalidate_concert_caches_after_booking, and the expiry of the key.  The deletion is a
\* command of its own after the commit: it may come late, or never when it raises or the
\* process dies, and which booking or refund it belongs to is not told apart here.
DropSnapshot(w) ==
  /\ snapshot[w] # Missing
  /\ snapshot' = [snapshot EXCEPT ![w] = Missing]
  /\ UNCHANGED <<writeVars, readVars>>

-----------------------------------------------------------------------------
(* Expiry and rebuild                                                      *)

ExpireHold(w, s) ==
  /\ "ttl" \in Faults
  /\ s \in hold[w] \union stray[w]
  /\ hold' = [hold EXCEPT ![w] = @ \ {s}]
  /\ stray' = [stray EXCEPT ![w] = @ \ {s}]
  /\ UNCHANGED <<rows, rolling, reserved, torn, snapshot, readVars>>

\* Every accepted hold renews the expiry of the set, with the TTL of the hold key:
\* the set outlives them.
ExpireReserved(w) ==
  /\ "ttl" \in Faults
  /\ hold[w] = {} /\ reserved[w] # {}
  /\ reserved' = [reserved EXCEPT ![w] = {}]
  /\ UNCHANGED <<rows, hold, stray, rolling, torn, snapshot, readVars>>

Flush ==
  /\ "flush" \in Faults
  /\ hold' = [w \in Show |-> {}]
  /\ stray' = [w \in Show |-> {}]
  /\ reserved' = [w \in Show |-> {}]
  /\ snapshot' = [w \in Show |-> Missing]
  /\ UNCHANGED <<rows, rolling, torn, readVars>>

-----------------------------------------------------------------------------
(* A GET                                                                   *)

Goto(t, there) == pc' = [pc EXCEPT ![t] = there]

\* What the GET has read about a show is not used again.
Forget(t, W) ==
  /\ keys' = [keys EXCEPT ![t] = [w \in Show |-> IF w \in W THEN NoKeys ELSE keys[t][w]]]
  /\ due' = [due EXCEPT ![t] = [w \in Show |-> IF w \in W THEN {} ELSE due[t][w]]]

\* The show w of the GET is served: go on with the next one, or answer.
Served(t, w) ==
  /\ todo' = [todo EXCEPT ![t] = @ \ {w}]
  /\ Goto(t, IF todo[t] = {w} THEN "done" ELSE "get")
  /\ Forget(t, {w})

\* get_concert_bootstrap_for_show: one show.
AskOne(t, w) ==
  /\ pc[t] = "new"
  /\ ask' = [ask EXCEPT ![t] = w]
  /\ todo' = [todo EXCEPT ![t] = {w}]
  /\ Goto(t, "get")
  /\ UNCHANGED <<writeVars, snapshot, lock, at, keys, due>>

\* get_concert_bootstrap_cached_or_load: MGET all snapshots, read the reserved seats of
\* the missing ones before any lock is taken.
AskAll(t) ==
  /\ pc[t] = "new"
  /\ ask' = [ask EXCEPT ![t] = All]
  /\ todo' = [todo EXCEPT ![t] = {w \in Show : snapshot[w] = Missing}]
  /\ Goto(t, IF \E w \in Show : snapshot[w] = Missing THEN "members" ELSE "done")
  /\ UNCHANGED <<writeVars, snapshot, lock, at, keys, due>>

\* _coalesced_fill_show_snapshot: a hit, or on to the lock of the show.
Get(t, w) ==
  /\ pc[t] = "get" /\ w \in todo[t]
  /\ \/ snapshot[w] # Missing /\ Served(t, w) /\ UNCHANGED at
     \/ /\ snapshot[w] = Missing
        /\ at' = [at EXCEPT ![t] = w]
        /\ Goto(t, "lock")
        /\ UNCHANGED <<todo, keys, due>>
  /\ UNCHANGED <<writeVars, snapshot, lock, ask>>

Lock(t) ==
  /\ pc[t] = "lock"
  /\ lock[PodOf[t]][at[t]] = Free
  /\ lock' = [lock EXCEPT ![PodOf[t]][at[t]] = t]
  /\ Goto(t, "again")
  /\ UNCHANGED <<writeVars, snapshot, ask, todo, at, keys, due>>

Unlock(t) ==
  lock' = [p \in Pod |-> [w \in Show |-> IF lock[p][w] = t THEN Free ELSE lock[p][w]]]

\* Mutant: the snapshot is not looked up again inside the lock.
FillAnyway(t) ==
  /\ pc[t] = "again"
  /\ Goto(t, IF ask[t] = All THEN "store" ELSE "members")
  /\ UNCHANGED <<writeVars, snapshot, lock, ask, todo, at, keys, due>>

GetAgain(t) ==
  /\ pc[t] = "again"
  /\ \/ snapshot[at[t]] # Missing /\ Served(t, at[t]) /\ Unlock(t)
     \/ /\ snapshot[at[t]] = Missing
        /\ Goto(t, IF ask[t] = All THEN "store" ELSE "members")
        /\ UNCHANGED <<todo, lock, keys, due>>
  /\ UNCHANGED <<writeVars, snapshot, ask, at>>

\* The keys of all shows asked for are known.
KeysRead(t) == Goto(t, IF ask[t] = All THEN "get" ELSE "store")

\* Mutant: what Redis says is the seat map, also when it says nothing.
MembersAreAll(t) ==
  /\ pc[t] = "members"
  /\ due' = [due EXCEPT ![t] = [w \in Show |-> IF w \in todo[t] THEN active[w] ELSE {}]]
  /\ \E failed \in IF "redis" \in Faults THEN {{}, Show} ELSE {{}} :
       keys' = [keys EXCEPT ![t] =
                  [w \in Show |-> IF w \in failed THEN NoKeys ELSE Listing(reserved[w])]]
  /\ KeysRead(t)
  /\ UNCHANGED <<writeVars, snapshot, lock, ask, todo, at>>

\* _fetch_reserved_seat_keys_by_show, first part: SMEMBERS for every show.  An error
\* reads as an empty set; an empty set sends the whole list of shows to the database.
ReadMembers(t) ==
  /\ pc[t] = "members"
  /\ due' = [due EXCEPT ![t] = [w \in Show |-> IF w \in todo[t] THEN active[w] ELSE {}]]
  /\ \E failed \in IF "redis" \in Faults THEN SUBSET todo[t] ELSE {{}} :
       LET found == [w \in Show |-> IF w \in todo[t] \ failed THEN reserved[w] ELSE {}] IN
       /\ keys' = [keys EXCEPT ![t] = [w \in Show |-> Listing(found[w])]]
       /\ IF \A w \in todo[t] : found[w] # {} THEN KeysRead(t) ELSE Goto(t, "rows")
  /\ UNCHANGED <<writeVars, snapshot, lock, ask, todo, at>>

\* Second part: the ACTIVE rows of all these shows are appended to what was found.
ReadRows(t) ==
  /\ pc[t] = "rows"
  /\ keys' = [keys EXCEPT ![t] =
                [w \in Show |-> IF w \in todo[t] THEN Appended(keys[t][w], active[w]) ELSE NoKeys]]
  /\ KeysRead(t)
  /\ UNCHANGED <<writeVars, snapshot, lock, ask, todo, at, due>>

Store(t) ==
  /\ pc[t] = "store"
  /\ snapshot' = [snapshot EXCEPT ![at[t]] = Payload(keys[t][at[t]], PodOf[t])]
  /\ Unlock(t)
  /\ Served(t, at[t])
  /\ UNCHANGED <<writeVars, ask, at>>

\* Mutant: acquire and release without "with" or "finally".
RaiseLocked(t) ==
  /\ "redis" \in Faults
  /\ pc[t] \in {"get", "again", "rows", "store"}
  /\ Forget(t, Show)
  /\ Goto(t, "done")
  /\ UNCHANGED <<writeVars, snapshot, lock, ask, todo, at>>

\* A command raises (SMEMBERS cannot): the GET answers 500, "with" gives the lock back.
Raise(t) ==
  /\ "redis" \in Faults
  /\ pc[t] \in {"get", "again", "rows", "store"}
  /\ Unlock(t)
  /\ Forget(t, Show)
  /\ Goto(t, "done")
  /\ UNCHANGED <<writeVars, snapshot, ask, todo, at>>

-----------------------------------------------------------------------------
Fill(t) ==
  (\E w \in Show : Get(t, w)) \/ Lock(t) \/ GetAgain(t) \/ ReadMembers(t) \/ ReadRows(t) \/ Store(t)

Next ==
  \/ \E w \in Show, s \in Seat :
       \/ Accept(w, s) \/ HoldInVain(w, s) \/ Release(w, s) \/ ReleaseFails(w, s)
       \/ Book(w, s) \/ Refuse(w, s) \/ Refund(w, s) \/ ExpireHold(w, s)
  \/ \E w \in Show : DropSnapshot(w) \/ ExpireReserved(w)
  \/ Flush
  \/ \E t \in Reader, w \in Show : AskOne(t, w)
  \/ \E t \in Reader : AskAll(t) \/ Fill(t) \/ Raise(t)

Spec == Init /\ [][Next]_vars

\* A thread that serves a GET goes on; nothing is assumed of writers and expiry.
FairSpec == Spec /\ \A t \in Reader : WF_vars(Fill(t))

-----------------------------------------------------------------------------
(* Properties                                                              *)

\* A seat that was booked before a fill began to read, and still is, is shown as
\* taken by the snapshot it stores: the seat map does not offer seats that are sold.
\* The fill reads the reserved set of write-api where it has members, although
\* concert_read_cache.py derives what remains "from the number of reserved ACTIVE seats".
BookedSeatsAreShown ==
  \A t \in Reader : pc[t] = "store" => due[t][at[t]] \subseteq keys[t][at[t]].shown

\* That is so, whichever source the fill reads, and whatever bookings, rollbacks,
\* refunds, expiries and failures overlap with it, for all seats but those that were
\* booked when the reserved set was lost and started anew without them, or whose hold
\* was lost so that the rollback of another request took them off the set.
BookedShownUnlessTorn ==
  \A t \in Reader :
    pc[t] = "store" => due[t][at[t]] \subseteq keys[t][at[t]].shown \union torn[at[t]]

\* "Fill only once at a time" (_coalesced_fill_show_snapshot): a pod never replaces a
\* snapshot it stored itself and that is still there, although its threads miss
\* together.
FilledOnce ==
  [][\A w \in Show :
       snapshot[w] # Missing /\ snapshot'[w] \notin {Missing, snapshot[w]} =>
         snapshot'[w].by # snapshot[w].by]_vars

\* Every GET ends: again and again all GETs that have begun are answered.  No thread
\* waits for ever for the fill lock of its pod, although the one that has it may find the
\* snapshot filled, fail in Redis or in the database, or store, and has further shows to
\* fill.
EveryGetEnds == []<>(\A t \in Reader : pc[t] \in {"new", "done"})

\* "Remain is derived from the number of reserved ACTIVE seats"
\* (concert_read_cache.py): what a snapshot says is left agrees with the seats it shows.
RemainMatchesMap ==
  \A w \in Show :
    snapshot[w] # Missing =>
      snapshot[w].remain = Cardinality(Seat) - Cardinality(snapshot[w].shown)

=============================================================================
