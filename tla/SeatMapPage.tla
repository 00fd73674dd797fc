------------------------------ MODULE SeatMapPage ------------------------------
(***************************************************************************)
(* The pages from which seats are booked, theaters_main.js and             *)
(* concert_booking.js: one screening with its map, what a booking changes  *)
(* on the page at once (onBooked), and the requests that bring the page    *)
(* back in line with the server.                                           *)
(*                                                                         *)
(* The theater page replaces its dataset whenever something was written    *)
(* (the ticketing-cache-rebuilt event, from this tab or another), while    *)
(* open dialogs keep the objects of the dataset they were opened from.     *)
(* The concert page makes one state object per visit.  Both are            *)
(* generations here.                                                       *)
(***************************************************************************)
EXTENDS Naturals, FiniteSets

CONSTANTS Seat,
          Order,        \* bookings of this client
          Request,      \* bound: read requests of the page
          MaxGen,       \* bound: datasets, or visits of the concert page
          Kinds,
          Faults        \* "read": a read request fails

ASSUME SeatAssumption   == IsFiniteSet(Seat) /\ Seat # {}
ASSUME MaxGenAssumption == MaxGen \in Nat \ {0}
ASSUME KindsAssumption  == Kinds \subseteq {"concert", "theater"}
ASSUME FaultsAssumption == Faults \subseteq {"read"}

VARIABLES
  kind,       \* which page
  here,       \* the route is this page
  data,       \* of a generation: remain_count, status OPEN, reservedSeats
  newest,     \* the last generation, state.dataset of the theater page
  drawn,      \* the generation in #main-body, 0 when another page or none is there
  order,      \* of an order: pc, seats, from (the generation its card was drawn from)
  request,    \* of a request: pc, use, into (the generation it repairs), seen (its answer)
  taken,      \* on the server: seats with an ACTIVE row; refunds are left out
  was,        \* history: what taken has been
  known,      \* history: seats the page has been told are taken
  outdated,   \* history: an answer older than what the page knew was applied
  mixed,      \* history: a count and a map of different moments were put together
  failed      \* history: a read request failed

client == <<kind, here, data, newest, drawn>>
server == <<taken, was>>
past   == <<known, outdated, mixed, failed>>
vars   == <<client, order, request, server, past>>

Gen == 1..MaxGen
Screening == [remain : 0..Cardinality(Seat), open : BOOLEAN, reserved : SUBSET Seat]

TypeOK ==
  /\ kind     \in Kinds
  /\ here     \in BOOLEAN
  /\ data     \in [Gen -> Screening]
  /\ newest   \in 0..MaxGen
  /\ drawn    \in 0..newest
  /\ order    \in [Order -> [pc : {"new", "posted", "queued", "booked", "refused", "told"},
                             seats : SUBSET Seat, from : 0..MaxGen]]
  /\ request  \in [Request -> [pc : {"free", "sent", "answered", "done"},
                               use : {"none", "page", "refetch", "detail"},
                               into : 0..MaxGen, seen : Screening]]
  /\ taken    \subseteq Seat
  /\ was      \subseteq SUBSET Seat
  /\ known    \subseteq Seat
  /\ outdated \in BOOLEAN
  /\ mixed    \in BOOLEAN
  /\ failed   \in BOOLEAN

Empty  == [remain |-> 0, open |-> FALSE, reserved |-> {}]
Unused == [pc |-> "free", use |-> "none", into |-> 0, seen |-> Empty]

Init ==
  /\ kind     \in Kinds
  /\ here     = FALSE
  /\ data     = [g \in Gen |-> Empty]
  /\ newest   = 0
  /\ drawn    = 0
  /\ order    = [o \in Order |-> [pc |-> "new", seats |-> {}, from |-> 0]]
  /\ request  = [r \in Request |-> Unused]
  /\ taken    = {}
  /\ was      = {{}}
  /\ known    = {}
  /\ outdated = FALSE
  /\ mixed    = FALSE
  /\ failed   = FALSE

InFlight(use) == {r \in Request : request[r].use = use /\ request[r].pc \in {"sent", "answered"}}
Free(r)       == request[r] = Unused
Sent(use, g)  == [pc |-> "sent", use |-> use, into |-> g, seen |-> Empty]

-----------------------------------------------------------------------------
(* What an answer says, and what it becomes                                *)

Left(S)     == Cardinality(Seat \ S)
Minus(n, m) == IF n > m THEN n - m ELSE 0

\* _fetch_bootstrap_from_db, in one of the two keys without TTL (get_theaters_bootstrap,
\* get_theater_detail).  The worker deletes the keys after it has stored the result, a
\* reader may store what it read before that, and an error of the deletion is ignored:
\* an answer is of any moment so far.  Count and status come from one SELECT, the map
\* from a later one, each with a view of its own (the connection commits by itself).
TheaterSays(a) ==
  /\ a.reserved \in was
  /\ \E S \in was : S \subseteq a.reserved /\ a.remain = Left(S)

\* _show_payload_from_row: the reserved set, which may have begun anew and which has seats
\* of orders not booked yet, or never; the rows may have been added to it, and count twice.
ConcertSays(a) ==
  /\ a.reserved \subseteq taken \union UNION {order[o].seats : o \in Order}
  /\ \E twice \in 0..Cardinality(a.reserved) : a.remain = Minus(Left(a.reserved), twice)

\* Both close what has no seat left.
Answers ==
  {a \in Screening : /\ IF kind = "theater" THEN TheaterSays(a) ELSE ConcertSays(a)
                     /\ a.open <=> a.remain > 0}

\* normalizeBootstrap takes a remain_count of 0 for a missing one and fills in the
\* total; a sold-out screening is kept from sale by its status alone.  The concert
\* page takes the shows as they are.
Total(n) == IF kind = "theater" /\ n = 0 THEN Cardinality(Seat) ELSE n

\* Mutant: the screening is offered whatever its status says.
NormalizedOpen(a) == [remain |-> Total(a.remain), open |-> TRUE, reserved |-> a.reserved]

Normalized(a) == [a EXCEPT !.remain = Total(a.remain)]

\* The theater's answer names the screenings that have reserved seats.
KeepsMap(a) == kind = "theater" /\ a.reserved = {}

\* mergeTheaterDetailSlice: count and status are overwritten, the map only when the answer
\* names the screening; on the concert page the fields of the show.
Merged(d, a) == [a EXCEPT !.reserved = IF KeepsMap(a) THEN d.reserved ELSE @]

\* createScheduleCard, createScheduleButton.
Offered(d) == d.open /\ d.remain > 0

-----------------------------------------------------------------------------
(* Coming and going                                                        *)

\* mountTheatersMain, mountConcertBookingPage: the body shows "loading", which the
\* router waits for.
Mount(r) ==
  /\ ~here /\ newest < MaxGen
  /\ Free(r)
  /\ here' = TRUE
  /\ drawn' = 0
  /\ request' = [request EXCEPT ![r] = Sent("page", 0)]
  /\ UNCHANGED <<kind, data, newest, order, server, past>>

Leave ==
  /\ here /\ InFlight("page") = {}
  /\ here' = FALSE
  /\ drawn' = 0
  /\ UNCHANGED <<kind, data, newest, order, request, server, past>>

\* refetchBookingDatasetAfterCacheRebuild: only if a booking page is in the document
\* and not loading.  The concert page has no listener.
Refetches == kind = "theater" /\ drawn # 0 /\ InFlight("page") = {}

\* The broadcast channel: a write of this tab once more, or of another tab.
Broadcast(r) ==
  /\ Refetches
  /\ newest + Cardinality(InFlight("refetch")) < MaxGen
  /\ Free(r)
  /\ request' = [request EXCEPT ![r] = Sent("refetch", 0)]
  /\ UNCHANGED <<client, order, server, past>>

Serve(r) ==
  /\ request[r].pc = "sent"
  /\ \E a \in Answers :
       request' = [request EXCEPT ![r].pc = "answered", ![r].seen = a]
  /\ UNCHANGED <<client, order, server, past>>

\* Errors of refetch and detail are swallowed; the page shows one of its own.
Fail(r) ==
  /\ "read" \in Faults
  /\ request[r].pc = "sent"
  /\ request' = [request EXCEPT ![r] = [Unused EXCEPT !.pc = "done"]]
  /\ failed' = TRUE
  /\ UNCHANGED <<client, order, server, known, outdated, mixed>>

\* keeps: the map d stays although the answer has another count.
Learn(a, keeps) ==
  /\ known' = known \union a.reserved
  /\ outdated' = (outdated \/ ~(known \subseteq a.reserved))
  /\ mixed' = (mixed \/ keeps \/ (kind = "theater" /\ a.remain # Left(a.reserved)))
  /\ UNCHANGED failed

\* A new dataset or state object is drawn.  A refetch does not look again whether its
\* page is still there: it draws over another page.
Replace(r) ==
  /\ request[r].pc = "answered" /\ request[r].use \in {"page", "refetch"}
  /\ newest < MaxGen
  /\ newest' = newest + 1
  /\ data' = [data EXCEPT ![newest + 1] = Normalized(request[r].seen)]
  /\ drawn' = newest + 1
  /\ request' = [request EXCEPT ![r] = [Unused EXCEPT !.pc = "done"]]
  /\ Learn(request[r].seen, FALSE)
  /\ UNCHANGED <<kind, here, order, server>>

\* The theater page merges into the dataset of the moment, the concert page into the
\* state it was sent for; both draw what they changed.
Repair(r) ==
  /\ request[r].pc = "answered" /\ request[r].use = "detail"
  /\ LET g == IF kind = "theater" THEN newest ELSE request[r].into
         a == request[r].seen IN
       /\ data' = [data EXCEPT ![g] = Merged(@, a)]
       /\ drawn' = g
       /\ Learn(a, KeepsMap(a) /\ data[g].reserved # {})
  /\ request' = [request EXCEPT ![r] = [Unused EXCEPT !.pc = "done"]]
  /\ UNCHANGED <<kind, here, newest, order, server>>

-----------------------------------------------------------------------------
(* Booking                                                                 *)

\* A card is clicked, seats are picked from the dialog's copy of the map, and posted.
Post(o, S) ==
  /\ here /\ drawn # 0 /\ Offered(data[drawn])
  /\ order[o].pc = "new"
  /\ S # {} /\ S \intersect data[drawn].reserved = {}
  /\ order' = [order EXCEPT ![o] = [pc |-> "posted", seats |-> S, from |-> drawn]]
  /\ UNCHANGED <<client, request, server, past>>

\* The POST is answered; writeApi notifies the page, before the worker has done anything.
PostReturns(o, r) ==
  /\ order[o].pc = "posted"
  /\ order' = [order EXCEPT ![o].pc = "queued"]
  /\ IF Refetches /\ newest + Cardinality(InFlight("refetch")) < MaxGen
       THEN Free(r) /\ request' = [request EXCEPT ![r] = Sent("refetch", 0)]
       ELSE UNCHANGED request
  /\ UNCHANGED <<client, server, past>>

Take(S) ==
  /\ taken' = taken \union S
  /\ was' = was \union {taken'}

Work(o) ==
  /\ order[o].pc = "queued"
  /\ \/ /\ order[o].seats \intersect taken = {}
        /\ order' = [order EXCEPT ![o].pc = "booked"]
        /\ Take(order[o].seats)
     \/ /\ order[o].seats \intersect taken # {}
        /\ order' = [order EXCEPT ![o].pc = "refused"]
        /\ UNCHANGED server
  /\ UNCHANGED <<client, request, past>>

OtherBooks(s) ==
  /\ s \notin taken
  /\ Take({s})
  /\ UNCHANGED <<client, order, request, past>>

\* Mutant: the page does not ask the server afterwards.
OnBookedUnrepaired(o, r) ==
  /\ order[o].pc = "booked"
  /\ Free(r)
  /\ LET from == order[o].from
         g    == IF kind = "theater" THEN newest ELSE from IN
       /\ data' = [data EXCEPT ![from].remain = Minus(@, Cardinality(order[o].seats)),
                               ![g].reserved = @ \union order[o].seats]
       /\ drawn' = g
  /\ order' = [order EXCEPT ![o].pc = "told"]
  /\ known' = known \union order[o].seats
  /\ UNCHANGED <<kind, here, newest, request, server, outdated, mixed, failed>>

\* Mutant: the seats are added to the dataset the dialog was opened with.
OnBookedIntoOldData(o, r) ==
  /\ order[o].pc = "booked"
  /\ Free(r)
  /\ LET from == order[o].from IN
       /\ data' = [data EXCEPT ![from].remain = Minus(@, Cardinality(order[o].seats)),
                               ![from].reserved = @ \union order[o].seats]
       /\ drawn' = IF kind = "theater" THEN newest ELSE from
       /\ request' = [request EXCEPT ![r] = Sent("detail", from)]
  /\ order' = [order EXCEPT ![o].pc = "told"]
  /\ known' = known \union order[o].seats
  /\ UNCHANGED <<kind, here, newest, server, outdated, mixed, failed>>

\* onBooked.  The theater page adds the seats to the current dataset and counts them off
\* the schedule object the dialog was opened with; the concert page does both in its
\* state and closes a show without seats.  Then the page asks the server.
OnBooked(o, r) ==
  /\ order[o].pc = "booked"
  /\ Free(r)
  /\ LET from == order[o].from
         g    == IF kind = "theater" THEN newest ELSE from
         less == Minus(data[from].remain, Cardinality(order[o].seats)) IN
       /\ data' = [data EXCEPT ![from].remain = less,
                               ![from].open = @ /\ (kind = "concert" => less > 0),
                               ![g].reserved = @ \union order[o].seats]
       /\ drawn' = g
       /\ request' = [request EXCEPT ![r] = Sent("detail", g)]
  /\ order' = [order EXCEPT ![o].pc = "told"]
  /\ known' = known \union order[o].seats
  /\ UNCHANGED <<kind, here, newest, server, outdated, mixed, failed>>

-----------------------------------------------------------------------------
Arrive(r) == Replace(r) \/ Repair(r)

Next ==
  \/ \E r \in Request : Mount(r) \/ Broadcast(r) \/ Serve(r) \/ Fail(r) \/ Arrive(r)
  \/ Leave
  \/ \E o \in Order, S \in SUBSET Seat : Post(o, S)
  \/ \E o \in Order, r \in Request : PostReturns(o, r) \/ OnBooked(o, r)
  \/ \E o \in Order : Work(o)
  \/ \E s \in Seat : OtherBooks(s)

Spec == Init /\ [][Next]_vars

-----------------------------------------------------------------------------
(* Properties                                                              *)

Settled ==
  /\ \A r \in Request : request[r].pc \in {"free", "done"}
  /\ \A o \in Order : order[o].pc \notin {"posted", "queued", "booked"}

\* The bookings the drawn generation was told of; the concert page may draw the state
\* of an earlier visit, which knows nothing of those made since.
Told   == {o \in Order : /\ order[o].pc = "told"
                         /\ kind = "concert" => order[o].from = drawn}
Booked == UNION {order[o].seats : o \in Told}

\* When every request is answered, and in order, the page shows the client's own seats
\* as taken, whichever dataset the dialog, the callback and the answers worked on.
OwnSeatsAreShown ==
  Settled /\ drawn # 0 /\ ~outdated => Booked \subseteq data[drawn].reserved

\* The theater page puts count and map together from several answers and its own
\* bookings.  Nothing is claimed of it once a read failed, or an answer itself was torn or
\* left an older map; the concert page needs no exception.
Trusted == kind = "theater" => ~failed /\ ~mixed

\* A screening is offered only when the map it opens has a free seat, although the count
\* on the card comes from other fields than the map, 0 is read as "unknown", and answers
\* are applied in any order.
OfferedHasFreeSeat ==
  Settled /\ drawn # 0 /\ Trusted /\ Offered(data[drawn]) => data[drawn].reserved # Seat

\* The count on a theater card agrees with the map, except that a sold-out screening may
\* show its total; that of a concert never promises more seats than the map has free.
CountMatchesMap ==
  Settled /\ drawn # 0 /\ Trusted =>
    LET d == data[drawn] IN
    \/ d.remain = Left(d.reserved)
    \/ d.reserved = Seat /\ ~d.open /\ kind = "theater"
    \/ d.remain < Left(d.reserved) /\ kind = "concert"

=============================================================================
