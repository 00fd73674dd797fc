# Verification of the SOLDESK ticketing system

TLA+ models of this repository's booking path and of the browser client in front of it,
checked with TLC and, for the parts that carry most, proved with TLAPS. Paths below are
relative to `src/`; `WAS` is `services/ticketing-was`, `JS` is `frontend/src/js`.

## 1. Inventory

### The booking path on the servers

| Component | State | Operations | Talks to |
|---|---|---|---|
| concert commit endpoint (`WAS/concert/concert_write.py`) | none of its own | `commit_concert_booking`, sale open/close | seat holds, sale state, `sqs_client` |
| theater commit endpoint (`WAS/theater/theaters_write.py`) | none | `commit_booking` | `sqs_client` |
| seat holds (`WAS/concert/seat_hold.py`) | Redis cache database: `concert:seat:*:hold`, `concert:reserved:*`, `concert:holdmeta:*` | `try_hold_seats`, `release_seats` | read cache (reserved set) |
| sale state (`WAS/concert/sale_state.py`) | `concert:sale:*` in the same Redis database | `set_sale_state`, `is_open` | cache rebuild (shares the database) |
| booking delivery (`WAS/sqs_client.py`, `services/worker-svc/main.py`, `terraform/modules/sqs`) | the FIFO queue with receive counts, its dead-letter queue, `booking:queued:*`, `booking:result:*` in a Redis database of its own | send, mark queued, receive, duplicate check, `store_result`, delete, status polling | worker transactions |
| concert transaction (`process_concert_booking`) | `concert_booking`, `concert_booking_seats`, `concert_payment` | one transaction per delivery | unique index over ACTIVE seat rows |
| theater transaction (`process_theater_booking`) | `schedules` (`remain_count`, `status`), `booking`, `booking_seats`, `payment` | one transaction per delivery | row lock on the schedule |
| refunds (`WAS/user/user_write.py`) | the same tables | `_refund_movie_booking`, `_refund_concert_booking` | read caches, booking history |
| accounts (`WAS/auth/auth_user_write.py`) | `users` | sign-up, edit, password | session in the browser |

### The browser client

One page, plain JavaScript modules, one event loop. What runs between two awaits is atomic;
everything else interleaves: handlers of closed dialogs, answers to requests of pages that
were left, events from this and from other tabs.

| Component | State | Operations | Talks to |
|---|---|---|---|
| booking dialogs (`JS/concert/concert_booking_modal.js`, `JS/theaters/theaters_detail.js`, `JS/common/write-api.js`) | a closure per opened dialog: step, selection, submit button, key handler; the polling loop of an order; `modalState` | open, toggle a seat, confirm, pick again, submit, poll, close | commit and status endpoints, booking pages, login |
| booking pages (`JS/theaters/theaters_main.js`, `JS/concert/concert_booking.js`) | dataset or state object with `remain_count`, status and `reservedSeats`; what is drawn | mount, normalise, `onBooked`, repair by a detail request, refetch after a write | dialogs, write events |
| router and assets (`JS/main/router.js`, `JS/common/app-config.js`), home, list and detail pages (`JS/main`, `JS/movie`, `JS/concert`) | the address, a chain of render jobs, script and style elements, `#main-body`, the ranking below it | `navigate`, render, `ensureScript`, `ensureStyle`, refetch after a write | every page |
| session, login, sign-up, password, account forms (`JS/user`, `JS/main/head.js`, `JS/common/app-config.js`) | `loginUser` (expires) and `user_id` (does not) in localStorage, overlays that share an id, flags and buttons of forms | open and close overlays, submit, answer, log out | accounts, router |
| booking history (`JS/user/booking_history.js`) | list, page buttons, current page, `isRefunding` | load a page, refund | refunds, session |

### Around it

Read caches for concerts, theaters and movies (cache-aside in Redis, invalidated or
warmed up after a booking), the cache rebuild (`FLUSHDB` and refill), the worker's batch
pool, database semaphore and statistics, read-only user endpoints, `reserv-svc` (an
independent reservation service with a Redis lock, a Redis seat counter, a queue and
payments), `event-svc`, SQL scripts, load tests, Terraform, Kubernetes, monitoring and
exercises. `PROJECT.json` lists each with its status.

### What is hard here

- *At-least-once delivery around a transaction that knows nothing of it.* A message is
  redelivered when its handler dies, cannot store the result, loses the ACK, or is slower
  than the visibility timeout (90 s); no table stores the `booking_ref`, so the only
  protection is the stored result and the seats themselves.
- *Interleaving on the servers.* Any number of pods, pollers and batch threads run
  transactions on the same seats; concert seats are protected by an index alone, schedules
  by a row lock.
- *Partial failure.* MySQL, two Redis databases and SQS are written one after the other
  and fail one by one.
- *State kept twice.* `remain_count` next to ACTIVE rows; Redis holds and the reserved set
  next to the database; a sale state in a database that a cache rebuild empties; seats and
  counts in the browser next to both.
- *Nothing is aborted in the browser.* Closing a dialog, leaving a page or logging out stops
  no request; the answer is applied to whatever is there when it arrives.
- *Shared names in the browser.* Scroll lock, overlay ids, a submitting flag and key handlers
  belong to several dialogs at once.
- *Time.* Holds, marks, results and sessions expire; polling gives up.

For each modelled component, what makes it correct:

- delivery: nothing is deleted unanswered; every message ends; answers are true and final
  as far as the duplicate check can make them so;
- both transactions: no seat sold twice, bookings whole, one live booking per request, OK
  only for a committed booking, no handler hangs;
- theater: counter, seat rows and status agree, the lock is always given back;
- holds: accepted requests share no seat, rollbacks touch nobody else, the reserved set shows
  what is held;
- seat-map cache: a fill shows what was booked before it, threads of a pod fill once, no GET
  waits for ever;
- dialogs: the page behind is never left locked, final answers are true, "try again" does not
  invite a double booking, orders are valid and one at a time;
- booking pages: the customer's own seats are shown as taken, what is offered has a free seat,
  count and map agree;
- router: the page drawn is the one of the URL, every navigation is rendered;
- session: the user acted for is the one who logged in last, numbers stay unique, no form is
  left dead;
- history: the list is the page its buttons name, a refund is shown and paid back once.

## 2. Modules

```
SeatSale  (abstract)                         SeatHold      ConcertReadCache
   ^                ^                           ^                 ^
   | implements     | implements                |                 |
ConcertBooking   TheaterBooking              MCSeatHold,  MCConcertReadCache,
   |    \          /    |                     SeatHoldProofs  ConcertReadCacheProofs
   |    BookingDelivery  +-- MCTheaterBooking, TheaterBookingProofs
   |
   +-- MCConcertBooking, ConcertBookingProofs

BookingDialog        SeatMapPage  PageRouter   UserSession        BookingHistory
BookingDialogProofs      \      /             UserSessionProofs  BookingHistoryProofs
                         PageProofs
(each with its MC module)
```

The servers first.

**BookingDelivery** is the part of the pipeline that both kinds of booking share, and is
not run alone. A request is its `booking_ref`; a handler invocation is a *delivery*
`<<ref, n>>`, `n` being SQS's ApproximateReceiveCount. `msg` is where SQS keeps the message,
`queued` and `result` are the two Redis keys, `pc` and `reply` the position of each handler
and the code it is about to store, `api` the position of the POST. `told` is a history
variable. `Receive`, `VisibilityTimeout`, `MoveToDLQ` are SQS; `DuplicateCheck`,
`StoreResult` (the SETEX), `ClearQueued` (the DEL), `Ack` and their failures are
`_handle_one_sqs_message`, `store_result` and `_ack_if_ok`; `Crash` is the death of a pod.
The constant `Faults` says which parts of the environment may fail in an instance; the
proofs are for any `Faults`.

**ConcertBooking** adds `process_concert_booking`: refusals before the seat rows, one row
after the other against the unique index (taken, or waiting for another open transaction,
or ended by InnoDB), commit, rollback, a commit whose acknowledgement is lost, and the refund.
`pending` holds the rows of open transactions, `active` the committed ACTIVE rows, `booking`
the booking row of each delivery (a delivery inserts at most one).

**TheaterBooking** adds `process_theater_booking`: the row lock (`lock`), the counter
(`remain`), `status`, and the same tables. As the schedule stays locked, the statements after
the lock are three steps: `Refuse`, `InsertSeats`, `Commit`.

**SeatSale** is what both promise: an order's seats change hands at once, only if free, at
most one live sale per order, and a return gives back exactly its seats. Both modules
implement it (`ImplementsSeatSale`) with `sold <- booking, holding <- active`.

**SeatHold** is the concert POST before the queue. A redis-py pipeline is MULTI/EXEC and so
one step; `try_hold_seats` is two (`HoldSeats`, `ReserveSeats`), `release_seats` two more
(`ReadOwn`, `ReleaseOwn`). `taken` is the list `held`, `seen` the seats whose GET returned
the request's own ref. `Flush` is the first statement of the cache rebuild. `wiped` remembers
that a key was lost to a TTL or a rebuild, `lost` which keys a request in the middle of its rollback
has lost since it read their owners.

**ConcertReadCache** is the seat map of read-api. A GET asks for one show or for all
(`AskOne`, `AskAll`); on a miss it takes its pod's lock for the show, looks again, reads the
reserved set (`ReadMembers`) and, if that is empty for one of the shows, the ACTIVE rows
(`ReadRows`), and stores the snapshot; a GET for all shows reads before it locks. `keys` is
what it has read: the seats and the length of the list, which differ when a seat is listed
twice. The write path appears as a reader sees it: `Accept`, `Book`, `Refuse`, `Refund`, and the
requests that hold seats in vain. Those either leak the key (`stray`) or roll it back; `rolling`
counts the rollbacks that have found the key of a seat to be their own and will delete it and take the
seat off the reserved set (`Release`), whosever it is by then. `DropSnapshot` is the deletion of the
snapshot after a commit, which may come late or never, and its expiry. `due`, `torn` and the field
`by` are history; `torn` are the booked seats that the set lost by starting anew or by a rollback.

The browser client. In each module an action is one handler, or the part of one up to its
next `await`; what a handler does afterwards is another action, with the state it finds then.

**BookingDialog** has one `Dialog` per call of `openConcertBookingModal` or
`openTheatersDetail`, because the call's closure survives its overlay. `ui` says whether the
overlay is there, `closure` is step, selection, submit button and `succeeded`, `esc` the key
handlers that are registered (with `once`, and never removed), `locked` the scroll lock all
overlays share, `login` the login overlays. An `Order` goes from POST to polling to its end
as in `write-api.js`; the server appears as that client sees it: queued mark, message, and two
things that can disagree, what the database says of the order (`server`) and what `store_result`
has stored (`result`). `Book` and `StoreOk` are two steps, and the worker may store a failure for a
booked order (`StoreFailure`; BookingDelivery has the details of how); `denied` are the orders
it did that to. Navigation, reload, logout in
another tab and lost requests interleave with all of it. `misreported` and `reselected` record that
`onBooked` was called for other seats than the order's, and why that can be: "pick seats
again" stays enabled during a request.

**SeatMapPage** is what such a booking does to the page behind. A *generation* is a dataset
of the theater page or the state object of one visit of the concert page; a dialog keeps the
one it was opened from, the page may have moved on. Three kinds of requests bring the page
back in line (`page`, `refetch` after a write event, `detail` after `onBooked`), each with the
answer it got (`seen`). An answer is not the state of the moment. The theater's keys have no TTL and are
deleted only after the worker has stored its result, so they answer with any state so far (`was`),
even from before a booking the client has been told of; and the counts and the map of one answer are
two SELECTs (`TheaterSays`). A concert's answer is a snapshot as ConcertReadCache makes them, with
seats missing, held in vain, or counted twice (`ConcertSays`). `Merged` overwrites a screening's
count always and its map only if the answer has one (`KeepsMap`). `outdated` records that an answer
was applied which lacks seats the page knew of, `mixed` that a theater's count and map of different
moments were put together, by the server or by the merge.

**PageRouter** is `navigate` and the chain of render jobs: the URL changes at the click,
the job that runs later reads it, loads the scripts and styles of the page, mounts it, and some
pages read the URL again after their request. Pages are told apart by `PageKinds` as far as they
behave differently. `broken` are assets whose element failed and stays in the document.
`Refetched` is what a page's write listener draws on its own, outside the chain.

**UserSession** is the session (`login` is `loginUser`, `uid` is `user_id`), the header, the
overlays of login, sign-up, number check and password reset, My page and the two account
forms, and the requests of all of them with the server's table of phone numbers. Requests carry
the user, dialog and session they were sent for; the handlers ignore most of that, as in the
code. `late` records that an answer of an earlier session was applied.

**BookingHistory** is the paged list: loads that overtake each other, page buttons, one refund
of this tab and refunds from another one, a change of user and a second visit.

The `MC*` modules give the constants values. Definitions marked *Mutant* are deliberately
broken variants of the definition that follows; no specification uses them. They show that each
checked property can fail.

## 3. Runs

All with `-workers 2`; the longest takes a little over two minutes.

| Run | Bounds | Shows |
|---|---|---|
| `concert_contention` | 2 requests for the same 2 seats, 2 deliveries each, 3 in all; db, crash, slow | `NoDoubleSale`, `AllOrNothing`, `OneLiveBookingPerRef`, `OkIsBacked`, refinement of `SeatSale` |
| `concert_lost_ack` | any 2 of 5 requests, 3 deliveries; the ACK may fail | `FailureMeansNotBooked`, `ResultIsFinal`: the duplicate check absorbs redeliveries |
| `concert_settles` | 1 request, 2 overlapping deliveries, every fault, FairSpec | `AnsweredBeforeDeleted`, `EveryMessageSettles`, `EveryHandlerEnds` |
| `theater_contention` | a request for 2 of 3 seats and one of 3 other kinds, 3 deliveries in all; db, delete, crash, FairSpec | `RemainCountsBookings`, `ClosedWhenExhausted`, refinement of `SeatSale`, `EveryHandlerEnds` |
| `hold_race` | 3 requests that meet pairwise on 3 seats, every fault | `AcceptedSeatsDisjoint`, `ReservedShowsAccepted` (until a key is lost), `ReservedOnlyAccepted`, `ReleaseTouchesOnlyOwn` |
| `hold_leak` | 2 requests, no fault | *violated:* `RefusedHoldsNothing` |
| `read_cache` | 2 GETs of a pod, 1 show of 2 seats; one hold key, message and rollback at a time, one torn seat; every fault, FairSpec | `BookedShownUnlessTorn`, `FilledOnce`, `EveryGetEnds` |
| `dialogs` | 2 dialogs, 2 orders, a login overlay, 3 of these in all; 3 seats, one taken; either kind; network, mark, css, and one fault of the worker | `NeverFrozen`, `ToldTheTruth`, `TryAgainIsSafe`, `OneOrderAtATime`, `ReportsWhatWasBooked`, `OrdersAreValid` |
| `seat_map` | 2 orders on 2 seats, 4 read requests, 3 datasets or visits; either page; any answer a cache can give; reads may fail | `OwnSeatsAreShown`, `OfferedHasFreeSeat`, `CountMatchesMap` |
| `router` | every kind of page, 2 ids or page numbers, the first page and 2 navigations, 2 write events; 3 assets and the reads may fail, FairSpec | `ShownIsRoute`, `RankingAtHomeOnly`, `EveryNavigationRenders` |
| `session` | 1 account, a second number, 3 requests, 3 overlays | `SessionFollowsLogin`, `OnlyProvenUsers`, `AccountsAreUnique`, `NoDeadButton` |
| `history` | a user with 2 pages, one with 1; 4 loads, 1 refund here and any elsewhere, 2 visits | `ListIsThePage`, `RefundIsShown`, `PaidBackOnceToOwner` |

Why the bounds are enough, servers: a conflict over seats needs two transactions, a cycle of
lock waits two with two seats, a redelivery two deliveries (`maxReceiveCount` is 3 in Terraform;
2 already gives a first, a last and an overlapping delivery, and `concert_lost_ack` uses 3). The
proofs remove the bounds for most safety properties, here and in the browser (section 5). A stale
fill needs one reader and one booking, a shared fill lock two readers, a lost seat on the map
two seats. The bounds `Bounds` and `FewDeliveries` of the MC modules cut states off: the liveness
results of `theater_contention` and `read_cache` are about the behaviours that stay within them.
`read_cache` includes reserved sets that start anew and rollbacks that come too late; `Bounds` lets one
booked seat be lost that way, and refused requests hold the first of the two interchangeable seats. In
`dialogs` the faults of the servers are about the first order. In `seat_map` the requests, which are
interchangeable, are used in sequence, and nothing is claimed once `outdated` and, for a theater, `mixed` or
`failed` hold together: what follows such a state is not explored (`Bounds`), which loses nothing,
because these never become false again.

Browser: a dialog meets at most the handlers of one earlier dialog, a second order, or a login
overlay at a time, and `ThreeParties` lets any three of them meet. A dataset can be replaced under a
dialog, and replaced again under its repair: three generations; each of the two bookings can have
a refetch and a repair. A render job can be overtaken by one click while it waits and by
one while it runs. A session has an earlier one, with a request of each. A load can be overtaken by
one of another page, of a refund and of another visit. Deadlock checking is off everywhere because
the modelled requests are finitely many: when all are done the system stops.

`TypeOK` of each module was checked with TLC and is not part of the runs above; those of
ConcertBooking, TheaterBooking, SeatHold and SeatMapPage are proved as well. For the other
modules the inductive invariant has the shapes it needs (`Shapes`).

Properties with an exception name it in their formula, and each exception is a disagreement
worth knowing: seats picked again during a request (`OneOrderAtATime`, `ReportsWhatWasBooked`),
a queued mark that was not written (`TryAgainIsSafe`: the customer is told to try again while the
order is still queued), a failure the worker stored for an order that was booked or could still be
(`ToldTheTruth`: `denied`), an answer that lacks seats the page knew of (`OwnSeatsAreShown`), for the
theater page a read that failed or a count and a map of different moments (`OfferedHasFreeSeat`,
`CountMatchesMap`: with no answer to replace it, the count guessed from the seats just booked stays; 7
below has the other), a key lost in the middle of its rollback (`ReleaseTouchesOnlyOwn`: `lost`),
booked seats the reserved set has lost (`BookedShownUnlessTorn`: `torn`), a refetch that draws over another page (`ShownIsRoute`), a
script that failed once (`EveryNavigationRenders`: the chain of render jobs then waits for ever),
a request of an earlier session that is answered after a logout or login (`SessionFollowsLogin`: it
brings the earlier user back).

The violated run is a disagreement between the code and what the repository says of it; the others
listed here are as well. Their properties are defined in the modules and can be added to a
configuration with the bounds given in brackets.

1. `hold_leak`: `try_hold_seats` sets every seat in one pipeline and, on a conflict, releases only
   those before the first taken one; the others stay held by a refused request until the TTL,
   although the comment promises atomicity per request.
2. `release_seats` reads and deletes in two pipelines; if the key is lost and changes its owner in
   between, it deletes another booking's hold. (`ReleaseTouchesOnlyOwn` of SeatHold without
   `lost`, with `Want <- Partial` and `Faults = {"flush"}`; the theorem says that there is no other way.)
3. The seat map is taken from the reserved set when that has members. The set expires as a
   whole; the next hold starts it anew, and seats booked before are offered again. The same happens to one
   seat when a rollback whose hold expired takes it off the set after another request booked it.
   (`BookedSeatsAreShown` of ConcertReadCache, one GET, `Faults = {"ttl"}`, no `Bounds`.)
4. When the shows of a concert are read together and one has no reserved set, the ACTIVE rows
   of all are appended to what Redis said: their seats count twice in `remain_count`.
   (`RemainMatchesMap` of ConcertReadCache, one GET, two shows, no fault.)
5. `store_result` overwrites whatever is stored, although the result is called final.
   (`ResultIsFinal` of BookingDelivery with `Faults = {"slow"}`, one request.)
6. `_refund_movie_booking` "returns the seats" but not `remain_count` or `status`, so the
   worker answers SOLD_OUT for a free seat. (`SoldOutMeansFull` of TheaterBooking, `Want <- OneSeat`,
   one seat, two requests.)
7. `_bootstrap_and_theater_detail` speaks of one snapshot of the database, but the counts and the
   reserved seats are two SELECTs of a connection that commits by itself; and `mergeTheaterDetailSlice`
   "matches remaining seats and reserved coordinates to the server" but keeps the old map where the
   answer has none. A theater card may then show a count its map contradicts, or offer a full hall until
   the next answer. (`CountMatchesMap` and `OfferedHasFreeSeat` of SeatMapPage without `~mixed`,
   `Faults = {}`.)

## 4. Fairness

`FairSpec` of the booking modules assumes weak fairness of SQS per message (poll loops run for
ever and boto retries; a visibility timeout elapses; a message received too often is
moved) and of each handler's own next step (a thread runs; a statement returns; a lock wait
ends by the lock or by InnoDB). There is none for customers, refunds, faults or TTLs, and none
for `WorkerCrash`. In `ConcertReadCache` a thread that serves a GET goes on when it can (`Fill`); the
write path, deletions, expiry and failing commands have no fairness. `SeatHold` is checked for
safety only.

In `PageRouter` there is weak fairness of `Step` as a whole: a script or style element fires
load or error, a request is answered or fails, and the event loop runs what is ready. One
condition for all of it is enough, because the render jobs form one chain. Navigations, write
events and what their listeners fetch have none. The other browser modules are checked for
safety only: their users may do nothing for ever, and the endless waits the code allows (no
request has a time-out) are not defects of an interleaving.

## 5. Proofs

`ConcertBookingProofs` proves, for any sets of requests and seats, any `MaxReceive`, any
combination of faults (assumptions: `MaxReceiveAssumption`, `WantAssumption`, i.e. every
request names at least one seat):

- `TypeCorrect`, `SeatsAreSoldOnce` (`NoDoubleSale`), `BookingsAreWhole` (`AllOrNothing`),
  `RequestsAreServedOnce` (`OneLiveBookingPerRef`);
- `Refinement`: `Spec => ImplementsSeatSale`;
- `OkAnswersAreTrue` (`OkIsBacked`), `NothingIsDroppedSilently` (`AnsweredBeforeDeleted`);
- for some faults only, because under the others the code does otherwise: `TheResultIsFinal`
  (`ResultIsFinal`) if no handler outlives the visibility timeout and no Redis command
  fails, and `FailuresAreTrue` (`FailureMeansNotBooked`) if nothing fails but `delete_message`.

`NoDoubleSale` is not inductive: that a commit adds no second row for a seat depends on the
uncommitted rows. `IInv` therefore adds that pending rows belong to open transactions and are
disjoint from each other and from the committed ones (`PendingDiscipline`: the unique
index), that committed rows are exactly those of PAID bookings (`ActiveDiscipline`), and that
deliveries not received yet have done nothing (`DeliveryDiscipline`). `OneLiveBookingPerRef`
then follows from the seats: two live bookings of a request would both occupy its first seat.
The refinement maps `Commit` to `Sell` and `Refund` to `Return`; everything else stutters.
`OkInv` and `AnswerInv` extend `IInv` for the two theorems about answers.

The two conditional theorems rest on `SoloInv`: without slow handlers a message is in flight while
a handler works on it, that handler has its latest delivery, and so it is the only one
(`OneHandler`); having found no result it stores the first. Crashes, broken connections, lost ACKs
and expiring keys only end handlers or empty keys. That a failure answer is true needs more
(`KeptInv`): what was booked is answered with OK, or the handler that booked it is about to store
that. A crash or a broken connection between commit and `store_result` ends this, and so do a
second handler and an expired result (with a lost ACK), which is why the theorem excludes them; the
counterexamples are those of the comment at `FailureMeansNotBooked`.

`SeatHoldProofs` proves, for any sets of requests and seats and any faults (assumptions:
`WantAssumption`, i.e. every request names at least one seat and none twice, and
`NobodyAssumption`, i.e. the value of a missing key is no request):

- `HoldsAreTypeCorrect`, `AcceptedRequestsAreDisjoint` (`AcceptedSeatsDisjoint`);
- `AcceptedRequestsAreShown` (`ReservedShowsAccepted`), `NothingElseIsShown`
  (`ReservedOnlyAccepted`).

Disjointness is about requests, the SET NX about keys. `HoldInv` joins the two: as long as no
key has been lost, an accepted request owns the key of each of its seats (`HeldByAccepted`),
and one in the middle of a rollback still owns the keys it found to be its own
(`OwnedUntilReleased`). Two accepted requests with a common seat would then both be the value
of one key. The two properties of the reserved set are inductive only together with these:
`ReleaseOwn` must remove no seat of another request, which holds because the seats whose
GET returned its own ref are still its own.

`RollbacksTouchOnlyTheirOwn` is the comment of `seat_hold.py` under every fault (`ReleaseTouchesOnlyOwn`):
a rollback deletes the key of another request only where its own was lost between its two pipelines
(`OwnedUntilReleased`), and where no key can expire or be flushed none is (`NothingLost`). Disagreement
2 above therefore has this cause alone; no interleaving of requests leads to it.

`TheaterBookingProofs` assumes `MaxReceiveAssumption`, finitely many seats, at least one seat
per request, and a value of the free lock that is no delivery. It proves `TheaterTypeCorrect`,
`TheCounterIsExact` (`RemainCountsBookings`), `TheScheduleClosesInTime`
(`ClosedWhenExhausted`), `TheLockIsGivenBack` (`LockIsOwned`) and `TheaterRefinement` (`Spec =>
ImplementsSeatSale`). `IInv` is that of the concerts with the lock in place of the index:
uncommitted rows belong to the delivery that has the lock (`PendingDiscipline`), which is one that
is inside its transaction (`LockDiscipline`), and so the tests made before the
commit still hold at the commit. `CounterDiscipline` ties counter and status to the rows; that
a commit subtracts exactly what it inserts is arithmetic over cardinalities, taken from
`FiniteSetTheorems`. `TheCounterIsAvailable` (`RemainIsAvailable`) follows: sold seats are seats ever
booked, so the counter never promises more than is free. As for the concerts there are
`TheaterAnswersAreTrue` (`OkIsBacked`) and `NoTheaterRequestIsDropped` (`AnsweredBeforeDeleted`).

`ConcertReadCacheProofs`, for any readers, pods, shows and seats and every fault (`NamesAssumption`:
the names of "all shows" and of the free lock are nobody's):

- `BookedSeatsAreCovered` (`BookedShownUnlessTorn`). What a fill
  has to show is fixed when it begins to read, what it shows when it reads. `SeatsInv` joins the two:
  what is due is still booked (`DueIsBooked`), a reserved set with members has every booked
  seat that is not torn (`ReservedIsWhole`), and so the keys that were read cover what is due
  (`KeysCoverDue`), whether they came from the set or from the rows.
- `BookedSeatsStayShown`: if neither keys can expire nor the cache be rebuilt, the set has every seat that
  is booked or will be, a rollback in progress is of a refused request's own key, and nothing is ever
  torn (`NothingTorn`), so `BookedSeatsAreShown` holds without exception. Disagreement 3 above
  therefore needs an expiry or a rebuild.
- `SnapshotsAreFilledOnce` (`FilledOnce`), an action property, from `LockDiscipline`: a thread that has
  missed has its pod's lock, and nobody of the pod has stored since it looked again.

The browser client, each for any number of dialogs, requests, navigations and so on:

- `BookingDialogProofs`: all six properties of the run, for both kinds of dialog and any faults.
  The invariant follows an order from the click to its end: what a dialog has picked is valid
  (selection), an order in flight has an open step or is the reason why its button is
  disabled (order, waiting), and what is stored as the answer is what was done, unless the order is
  `denied` (`AnswerDiscipline`). `NeverFrozen` rests on `ScrollDiscipline` alone: the lock is set only while an
  overlay is there, and who removes the last one unlocks.
- `UserSessionProofs`: `TheSessionFollowsLogin`, `TheUsersAreProven`, `TheAccountsAreUnique`,
  `NoButtonStaysDead`, from
  `RegisteredAssumption` (the accounts that exist at first have different numbers) and `PhoneAssumption`. Every
  pending request is sound: it acts for nobody or for a user who has proven himself, and for
  the present one unless the session has changed since. `NoButtonStaysDead` (`NoDeadButton`) has an
  invariant of its own (`ButtonInv`): the flag of the login form, each busy dialog and a busy page
  have a request on its way, whose answer is the one that clears them although dialogs are opened
  and closed, and pages left, in between.
- `BookingHistoryProofs`: `TheListIsThePage`, `TheRefundIsShown`, `MoneyGoesBackOnce`, from the four
  assumptions of the module (a user's bookings are a list without repetition, no booking has
  two owners, a page has a size). The invariant follows the load that was sent last (`LastLoad`,
  `Answers`, `LastDrawn`): it is of the present visit and user, was read after every refund the
  customer has been told of, and once it is drawn nothing older comes after it.
- `PageProofs`, of SeatMapPage: `TheMapKeepsItsTypes` (`TypeOK`), `OwnSeatsStayOnTheMap` (`OwnSeatsAreShown`),
  `AnOfferHasAFreeSeat` (`OfferedHasFreeSeat`), `TheCountAgreesWithTheMap` (`CountMatchesMap`), for any
  finite set of seats. `PageInv` says of the generation a booking was reported to that it has
  the booked seats, and that the page knows them (`ToldIsShown`, `ToldIsKnown`), so an answer
  without them is an outdated one; of the theater's dataset that count and status are those of its
  map or a repair is on its way (`SyncedOrRepaired`), until a read fails or a count and a map of
  different moments meet; and of each state of the concert page that it promises no more seats than its map
  has free (`ConcertIsCautious`), which no answer breaks, because each has at most that
  many (`AnswersAreHonest`), and neither does `onBooked`, which takes off at least as many as it marks.
- `PageProofs`, of PageRouter: `TheRouteIsShown` and `TheRankingStaysAtHome`. At rest nothing says which
  job drew the page; the invariant says that a running job with no other behind it is the one of the
  present URL (`LastJob`), that with none running the body is that job's (`LastPage`), and the
  same of the ranking.

Only model-checked: the liveness properties (`EveryMessageSettles`, `EveryHandlerEnds`,
`EveryGetEnds`, `EveryNavigationRenders`), because TLAPS has no reasoning about ENABLED here, and
the type invariants of `ConcertReadCache` and of the browser modules other than SeatMapPage, which
state the bounds of the instance. Every other property of the passing runs is stated by a theorem.

## 6. Abstractions

- Pollers, batch threads, the per-pod database semaphore and FIFO message groups only
  restrict which deliveries run at once; the model lets any set run. The comment in
  `_process_received_batch` about groups is not checked.
- The rows of one booking (booking, payment, booking code with its retry loop) are one value.
- Validation in the commit endpoints is represented by the requests that pass it: distinct
  seats, at least one.
- `StoreResultFails` is a SETEX that did not happen; one that happened but was reported as
  failed behaves like a success followed by another SETEX.
- A lost connection makes the handler's `conn.rollback()` raise as well, so the handler
  ends without an answer (`GiveUp`).
- Message retention (1 day) and the TTL race of a very late delivery are left out.
- `release_seats` is modelled where the code calls it, from `try_hold_seats`. The hold
  metadata is written but never read, and left out.
- The snapshot's deletion after commit and refund is in ConcertReadCache, not in
  ConcertBooking. There a request has one seat (the map does not tell requests apart), the
  SMEMBERS of one GET are one step, and of the reads only those that bookings change are
  kept; `hold_count`, which is displayed and decides nothing, is left out. The theater's cache
  keys have no module; SeatMapPage assumes of them no more than that they answer with some state so far.
- A rebuild of the cache also drops the sale state, and a missing state means OPEN (`Flush`,
  `IsOpen`); this reopening of a closed sale is modelled and has no property of its own.
- A refund leaves hold and reserved set; the seat stays taken on the map until both
  expire. This, too, is modelled and has no property: the repository does not say when the
  seat must reappear.

The browser client:

- The server is what its client can tell apart: BookingDialog knows a queued mark, a message, a
  result; SeatMapPage what its caches can answer; UserSession who has which number; BookingHistory which
  bookings are cancelled. That the server's answers are right is the subject of the other modules.
- Input validation and error texts are represented by the requests that pass and by whether
  there was an answer. What is typed is chosen from the values that make a difference: a
  number that is registered, one that is not.
- Markup, formatting, images, sliders, video dialogs, transitions are left out; the two grids of the
  concert dialog (large and small, paged by section) are one set of seats.
- Pages are opaque to PageRouter: it distinguishes how they load and what they read again
  from the URL. SeatMapPage has no refunds: the seats taken only grow, and count and status of an
  answer agree. It has one screening; choosing one by date, city, theater, film or
  sort order is a filter over the dataset without state that a request would read later.
- Two tabs appear where one can disturb the other through localStorage or the server: a logout,
  a login, a refund, a write event.

## 7. Plan

Done: the booking path on the servers (delivery, both transactions and what they promise, holds,
seat-map cache), the browser client (dialogs, booking pages, router, session, history), and
proofs of every safety property that the runs check.

Left, in this order:

1. Proofs: `ResultIsFinal` for the theaters (the argument of `SoloInv`); the exact set of faults
   under which `FailureMeansNotBooked` holds, since an expired result alone does not break it.
2. TheaterReadCache: the bootstrap and detail keys of the theaters, which are filled like the seat map
   but without a lock; the worker deletes them after a booking, a refund warms them up.
3. WorkerBatch: batches of ten, groups, received and acked counters, the database semaphore.
4. Reservation: `reserv-svc` with its lock key, counter, queue, payment. It shares nothing with the
   path above.
5. The selection of `theaters_main.js` (city, date, calendar, film, theater), which is put
   right when a dataset is replaced.

Not modelled, and why: hero and ranking sliders, video dialogs, image resolver, formatting (view
state that nothing else reads); read-only endpoints and `event-svc` (no state of their own);
schema, seed scripts and load tests (executed once or outside the program); Terraform,
Kubernetes, monitoring, exercises (configuration; what the path depends on, the queue's visibility
timeout and receive limit, is in BookingDelivery).
