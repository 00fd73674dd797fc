----------------------------- MODULE BookingHistory -----------------------------
(***************************************************************************)
(* The booking history, booking_history.js: a list that is loaded page by  *)
(* page, and refunds from it.  Loads are not aborted and their answers     *)
(* carry no number: they are drawn in the order of their arrival, into     *)
(* whatever elements have the page's ids by then, those of a later visit   *)
(* or of another user included.  The servers' part of a refund is one      *)
(* transaction on the locked booking row (user_write.py); what it does to  *)
(* seats is in ConcertBooking and TheaterBooking.                          *)
(***************************************************************************)
EXTENDS Naturals, Sequences, FiniteSets, SequencesExt

CONSTANTS User,
          None,         \* nobody is signed in
          Bookings,     \* of a user: the bookings, latest first
          PageSize,
          MaxLoads,     \* bound: list loads
          MaxRefunds,   \* bound: refunds of this tab
          MaxVisits     \* bound: visits of the page

ASSUME NoneAssumption     == None \notin User
ASSUME BookingsAssumption ==
  \A u \in User : Bookings[u] \in Seq(Range(Bookings[u])) /\ IsInjective(Bookings[u])
ASSUME OwnersAssumption ==
  \A u, v \in User : u # v => Range(Bookings[u]) \intersect Range(Bookings[v]) = {}
ASSUME PageSizeAssumption == PageSize \in Nat \ {0}

Booking == UNION {Range(Bookings[u]) : u \in User}
Page    == 1..MaxLoads

VARIABLES
  user,         \* user_id in localStorage
  cancelled,    \* bookings with status CANCEL
  payouts,      \* history: <<booking, user, refund>> the server has paid back
  here,         \* the page is mounted
  visit,        \* which visit of the page it is
  mounting,     \* number of the load the router waits for, 0 when it waits for none
  list,         \* #bh-list-area: kind, and for "rows" the rows with their status
  pager,        \* #bh-pagination-area: page and total
  currentPage,
  loads,        \* list requests under way
  sent,         \* how many there have been
  drawn,        \* number of the one drawn last
  refund,       \* handleRefund: pc, booking, user, and no, its load or refund number
  refunds,      \* how many there have been
  confirmed,    \* history: bookings whose refund the customer has been told of
  switched      \* history: the user has changed since the page was mounted

server == <<cancelled, payouts>>
screen == <<here, visit, mounting, list, pager, currentPage, drawn>>
vars   == <<user, server, screen, loads, sent, refund, refunds, confirmed, switched>>

Row   == [booking : Booking, open : BOOLEAN]
Lists == [kind : {"none", "loading", "error", "rows"}, rows : Seq(Row)]
Loads == [no : 1..MaxLoads, user : User, page : Page, visit : 1..MaxVisits,
          pc : {"sent", "served"}, rows : Seq(Row)]

TypeOK ==
  /\ user \in User \union {None}
  /\ cancelled \subseteq Booking
  /\ payouts \subseteq Booking \X User \X (0..MaxRefunds)
  /\ here \in BOOLEAN
  /\ visit \in 0..MaxVisits
  /\ mounting \in 0..MaxLoads
  /\ list \in Lists
  /\ Len(list.rows) <= PageSize
  /\ pager \in [page : Page, total : Page]
  /\ currentPage \in Page
  /\ loads \subseteq Loads
  /\ sent \in 0..MaxLoads
  /\ drawn \in 0..MaxLoads
  /\ refund.pc \in {"idle", "sent", "done", "refused", "reload"}
  /\ refund.booking \in Booking /\ refund.user \in User \union {None}
  /\ refund.no \in 0..(MaxLoads + MaxRefunds)
  /\ refunds \in 0..MaxRefunds
  /\ confirmed \subseteq Booking
  /\ switched \in BOOLEAN

Empty(kind) == [kind |-> kind, rows |-> <<>>]
Rows(rows)  == [kind |-> "rows", rows |-> rows]
NoPages     == [page |-> 1, total |-> 1]
NoRefund    == [pc |-> "idle", booking |-> CHOOSE b \in Booking : TRUE, user |-> None, no |-> 0]

Init ==
  /\ user        \in User
  /\ cancelled   = {}
  /\ payouts     = {}
  /\ here        = FALSE
  /\ visit       = 0
  /\ mounting    = 0
  /\ list        = Empty("none")
  /\ pager       = NoPages
  /\ currentPage = 1
  /\ loads       = {}
  /\ sent        = 0
  /\ drawn       = 0
  /\ refund      = NoRefund
  /\ refunds     = 0
  /\ confirmed   = {}
  /\ switched    = FALSE

-----------------------------------------------------------------------------
(* The server                                                              *)

Least(a, b) == IF a < b THEN a ELSE b
Most(a, b)  == IF a < b THEN b ELSE a

\* LIMIT and OFFSET; a page past the end is empty.
PageOf(u, p) ==
  SubSeq(Bookings[u], (p - 1) * PageSize + 1, Least(p * PageSize, Len(Bookings[u])))

Pages(u) == Most(1, (Len(Bookings[u]) + PageSize - 1) \div PageSize)

RowsOf(u, p) ==
  LET bookings == PageOf(u, p) IN
  [i \in DOMAIN bookings |-> [booking |-> bookings[i], open |-> bookings[i] \notin cancelled]]

Owns(u, b) == b \in Range(Bookings[u])

\* Mutant: the row is found by the booking alone.
PaysForAnyone(u, b) == b \notin cancelled

\* The row is the user's, FOR UPDATE, and not cancelled yet.
Pays(u, b) == Owns(u, b) /\ b \notin cancelled

-----------------------------------------------------------------------------
(* Loading                                                                 *)

\* loadBookings: without a user an empty list, else "loading" and a request.
LoadBookings(p, isMount) ==
  /\ sent < MaxLoads
  /\ sent' = sent + 1
  /\ IF user = None
    THEN /\ list' = IF isMount \/ here THEN Rows(<<>>) ELSE list
         /\ pager' = NoPages
         /\ drawn' = sent + 1
         /\ UNCHANGED loads
    ELSE /\ list' = IF isMount \/ here THEN Empty("loading") ELSE list
         /\ pager' = IF isMount THEN NoPages ELSE pager
         /\ loads' = loads \union {[no |-> sent + 1, user |-> user, page |-> p, visit |-> IF isMount THEN visit + 1 ELSE visit,
                                    pc |-> "sent", rows |-> <<>>]}
         /\ UNCHANGED drawn

\* initBookingHistoryPage.
Mount ==
  /\ ~here /\ visit < MaxVisits
  /\ here' = TRUE
  /\ visit' = visit + 1
  /\ LoadBookings(1, TRUE)
  /\ mounting' = IF user = None THEN 0 ELSE sent'
  /\ switched' = FALSE
  /\ UNCHANGED <<user, server, currentPage, refund, refunds, confirmed>>

\* The router renders another page; it waits for the first load of this one.
Leave ==
  /\ here /\ mounting = 0
  /\ here' = FALSE
  /\ list' = Empty("none")
  /\ pager' = NoPages
  /\ UNCHANGED <<user, server, visit, mounting, currentPage, drawn, loads, sent, refund,
                 refunds, confirmed, switched>>

\* The pagination buttons.
ClickPage(p) ==
  /\ here /\ p \in 1..pager.total /\ p # currentPage
  /\ LoadBookings(p, FALSE)
  /\ UNCHANGED <<user, server, here, visit, mounting, currentPage, refund, refunds, confirmed, switched>>

ServeLoad(r) ==
  /\ r.pc = "sent"
  /\ loads' = (loads \ {r}) \union {[r EXCEPT !.pc = "served", !.rows = RowsOf(r.user, r.page)]}
  /\ UNCHANGED <<user, server, screen, sent, refund, refunds, confirmed, switched>>

\* The load a refund ends with, and the one the router waits for, are awaited.
Awaited(r) ==
  /\ loads' = loads \ {r}
  /\ mounting' = IF mounting = r.no THEN 0 ELSE mounting
  /\ refund' = IF refund.pc = "reload" /\ refund.no = r.no THEN NoRefund ELSE refund

\* Mutant: the buttons are those of the page drawn before, not of the answer.
DrawRowsOnly(r) ==
  /\ r.pc = "served"
  /\ Awaited(r)
  /\ currentPage' = r.page
  /\ list'  = IF here THEN Rows(r.rows) ELSE list
  /\ pager' = IF here THEN [page |-> currentPage, total |-> Pages(r.user)] ELSE pager
  /\ drawn' = r.no
  /\ UNCHANGED <<user, server, here, visit, sent, refunds, confirmed, switched>>

\* The answer is drawn by element id; currentPage, list and buttons go together.
DrawLoad(r) ==
  /\ r.pc = "served"
  /\ Awaited(r)
  /\ currentPage' = r.page
  /\ list'  = IF here THEN Rows(r.rows) ELSE list
  /\ pager' = IF here THEN [page |-> r.page, total |-> Pages(r.user)] ELSE pager
  /\ drawn' = r.no
  /\ UNCHANGED <<user, server, here, visit, sent, refunds, confirmed, switched>>

\* The error is written into the area the load was started in, gone or not; the buttons
\* are looked up by id.
LoadFails(r) ==
  /\ Awaited(r)
  /\ list'  = IF here /\ r.visit = visit THEN Empty("error") ELSE list
  /\ pager' = NoPages
  /\ drawn' = r.no
  /\ UNCHANGED <<user, server, here, visit, currentPage, sent, refunds, confirmed, switched>>

-----------------------------------------------------------------------------
(* Refunds                                                                 *)

\* handleRefund up to its await: isRefunding, the question, and the user of now.
ClickRefund(b) ==
  /\ here /\ list.kind = "rows"
  /\ [booking |-> b, open |-> TRUE] \in Range(list.rows)
  /\ refund.pc = "idle" /\ user # None
  /\ refunds < MaxRefunds
  /\ refunds' = refunds + 1
  /\ refund' = [pc |-> "sent", booking |-> b, user |-> user, no |-> refunds + 1]
  /\ UNCHANGED <<user, server, screen, loads, sent, confirmed, switched>>

\* The transaction; its answer may get lost, which the customer sees as a failure.
ServeRefund ==
  /\ refund.pc = "sent"
  /\ LET b == refund.booking IN
       IF Pays(refund.user, b)
         THEN /\ cancelled' = cancelled \union {b}
              /\ payouts' = payouts \union {<<b, refund.user, refund.no>>}
              /\ \E pc \in {"done", "refused"} : refund' = [refund EXCEPT !.pc = pc]
         ELSE /\ refund' = [refund EXCEPT !.pc = "refused"]
              /\ UNCHANGED server
  /\ UNCHANGED <<user, screen, loads, sent, refunds, confirmed, switched>>

RefundLost ==
  /\ refund.pc = "sent"
  /\ refund' = [refund EXCEPT !.pc = "refused"]
  /\ UNCHANGED <<user, server, screen, loads, sent, refunds, confirmed, switched>>

\* Mutant: the list is not loaded again.
TellRefundOnly ==
  /\ refund.pc = "done"
  /\ confirmed' = confirmed \union {refund.booking}
  /\ refund' = NoRefund
  /\ UNCHANGED <<user, server, screen, loads, sent, refunds, switched>>

\* The customer is told, and the page drawn last is loaded again.
TellRefund ==
  /\ refund.pc = "done"
  /\ confirmed' = confirmed \union {refund.booking}
  /\ LoadBookings(currentPage, FALSE)
  /\ refund' = IF user = None THEN NoRefund ELSE [refund EXCEPT !.pc = "reload", !.no = sent']
  /\ UNCHANGED <<user, server, here, visit, mounting, currentPage, refunds, switched>>

TellRefusal ==
  /\ refund.pc = "refused"
  /\ refund' = NoRefund
  /\ UNCHANGED <<user, server, screen, loads, sent, refunds, confirmed, switched>>

\* The same bookings, refunded by their owner from another tab.
RefundElsewhere(u, b) ==
  /\ Pays(u, b) /\ Owns(u, b)
  /\ cancelled' = cancelled \union {b}
  /\ payouts' = payouts \union {<<b, u, 0>>}
  /\ UNCHANGED <<user, screen, loads, sent, refund, refunds, confirmed, switched>>

\* Logout and login, here or in another tab.
SwitchUser(u) ==
  /\ u # user
  /\ user' = u
  /\ switched' = here
  /\ UNCHANGED <<server, screen, loads, sent, refund, refunds, confirmed>>

-----------------------------------------------------------------------------
Answer == \/ \E r \in loads : ServeLoad(r) \/ DrawLoad(r) \/ LoadFails(r)

Next ==
  \/ Mount \/ Leave
  \/ \E p \in Page : ClickPage(p)
  \/ Answer
  \/ \E b \in Booking : ClickRefund(b)
  \/ ServeRefund \/ RefundLost \/ TellRefund \/ TellRefusal
  \/ \E u \in User, b \in Booking : RefundElsewhere(u, b)
  \/ \E u \in User \union {None} : SwitchUser(u)

Spec == Init /\ [][Next]_vars

-----------------------------------------------------------------------------
(* Properties                                                              *)

\* Everything asked for was drawn, the last load last.
Settled == here /\ loads = {} /\ refund.pc = "idle" /\ drawn = sent /\ ~switched

\* The list that is drawn in the end is the page its buttons name, of the user who is
\* signed in, and the buttons reach all of that user's pages, whatever loads of other
\* pages, visits and users were answered before it.  (After a late load of another user
\* the page may be one this user does not have, and the list says "no bookings".)
ListIsThePage ==
  Settled /\ list.kind = "rows" /\ user # None =>
    /\ pager.total = Pages(user)
    /\ Len(list.rows) = Len(PageOf(user, pager.page))
    /\ \A i \in DOMAIN list.rows : list.rows[i].booking = PageOf(user, pager.page)[i]

\* A booking the customer was told is refunded is not offered for a refund again, also
\* when pages were turned while the refund was under way.
RefundIsShown ==
  Settled /\ list.kind = "rows" =>
    \A b \in confirmed : [booking |-> b, open |-> TRUE] \notin Range(list.rows)

\* A booking is paid back once and only to its owner, from however many tabs and from
\* whoever's list it was clicked.
PaidBackOnceToOwner ==
  /\ \A p \in payouts : Owns(p[2], p[1])
  /\ \A p, q \in payouts : p[1] = q[1] => p = q

=============================================================================
