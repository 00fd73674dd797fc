------------------------- MODULE BookingHistoryProofs -------------------------
(***************************************************************************)
(* Proofs about BookingHistory for any users, histories and page size and  *)
(* any number of loads, refunds and visits.                                *)
(***************************************************************************)
EXTENDS BookingHistory, SequenceTheorems, TLAPS

Positive == Nat \ {0}

IsLoad(r) == r \in [no : Nat, user : User, page : Positive, visit : Nat,
                    pc : {"sent", "served"}, rows : Seq(Row)]

Offers(rows, b) == [booking |-> b, open |-> TRUE] \in Range(rows)

\* The rows are those of page p of user u, in their order.
IsPage(rows, u, p) ==
  /\ Len(rows) = Len(PageOf(u, p))
  /\ \A i \in DOMAIN rows : rows[i].booking = PageOf(u, p)[i]

Handled == [pc : {"idle", "sent", "done", "refused", "reload"},
            booking : Booking \union {NoRefund.booking}, user : User \union {None}, no : Nat]

Shapes ==
  /\ user \in User \union {None}
  /\ here \in BOOLEAN /\ switched \in BOOLEAN
  /\ sent \in Nat /\ drawn \in Nat /\ visit \in Nat /\ refunds \in Nat
  /\ drawn <= sent
  /\ currentPage \in Positive
  /\ refund \in Handled
  /\ \A r \in loads : IsLoad(r) /\ r.no <= sent

\* The load sent last is of the present visit, and of the present user unless that changed.
LastLoad ==
  \A r \in loads : r.no = sent =>
    /\ r.visit = visit
    /\ here /\ ~switched => r.user = user

\* An answer is a page as it was when it was read, and the last one was read after every
\* refund the customer has been told of.
Answers ==
  \A r \in loads : r.pc = "served" =>
    /\ IsPage(r.rows, r.user, r.page)
    /\ r.no = sent => \A b \in confirmed : ~Offers(r.rows, b)

\* The list that the last load has drawn.
LastDrawn ==
  here /\ drawn = sent /\ list.kind = "rows" =>
    /\ \A b \in confirmed : ~Offers(list.rows, b)
    /\ ~switched /\ user # None =>
         /\ IsPage(list.rows, user, pager.page)
         /\ pager.total = Pages(user)

\* Whatever was paid back is cancelled, so that it is not paid back again.
Money ==
  /\ confirmed \subseteq cancelled
  /\ refund.pc = "done" => refund.booking \in cancelled
  /\ \A p \in payouts : p[1] \in cancelled
  /\ PaidBackOnceToOwner

HistoryInv == Shapes /\ LastLoad /\ Answers /\ LastDrawn /\ Money

USE NoneAssumption DEF server, screen, vars, Positive

-----------------------------------------------------------------------------
(* Pages of rows                                                           *)

LEMMA PageIsSequence ==
  ASSUME NEW u \in User, NEW p \in Positive
  PROVE  PageOf(u, p) \in Seq(Booking)
<1> DEFINE s == Bookings[u]
           m == (p - 1) * PageSize + 1
           n == Least(p * PageSize, Len(s))
<1>1. s \in Seq(Range(s)) /\ Range(s) \subseteq Booking
  BY BookingsAssumption DEF Booking
<1>2. s \in Seq(Booking) /\ Len(s) \in Nat
  BY <1>1
<1>3. p - 1 \in Nat /\ PageSize \in Nat /\ (p - 1) * PageSize \in Nat /\ p * PageSize \in Nat
  BY PageSizeAssumption
<1>4. m \in Int /\ m >= 1
  BY <1>3
<1>5. n \in Int /\ n <= Len(s)
  BY <1>2, <1>3 DEF Least
<1>6. \A i \in m .. n : s[i] \in Booking
  BY <1>2, <1>4, <1>5
<1> HIDE DEF m, n
<1>7. SubSeq(s, m, n) \in Seq(Booking)
  BY <1>4, <1>5, <1>6, SubSeqProperties
<1> QED
  BY <1>7 DEF PageOf, m, n

LEMMA RowsAreThePage ==
  ASSUME NEW u \in User, NEW p \in Positive
  PROVE  /\ RowsOf(u, p) \in Seq(Row)
         /\ IsPage(RowsOf(u, p), u, p)
         /\ \A b \in cancelled : ~Offers(RowsOf(u, p), b)
<1> DEFINE s == PageOf(u, p)
           rows == [i \in DOMAIN s |-> [booking |-> s[i], open |-> s[i] \notin cancelled]]
<1>1. s \in Seq(Booking) /\ Len(s) \in Nat /\ DOMAIN s = 1 .. Len(s)
  BY PageIsSequence
<1>2. \A i \in 1 .. Len(s) : s[i] \in Booking
  BY <1>1
<1>3. RowsOf(u, p) = rows
  BY DEF RowsOf
<1> HIDE DEF s
<1>4. rows \in Seq(Row) /\ Len(rows) = Len(s) /\ DOMAIN rows = 1 .. Len(s)
  BY <1>1, <1>2 DEF Row
<1>5. \A i \in DOMAIN rows : rows[i].booking = s[i] /\ rows[i].open = (s[i] \notin cancelled)
  BY <1>1
<1>6. ASSUME NEW b \in cancelled, Offers(rows, b) PROVE FALSE
  <2>1. PICK i \in DOMAIN rows : rows[i] = [booking |-> b, open |-> TRUE]
    BY <1>6 DEF Offers, Range
  <2> QED
    BY <1>5, <2>1
<1>7. IsPage(rows, u, p)
  BY <1>4, <1>5 DEF IsPage, s
<1> QED
  BY <1>3, <1>4, <1>6, <1>7

-----------------------------------------------------------------------------
(* The steps                                                               *)

LEMMA NoRefundIsHandled == NoRefund \in Handled
<1> USE DEF Handled
<1> DEFINE any == CHOOSE b \in Booking : TRUE
<1>1. NoRefund = [pc |-> "idle", booking |-> any, user |-> None, no |-> 0]
  BY DEF NoRefund
<1> HIDE DEF any
<1> QED
  BY <1>1

LEMMA InitHistoryInv == Init => HistoryInv
<1> SUFFICES ASSUME Init PROVE HistoryInv
  OBVIOUS
<1>1. NoRefund \in Handled
  BY NoRefundIsHandled
<1>2. Shapes
  <2>1. refund \in Handled
    BY <1>1 DEF Init
  <2>2. loads = {} /\ currentPage = 1 /\ refunds = 0 /\ sent = 0 /\ drawn = 0 /\ visit = 0
    BY DEF Init
  <2>3. user \in User \union {None} /\ here \in BOOLEAN /\ switched \in BOOLEAN
    BY DEF Init
  <2> QED
    BY <2>1, <2>2, <2>3 DEF Shapes
<1>3. LastLoad /\ Answers /\ LastDrawn
  BY DEF Init, LastLoad, Answers, LastDrawn
<1>4. Money
  BY DEF Init, Money, PaidBackOnceToOwner, NoRefund
<1> QED
  BY <1>2, <1>3, <1>4 DEF HistoryInv

\* What a new load does to the loads, the list and the buttons, as far as it matters.
LEMMA NewLoad ==
  ASSUME HistoryInv, NEW p \in Positive, NEW isMount \in BOOLEAN, LoadBookings(p, isMount),
         visit' = IF isMount THEN visit + 1 ELSE visit,
         isMount \/ UNCHANGED here,
         UNCHANGED user
  PROVE  /\ sent' = sent + 1 /\ drawn' \in Nat /\ drawn' <= sent'
         /\ \A r \in loads' :
              \/ r \in loads /\ r.no < sent'
              \/ IsLoad(r) /\ r.no = sent' /\ r.pc = "sent" /\ r.user = user /\ r.visit = visit'
         /\ drawn' = sent' => user = None
         /\ here' /\ drawn' = sent' => list'.rows = <<>>
<1> USE DEF LoadBookings
<1>1. sent \in Nat /\ drawn \in Nat /\ drawn <= sent /\ visit \in Nat /\ user \in User \union {None}
  BY DEF HistoryInv, Shapes
<1>2. \A r \in loads : IsLoad(r) /\ r.no <= sent /\ r.no \in Nat
  BY DEF HistoryInv, Shapes, IsLoad
<1>3. sent' = sent + 1 /\ drawn' \in Nat /\ drawn' <= sent'
  BY <1>1
<1>4. CASE user = None
  BY <1>1, <1>2, <1>3, <1>4 DEF Rows
<1>5. CASE user # None
  <2> DEFINE new == [no |-> sent + 1, user |-> user, page |-> p,
                     visit |-> IF isMount THEN visit + 1 ELSE visit,
                     pc |-> "sent", rows |-> <<>>]
  <2>1. loads' = loads \union {new}
    BY <1>5
  <2>2. IsLoad(new) /\ new.no = sent' /\ new.pc = "sent" /\ new.user = user /\ new.visit = visit'
    BY <1>1, <1>3, <1>5 DEF IsLoad
  <2>3. drawn' # sent'
    BY <1>1, <1>3, <1>5
  <2> HIDE DEF new
  <2> QED
    BY <1>1, <1>2, <1>3, <2>1, <2>2, <2>3
<1> QED
  BY <1>4, <1>5

\* The visit, the page of the buttons and the refund may change with a load; everything
\* else that the invariant speaks of follows from what NewLoad says.
LEMMA LoadStep ==
  ASSUME HistoryInv, NEW p \in Positive, NEW isMount \in BOOLEAN, LoadBookings(p, isMount),
         visit' = IF isMount THEN visit + 1 ELSE visit,
         isMount \/ UNCHANGED here,
         UNCHANGED <<user, currentPage, refunds>>,
         here' \in BOOLEAN, switched' \in BOOLEAN,
         refund' \in Handled,
         Money'
  PROVE  HistoryInv'
<1>1. /\ sent' = sent + 1 /\ drawn' \in Nat /\ drawn' <= sent'
      /\ \A r \in loads' :
           \/ r \in loads /\ r.no < sent'
           \/ IsLoad(r) /\ r.no = sent' /\ r.pc = "sent" /\ r.user = user /\ r.visit = visit'
      /\ drawn' = sent' => user = None
      /\ here' /\ drawn' = sent' => list'.rows = <<>>
  BY NewLoad
<1>2. Shapes'
  <2>1. \A r \in loads' : r.no <= sent' /\ IsLoad(r)
    BY <1>1 DEF HistoryInv, Shapes, IsLoad
  <2>2. \A r \in loads' : r.no <= sent' /\ IsLoad(r)'
    BY <2>1 DEF IsLoad
  <2> QED
    BY <1>1, <2>2 DEF HistoryInv, Shapes
<1>3. \A r \in loads' : r.no = sent' => r.pc = "sent" /\ r.user = user /\ r.visit = visit'
  BY <1>1 DEF HistoryInv, Shapes, IsLoad
<1>4. LastLoad'
  BY <1>3 DEF LastLoad
<1>5. Answers'
  <2>1. \A r \in loads' : r.pc = "served" => r \in loads /\ r.no # sent'
    BY <1>1, <1>3
  <2> QED
    BY <2>1 DEF HistoryInv, Answers, IsPage, PageOf
<1>6. LastDrawn'
  <2>1. \A b : ~Offers(<<>>, b)
    BY DEF Offers, Range
  <2> QED
    BY <1>1, <2>1 DEF LastDrawn, Offers
<1> QED
  BY <1>2, <1>4, <1>5, <1>6 DEF HistoryInv

\* A step that leaves the list, the loads and the money alone.
LEMMA Elsewhere ==
  ASSUME HistoryInv,
         UNCHANGED <<user, visit, currentPage, drawn, loads, sent, confirmed>>,
         here' \in BOOLEAN, switched' \in BOOLEAN, refunds' \in Nat,
         here' => here /\ UNCHANGED <<switched, list, pager>>,
         refund' \in Handled,
         Money'
  PROVE  HistoryInv'
<1>1. Shapes'
  BY DEF HistoryInv, Shapes, IsLoad
<1>2. LastLoad'
  BY DEF HistoryInv, LastLoad
<1>3. Answers'
  BY DEF HistoryInv, Answers, IsPage, PageOf, Offers
<1>4. LastDrawn'
  BY DEF HistoryInv, LastDrawn, IsPage, PageOf, Pages, Offers
<1> QED
  BY <1>1, <1>2, <1>3, <1>4 DEF HistoryInv

\* The answer to a list load, also the part of it that ends a refund.
LEMMA AwaitedShapes ==
  ASSUME HistoryInv, NEW r \in loads, Awaited(r), UNCHANGED <<cancelled, payouts, confirmed>>
  PROVE  loads' = loads \ {r} /\ refund' \in Handled /\ Money'
<1>1. refund \in Handled /\ NoRefund \in Handled
  BY NoRefundIsHandled DEF HistoryInv, Shapes
<1>2. refund' \in {refund, NoRefund} /\ NoRefund.pc = "idle"
  BY DEF Awaited, NoRefund
<1>3. refund'.pc = "done" => refund' = refund
  BY <1>2
<1> QED
  BY <1>1, <1>2, <1>3 DEF Awaited, HistoryInv, Money, PaidBackOnceToOwner, Owns

LEMMA DrawStep ==
  ASSUME HistoryInv, NEW r \in loads, DrawLoad(r)
  PROVE  HistoryInv'
<1> USE DEF DrawLoad
<1>1. loads' = loads \ {r} /\ refund' \in Handled /\ Money'
  BY AwaitedShapes
<1>2. IsLoad(r) /\ r.no \in Nat /\ r.no <= sent /\ r.page \in Positive
  BY DEF HistoryInv, Shapes, IsLoad
<1>3. Shapes'
  BY <1>1, <1>2 DEF HistoryInv, Shapes, IsLoad
<1>4. LastLoad' /\ Answers'
  BY <1>1 DEF HistoryInv, LastLoad, Answers, IsPage, PageOf, Offers
<1>5. LastDrawn'
  <2> SUFFICES ASSUME here, r.no = sent
               PROVE  /\ \A b \in confirmed : ~Offers(list'.rows, b)
                      /\ ~switched /\ user # None =>
                           /\ IsPage(list'.rows, user, pager'.page)
                           /\ pager'.total = Pages(user)
    BY DEF LastDrawn, IsPage, PageOf, Pages, Offers
  <2>1. list'.rows = r.rows /\ pager'.page = r.page /\ pager'.total = Pages(r.user)
    BY DEF Rows
  <2> QED
    BY <2>1 DEF HistoryInv, LastLoad, Answers
<1> QED
  BY <1>1, <1>3, <1>4, <1>5 DEF HistoryInv

\* A failed load of an earlier visit is not the last one, so it leaves no old list behind.
LEMMA FailStep ==
  ASSUME HistoryInv, NEW r \in loads, LoadFails(r)
  PROVE  HistoryInv'
<1> USE DEF LoadFails
<1>1. loads' = loads \ {r} /\ refund' \in Handled /\ Money'
  BY AwaitedShapes
<1>2. IsLoad(r) /\ r.no \in Nat /\ r.no <= sent
  BY DEF HistoryInv, Shapes, IsLoad
<1>3. Shapes'
  BY <1>1, <1>2 DEF HistoryInv, Shapes, IsLoad
<1>4. LastLoad' /\ Answers'
  BY <1>1 DEF HistoryInv, LastLoad, Answers, IsPage, PageOf, Offers
<1>5. LastDrawn'
  <2>1. here' /\ drawn' = sent' => list'.kind = "error"
    BY DEF HistoryInv, LastLoad, Empty
  <2> QED
    BY <2>1 DEF LastDrawn
<1> QED
  BY <1>1, <1>3, <1>4, <1>5 DEF HistoryInv

LEMMA ServeStep ==
  ASSUME HistoryInv, NEW r \in loads, ServeLoad(r)
  PROVE  HistoryInv'
<1> USE DEF ServeLoad
<1> DEFINE answered == [r EXCEPT !.pc = "served", !.rows = RowsOf(r.user, r.page)]
<1>1. loads' = (loads \ {r}) \union {answered}
  OBVIOUS
<1>2. IsLoad(r) /\ r.no <= sent /\ r.user \in User /\ r.page \in Positive
  BY DEF HistoryInv, Shapes, IsLoad
<1>3. /\ RowsOf(r.user, r.page) \in Seq(Row)
      /\ IsPage(RowsOf(r.user, r.page), r.user, r.page)
      /\ \A b \in cancelled : ~Offers(RowsOf(r.user, r.page), b)
  BY <1>2, RowsAreThePage
<1>4. /\ IsLoad(answered)
      /\ answered.no = r.no /\ answered.user = r.user /\ answered.page = r.page
      /\ answered.visit = r.visit /\ answered.rows = RowsOf(r.user, r.page)
  BY <1>2, <1>3 DEF IsLoad
<1> HIDE DEF answered
<1>5. Shapes'
  BY <1>1, <1>2, <1>4 DEF HistoryInv, Shapes, IsLoad
<1>6. LastLoad'
  BY <1>1, <1>4 DEF HistoryInv, LastLoad
<1>7. Answers'
  <2>1. \A b \in confirmed : ~Offers(answered.rows, b)
    BY <1>3, <1>4 DEF HistoryInv, Money
  <2>2. \A q \in loads' : q.pc = "served" =>
          /\ IsPage(q.rows, q.user, q.page)
          /\ q.no = sent => \A b \in confirmed : ~Offers(q.rows, b)
    BY <1>1, <1>3, <1>4, <2>1 DEF HistoryInv, Answers
  <2> QED
    BY <2>2 DEF Answers, IsPage, PageOf, Offers
<1>8. LastDrawn' /\ Money'
  BY DEF HistoryInv, LastDrawn, Money, IsPage, PageOf, Pages, Offers, PaidBackOnceToOwner, Owns
<1> QED
  BY <1>5, <1>6, <1>7, <1>8 DEF HistoryInv

-----------------------------------------------------------------------------
(* Theorems                                                                *)

\* The money moves in one transaction only, and only for what is not cancelled.
LEMMA PayStep ==
  ASSUME Money, NEW u, NEW b, Pays(u, b), NEW n,
         cancelled' = cancelled \union {b},
         payouts' = payouts \union {<<b, u, n>>},
         refund'.pc = "done" => refund'.booking = b \/ refund' = refund,
         UNCHANGED confirmed
  PROVE  Money'
<1>1. \A p \in payouts : p[1] # b
  BY DEF Money, Pays
<1> QED
  BY <1>1 DEF Money, PaidBackOnceToOwner, Pays, Owns

LEMMA NextKeepsHistoryInv == HistoryInv /\ [Next]_vars => HistoryInv'
<1> SUFFICES ASSUME HistoryInv, [Next]_vars PROVE HistoryInv'
  OBVIOUS
<1>1. refund \in Handled /\ here \in BOOLEAN /\ switched \in BOOLEAN /\ refunds \in Nat
  BY DEF HistoryInv, Shapes
<1>2. Money
  BY DEF HistoryInv
<1>3. NoRefund \in Handled /\ NoRefund.pc = "idle"
  BY NoRefundIsHandled DEF NoRefund
<1>4. UNCHANGED <<server, confirmed>> /\ (refund'.pc = "done" => refund' = refund) => Money'
  BY <1>2 DEF Money, PaidBackOnceToOwner, Owns
<1>5. CASE UNCHANGED vars
  BY <1>1, <1>4, <1>5, Elsewhere
<1>6. CASE Mount
  <2>1. LoadBookings(1, TRUE)
    BY <1>6 DEF Mount
  <2>2. Money' /\ refund' \in Handled
    BY <1>1, <1>4, <1>6 DEF Mount
  <2>3. /\ visit' = IF TRUE THEN visit + 1 ELSE visit
        /\ here' \in BOOLEAN /\ switched' \in BOOLEAN
        /\ UNCHANGED <<user, currentPage, refunds>>
    BY <1>6 DEF Mount
  <2>4. 1 \in Positive
    OBVIOUS
  <2> QED
    BY <2>1, <2>2, <2>3, <2>4, LoadStep
<1>7. CASE Leave
  BY <1>1, <1>4, <1>7, Elsewhere DEF Leave
<1>8. ASSUME NEW p \in Page, ClickPage(p) PROVE HistoryInv'
  <2>1. p \in Positive
    BY DEF Page
  <2> QED
    BY <1>1, <1>4, <1>8, <2>1, LoadStep DEF ClickPage
<1>9. CASE Answer
  BY <1>9, ServeStep, DrawStep, FailStep DEF Answer
<1>10. ASSUME NEW b \in Booking, ClickRefund(b) PROVE HistoryInv'
  <2>1. refunds \in Nat /\ user \in User \union {None}
    BY DEF HistoryInv, Shapes
  <2>2. refund' = [pc |-> "sent", booking |-> b, user |-> user, no |-> refunds + 1]
    BY <1>10 DEF ClickRefund
  <2>3. refund' \in Handled /\ refund'.pc # "done"
    BY <2>1, <2>2 DEF Handled
  <2> QED
    BY <1>1, <1>4, <1>10, <2>3, Elsewhere DEF ClickRefund
<1>11. CASE ServeRefund
  <2> DEFINE b == refund.booking
  <2> USE <1>11 DEF ServeRefund
  <2>1. CASE Pays(refund.user, b)
    <3>1. refund' \in Handled /\ refund'.booking = b
      BY <1>1, <2>1 DEF Handled
    <3>2. /\ cancelled' = cancelled \union {b} /\ UNCHANGED confirmed
          /\ payouts' = payouts \union {<<b, refund.user, refund.no>>}
      BY <2>1
    <3>3. Money'
      BY <1>2, <2>1, <3>1, <3>2, PayStep
    <3> QED
      BY <1>1, <3>1, <3>3, Elsewhere
  <2>2. CASE ~Pays(refund.user, b)
    <3>1. refund' \in Handled /\ refund'.pc # "done"
      BY <1>1, <2>2 DEF Handled
    <3> QED
      BY <1>1, <1>4, <2>2, <3>1, Elsewhere
  <2> QED
    BY <2>1, <2>2
<1>12. CASE RefundLost \/ TellRefusal
  <2>1. refund' \in Handled /\ (refund'.pc = "done" => refund' = refund)
    BY <1>1, <1>3, <1>12 DEF RefundLost, TellRefusal, Handled
  <2> QED
    BY <1>1, <1>4, <1>12, <2>1, Elsewhere DEF RefundLost, TellRefusal
<1>13. CASE TellRefund
  <2>1. refund' \in Handled
    <3>1. sent' \in Nat
      BY <1>13 DEF TellRefund, LoadBookings, HistoryInv, Shapes
    <3> QED
      BY <1>1, <1>3, <1>13, <3>1 DEF TellRefund, Handled
  <2>2. refund'.pc # "done"
    BY <1>1, <1>3, <1>13 DEF TellRefund, Handled
  <2>3. Money'
    BY <1>2, <1>13, <2>2 DEF TellRefund, Money, PaidBackOnceToOwner, Owns
  <2>4. currentPage \in Positive
    BY DEF HistoryInv, Shapes
  <2> QED
    BY <1>1, <1>13, <2>1, <2>3, <2>4, LoadStep DEF TellRefund
<1>14. ASSUME NEW u \in User, NEW b \in Booking, RefundElsewhere(u, b) PROVE HistoryInv'
  <2>1. Money'
    BY <1>2, <1>14, PayStep DEF RefundElsewhere
  <2> QED
    BY <1>1, <1>14, <2>1, Elsewhere DEF RefundElsewhere
<1>15. ASSUME NEW u \in User \union {None}, SwitchUser(u) PROVE HistoryInv'
  <2> USE <1>15 DEF SwitchUser
  <2>1. Shapes' /\ Money'
    BY <1>1, <1>4 DEF HistoryInv, Shapes, IsLoad
  <2>2. LastLoad' /\ Answers'
    BY DEF HistoryInv, LastLoad, Answers, IsPage, PageOf, Offers
  <2>3. LastDrawn'
    BY DEF HistoryInv, LastDrawn, Offers
  <2> QED
    BY <2>1, <2>2, <2>3 DEF HistoryInv
<1> QED
  BY <1>5, <1>6, <1>7, <1>8, <1>9, <1>10, <1>11, <1>12, <1>13, <1>14, <1>15 DEF Next

LEMMA HistoryInvariance == Spec => []HistoryInv
BY InitHistoryInv, NextKeepsHistoryInv, PTL DEF Spec

\* Whatever loads of other pages, visits and users come late, the list that the last load
\* draws is the page its buttons name.
THEOREM TheListIsThePage == Spec => []ListIsThePage
<1>1. HistoryInv => ListIsThePage
  BY DEF HistoryInv, LastDrawn, IsPage, ListIsThePage, Settled
<1> QED
  BY <1>1, HistoryInvariance, PTL

\* A refund that the customer was told of is not offered again.
THEOREM TheRefundIsShown == Spec => []RefundIsShown
<1>1. HistoryInv => RefundIsShown
  BY DEF HistoryInv, LastDrawn, Offers, RefundIsShown, Settled
<1> QED
  BY <1>1, HistoryInvariance, PTL

\* From any number of tabs, a booking is paid back once and to its owner.
THEOREM MoneyGoesBackOnce == Spec => []PaidBackOnceToOwner
<1>1. HistoryInv => PaidBackOnceToOwner
  BY DEF HistoryInv, Money
<1> QED
  BY <1>1, HistoryInvariance, PTL

=============================================================================
