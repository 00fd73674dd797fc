------------------------------- MODULE PageProofs -------------------------------
(***************************************************************************)
(* Proofs about the pages: SeatMapPage, one booking page with its map, for *)
(* any seats, orders, requests and faults; and PageRouter, which draws the *)
(* pages, for any kinds of pages, navigations and failing assets.  The two *)
(* models share no definition and no variable, and each has its own Spec.  *)
(***************************************************************************)
EXTENDS SeatMapPage, PageRouter, FiniteSetTheorems, TLAPS

-----------------------------------------------------------------------------
(* The inductive invariant of SeatMapPage                                  *)

OrderRecord   == [pc : {"new", "posted", "queued", "booked", "refused", "told"},
                  seats : SUBSET Seat, from : 0..MaxGen]
RequestRecord == [pc : {"free", "sent", "answered", "done"},
                  use : {"none", "page", "refetch", "detail"},
                  into : 0..MaxGen, seen : Screening]

\* A sold-out screening is closed, and a concert's count is none too many.
Honest(a) ==
  /\ a.open <=> a.remain > 0
  /\ kind = "concert" => a.remain <= Left(a.reserved)

\* A theater's screening agrees with its map; when it is sold out it shows its total.
Synced(d) ==
  /\ d.open <=> d.reserved # Seat
  /\ d.remain = Left(d.reserved) \/ d.reserved = Seat

\* The generation that was told of a booking.
Into(o) == IF kind = "theater" THEN newest ELSE order[o].from

Bookkeeping ==
  /\ \A r \in Request : request[r].pc \in {"free", "done"} => request[r].use = "none"
  /\ kind = "theater" => drawn \in {0, newest}
  /\ \A o \in Order : order[o].pc # "new" => order[o].from \in 1..newest
  /\ \A r \in Request : request[r].use = "detail" => request[r].into \in 1..newest

ToldIsKnown == \A o \in Order : order[o].pc = "told" => order[o].seats \subseteq known

ToldIsShown ==
  ~outdated => \A o \in Order : order[o].pc = "told" => order[o].seats \subseteq data[Into(o)].reserved

AnswersAreHonest == \A r \in Request : Honest(request[r].seen)

\* No state of the concert page promises more seats than its map has free.
ConcertIsCautious ==
  kind = "concert" => \A g \in 1..newest : data[g].remain <= Left(data[g].reserved)

\* The theater's dataset says what its map says, or is about to be repaired.
SyncedOrRepaired ==
  kind = "theater" /\ newest # 0 /\ Trusted =>
    Synced(data[newest]) \/ \E r \in Request : request[r].use = "detail"

PageInv ==
  /\ TypeOK
  /\ Bookkeeping
  /\ ToldIsKnown
  /\ ToldIsShown
  /\ AnswersAreHonest
  /\ ConcertIsCautious
  /\ SyncedOrRepaired

USE DEF client, server, past, vars

\* What is left of a map is a count, and nothing is left of a full one only.
LEMMA LeftIsACount ==
  ASSUME NEW S \in SUBSET Seat
  PROVE  /\ Left(S) \in 0..Cardinality(Seat)
         /\ Left(S) = 0 <=> S = Seat
<1>1. IsFiniteSet(Seat \ S) /\ Seat \ S \subseteq Seat
  BY SeatAssumption, FS_Subset
<1>2. Cardinality(Seat \ S) \in Nat /\ Cardinality(Seat) \in Nat
  BY <1>1, SeatAssumption, FS_CardinalityType
<1>3. Cardinality(Seat \ S) <= Cardinality(Seat)
  BY <1>1, SeatAssumption, FS_Subset
<1>4. Cardinality(Seat \ S) = 0 <=> Seat \ S = {}
  BY <1>1, FS_EmptySet
<1> QED
  BY <1>2, <1>3, <1>4 DEF Left

LEMMA SeatCount == Cardinality(Seat) \in Nat
BY SeatAssumption, FS_CardinalityType

\* What the server may answer is honest.
LEMMA AnswersAreScreenings ==
  ASSUME TypeOK, NEW a \in Answers
  PROVE  a \in Screening /\ Honest(a)
<1>1. a \in Screening /\ (a.open <=> a.remain > 0)
  BY DEF Answers
<1>2. ASSUME kind = "concert" PROVE a.remain <= Left(a.reserved)
  <2>1. PICK twice \in 0..Cardinality(a.reserved) : a.remain = Minus(Left(a.reserved), twice)
    BY <1>2 DEF Answers, ConcertSays
  <2>2. a.reserved \in SUBSET Seat
    BY <1>1 DEF Screening
  <2>3. Left(a.reserved) \in 0..Cardinality(Seat) /\ Cardinality(Seat) \in Nat /\ twice \in Nat
    BY <2>1, <2>2, LeftIsACount, SeatCount, SeatAssumption, FS_Subset, FS_CardinalityType
  <2> QED
    BY <2>1, <2>3 DEF Minus
<1> QED
  BY <1>1, <1>2 DEF Honest

\* What the page makes of an answer are screenings; a concert's remains cautious, and a
\* theater's agrees with its map if count and map of the answer agree and the map is taken.
LEMMA NormalizedIsSynced ==
  ASSUME NEW a \in Screening, Honest(a)
  PROVE  /\ Normalized(a) \in Screening /\ Normalized(a).reserved = a.reserved
         /\ kind = "concert" => Normalized(a) = a
         /\ kind = "theater" /\ a.remain = Left(a.reserved) => Synced(Normalized(a))
<1>1. /\ a.remain \in 0..Cardinality(Seat) /\ a.open \in BOOLEAN /\ a.reserved \in SUBSET Seat
      /\ a = [remain |-> a.remain, open |-> a.open, reserved |-> a.reserved]
      /\ Cardinality(Seat) \in Nat
  BY SeatCount DEF Screening
<1>2. /\ Normalized(a) = [remain |-> Total(a.remain), open |-> a.open, reserved |-> a.reserved]
      /\ Total(a.remain) \in 0..Cardinality(Seat)
      /\ kind = "concert" => Total(a.remain) = a.remain
      /\ Total(a.remain) = a.remain \/ a.remain = 0
  BY <1>1 DEF Normalized, Total, Screening
<1>3. a.remain = Left(a.reserved) => (a.remain > 0 <=> a.reserved # Seat)
  BY <1>1, LeftIsACount
<1>4. a.open <=> a.remain > 0
  BY DEF Honest
<1>5. Normalized(a) \in Screening /\ Normalized(a).reserved = a.reserved
  BY <1>1, <1>2 DEF Screening
<1>6. kind = "concert" => Normalized(a) = a
  BY <1>1, <1>2
<1>7. ASSUME a.remain = Left(a.reserved) PROVE Synced(Normalized(a))
  <2>1. Normalized(a).remain = a.remain \/ a.reserved = Seat
    BY <1>1, <1>2, <1>3, <1>7
  <2> QED
    BY <1>1, <1>2, <1>3, <1>4, <1>7, <2>1 DEF Synced
<1> QED
  BY <1>5, <1>6, <1>7

LEMMA MergedIsSynced ==
  ASSUME NEW a \in Screening, Honest(a), NEW d \in Screening
  PROVE  /\ Merged(d, a) \in Screening
         /\ a.reserved \subseteq Merged(d, a).reserved
         /\ kind = "concert" => Merged(d, a) = a
         /\ kind = "theater" /\ a.remain = Left(a.reserved) /\ ~(KeepsMap(a) /\ d.reserved # {})
              => Synced(Merged(d, a))
<1> DEFINE map == IF KeepsMap(a) THEN d.reserved ELSE a.reserved
<1>1. /\ a.remain \in 0..Cardinality(Seat) /\ a.open \in BOOLEAN
      /\ a.reserved \in SUBSET Seat /\ d.reserved \in SUBSET Seat
      /\ a = [remain |-> a.remain, open |-> a.open, reserved |-> a.reserved]
  BY DEF Screening
<1>2. Merged(d, a) = [remain |-> a.remain, open |-> a.open, reserved |-> map]
  BY <1>1 DEF Merged
<1>3. map \in SUBSET Seat /\ a.reserved \subseteq map /\ (kind = "concert" => map = a.reserved)
  BY <1>1 DEF KeepsMap
<1>4. ~(KeepsMap(a) /\ d.reserved # {}) => map = a.reserved
  BY DEF KeepsMap
<1>5. a.remain = Left(a.reserved) => (a.remain > 0 <=> a.reserved # Seat)
  BY <1>1, LeftIsACount
<1>6. a.open <=> a.remain > 0
  BY DEF Honest
<1> HIDE DEF map
<1> QED
  BY <1>1, <1>2, <1>3, <1>4, <1>5, <1>6 DEF Screening, Synced

LEMMA LessIsACount ==
  ASSUME NEW n \in 0..Cardinality(Seat), NEW S \in SUBSET Seat
  PROVE  Minus(n, Cardinality(S)) \in 0..Cardinality(Seat)
<1>1. Cardinality(S) \in Nat
  BY SeatAssumption, FS_Subset, FS_CardinalityType
<1> QED
  BY <1>1, SeatCount DEF Minus

\* Seats taken from the map cost at most as many of its free seats.
LEMMA LessIsCautious ==
  ASSUME NEW R \in SUBSET Seat, NEW S \in SUBSET Seat, NEW n \in Nat, n <= Left(R)
  PROVE  Minus(n, Cardinality(S)) <= Left(R \union S)
<1> DEFINE free == Seat \ (R \union S)
<1>1. IsFiniteSet(Seat \ R) /\ IsFiniteSet(S) /\ IsFiniteSet(free) /\ IsFiniteSet(free \union S)
  BY SeatAssumption, FS_Subset, FS_Union
<1>2. /\ Cardinality(Seat \ R) \in Nat /\ Cardinality(S) \in Nat /\ Cardinality(free) \in Nat
      /\ Cardinality(free \intersect S) \in Nat
  BY <1>1, FS_CardinalityType, FS_Intersection
<1>3. Seat \ R \subseteq free \union S
  OBVIOUS
<1>4. Cardinality(Seat \ R) <= Cardinality(free \union S)
  BY <1>1, <1>3, FS_Subset
<1>5. Cardinality(free \union S) = Cardinality(free) + Cardinality(S) - Cardinality(free \intersect S)
  BY <1>1, FS_Union
<1> QED
  BY <1>2, <1>4, <1>5 DEF Left, Minus

\* A request without an answer yet.
LEMMA EmptyIsHonest == Empty \in Screening /\ Honest(Empty)
<1>1. Left({}) \in 0..Cardinality(Seat) /\ Cardinality(Seat) \in Nat
  BY LeftIsACount, SeatCount
<1>2. Empty.remain = 0 /\ Empty.open = FALSE /\ Empty.reserved = {}
  BY DEF Empty
<1>3. Honest(Empty)
  <2>1. 0 <= Left({}) /\ ~(0 > 0)
    BY <1>1
  <2>2. Empty.remain <= Left(Empty.reserved) /\ ~(Empty.remain > 0) /\ ~Empty.open
    BY <1>2, <2>1
  <2> QED
    BY <2>2 DEF Honest
<1>4. 0 \in 0..Cardinality(Seat)
  BY <1>1
<1>5. Empty \in Screening
  BY <1>4 DEF Empty, Screening
<1> QED
  BY <1>3, <1>5

LEMMA InitPageInv == Init => PageInv
<1> SUFFICES ASSUME Init PROVE PageInv
  OBVIOUS
<1>1. TypeOK
  <2>1. Empty \in Screening
    BY EmptyIsHonest
  <2>2. Unused \in RequestRecord /\ [pc |-> "new", seats |-> {}, from |-> 0] \in OrderRecord
    BY <2>1, MaxGenAssumption DEF Unused, RequestRecord, OrderRecord
  <2>3. 0 \in 0..MaxGen /\ 0 \in 0..0
    BY MaxGenAssumption
  <2> QED
    BY <2>1, <2>2, <2>3 DEF Init, TypeOK, Gen, RequestRecord, OrderRecord
<1>2. newest = 0 /\ 1..newest = {}
  BY DEF Init
<1>3. \A o \in Order : order[o].pc = "new"
  BY DEF Init
<1>4. \A r \in Request : request[r].use = "none" /\ Honest(request[r].seen)
  BY EmptyIsHonest DEF Init, Unused
<1> QED
  BY <1>1, <1>2, <1>3, <1>4 DEF Init, PageInv, Bookkeeping, ToldIsKnown, ToldIsShown,
                              AnswersAreHonest, ConcertIsCautious, SyncedOrRepaired

\* A request of another use than "detail" may begin or end at any time.
LEMMA OtherRequestsStep ==
  ASSUME PageInv, NEW r \in Request, NEW v,
         v \in [pc : {"free", "sent", "answered", "done"}, use : {"none", "page", "refetch"},
                into : 0..MaxGen, seen : {Empty}],
         request[r].use # "detail", v.pc \in {"free", "done"} => v.use = "none",
         request' = [request EXCEPT ![r] = v],
         here' \in BOOLEAN, drawn' \in {0, drawn},
         UNCHANGED <<kind, data, newest, order, server, past>>
  PROVE  PageInv'
<1>1. TypeOK'
  BY EmptyIsHonest DEF PageInv, TypeOK
<1>2. \A q \in Request : request[q].use = "detail" => request'[q] = request[q]
  BY DEF PageInv, TypeOK
<1>3. \A q \in Request : \/ request'[q] = request[q]
                         \/ request'[q] = v
  BY DEF PageInv, TypeOK
<1>4. Bookkeeping' /\ ToldIsKnown' /\ ToldIsShown'
  BY <1>3 DEF PageInv, Bookkeeping, ToldIsKnown, ToldIsShown, Into
<1>5. SyncedOrRepaired' /\ ConcertIsCautious'
  BY <1>2 DEF PageInv, SyncedOrRepaired, Synced, Trusted, ConcertIsCautious
<1>6. AnswersAreHonest'
  BY <1>3, EmptyIsHonest DEF PageInv, AnswersAreHonest, Honest
<1> QED
  BY <1>1, <1>4, <1>5, <1>6 DEF PageInv

LEMMA ComingAndGoingStep ==
  ASSUME PageInv, \/ Leave
                  \/ \E r \in Request : Mount(r) \/ Broadcast(r)
  PROVE  PageInv'
<1>1. CASE Leave
  <2>1. TypeOK'
    <3>1. newest \in Nat /\ 0 \in 0..newest
      BY MaxGenAssumption DEF PageInv, TypeOK
    <3> QED
      BY <1>1, <3>1 DEF Leave, PageInv, TypeOK
  <2> QED
    BY <1>1, <2>1 DEF Leave, PageInv, Bookkeeping, ToldIsKnown, ToldIsShown, SyncedOrRepaired,
                      Into, Synced, Trusted, AnswersAreHonest, Honest, ConcertIsCautious
<1>2. CASE \E r \in Request : Mount(r) \/ Broadcast(r)
  <2>1. PICK r \in Request, use \in {"page", "refetch"} :
          /\ Free(r) /\ request' = [request EXCEPT ![r] = Sent(use, 0)]
          /\ here' \in BOOLEAN /\ drawn' \in {0, drawn}
          /\ UNCHANGED <<kind, data, newest, order, server, past>>
    BY <1>2 DEF Mount, Broadcast, PageInv, TypeOK
  <2>2. Sent(use, 0) \in [pc : {"free", "sent", "answered", "done"}, use : {"none", "page", "refetch"},
                          into : 0..MaxGen, seen : {Empty}]
    BY MaxGenAssumption DEF Sent
  <2>3. request[r].use # "detail" /\ Sent(use, 0).pc = "sent"
    BY <2>1 DEF Free, Unused, Sent
  <2> QED
    BY <2>1, <2>2, <2>3, OtherRequestsStep
<1> QED
  BY <1>1, <1>2

LEMMA ServeStep ==
  ASSUME PageInv, NEW r \in Request, Serve(r)
  PROVE  PageInv'
<1>1. PICK a \in Answers :
        request' = [request EXCEPT ![r] = [request[r] EXCEPT !.pc = "answered", !.seen = a]]
  BY DEF Serve, PageInv, TypeOK
<1>2. a \in Screening /\ Honest(a)
  BY AnswersAreScreenings DEF PageInv
<1>3. \A q \in Request :
        /\ request'[q].use = request[q].use /\ request'[q].into = request[q].into
        /\ request'[q].pc \in {"answered", request[q].pc}
        /\ request'[q].seen \in {a, request[q].seen}
        /\ request'[q] \in RequestRecord
  <2>1. \A q \in Request : request[q] \in RequestRecord
    BY DEF PageInv, TypeOK, RequestRecord
  <2>2. \A q \in Request : request'[q] = IF q = r THEN [request[r] EXCEPT !.pc = "answered", !.seen = a]
                                                   ELSE request[q]
    BY <1>1 DEF PageInv, TypeOK
  <2> DEFINE answered == [request[r] EXCEPT !.pc = "answered", !.seen = a]
  <2>3. /\ answered \in RequestRecord /\ answered.pc = "answered" /\ answered.seen = a
        /\ answered.use = request[r].use /\ answered.into = request[r].into
    BY <1>2, <2>1 DEF RequestRecord
  <2> HIDE DEF answered
  <2>4. \A q \in Request : request'[q] = IF q = r THEN answered ELSE request[q]
    BY <2>2 DEF answered
  <2> QED
    BY <2>1, <2>3, <2>4
<1>4. TypeOK'
  <2>1. request' \in [Request -> RequestRecord]
    BY <1>1, <1>3 DEF PageInv, TypeOK
  <2> QED
    BY <2>1 DEF Serve, PageInv, TypeOK, RequestRecord
<1>5. Bookkeeping' /\ ToldIsKnown' /\ ToldIsShown'
  BY <1>3 DEF Serve, PageInv, Bookkeeping, ToldIsKnown, ToldIsShown, Into
<1>6. SyncedOrRepaired' /\ ConcertIsCautious'
  BY <1>3 DEF Serve, PageInv, SyncedOrRepaired, Synced, Trusted, ConcertIsCautious
<1>7. AnswersAreHonest'
  BY <1>2, <1>3 DEF Serve, PageInv, AnswersAreHonest, Honest
<1> QED
  BY <1>4, <1>5, <1>6, <1>7 DEF PageInv

\* A request that is done repairs nothing and has no answer any more.
LEMMA RequestIsDone ==
  ASSUME TypeOK, NEW r \in Request,
         request' = [request EXCEPT ![r] = [Unused EXCEPT !.pc = "done"]]
  PROVE  \A q \in Request : \/ request'[q] = request[q]
                            \/ request'[q].use = "none" /\ request'[q].seen = Empty
BY DEF TypeOK, Unused

\* A failed request repairs nothing any more.
LEMMA FailStep ==
  ASSUME PageInv, NEW r \in Request, Fail(r)
  PROVE  PageInv'
<1>1. TypeOK'
  BY MaxGenAssumption, EmptyIsHonest DEF Fail, PageInv, TypeOK, Unused
<1>2. \A q \in Request : \/ request'[q] = request[q]
                         \/ request'[q].use = "none" /\ request'[q].seen = Empty
  BY RequestIsDone DEF Fail, PageInv
<1>3. Bookkeeping' /\ ToldIsKnown' /\ ToldIsShown'
  BY <1>2 DEF Fail, PageInv, Bookkeeping, ToldIsKnown, ToldIsShown, Into
<1>4. SyncedOrRepaired' /\ ConcertIsCautious'
  BY DEF Fail, PageInv, SyncedOrRepaired, Trusted, ConcertIsCautious
<1>5. AnswersAreHonest'
  BY <1>2, EmptyIsHonest DEF Fail, PageInv, AnswersAreHonest, Honest
<1> QED
  BY <1>1, <1>3, <1>4, <1>5 DEF PageInv

\* An answer that is not older than what the page knew names every booking it was told of.
LEMMA ReplaceStep ==
  ASSUME PageInv, NEW r \in Request, Replace(r)
  PROVE  PageInv'
<1> DEFINE a == request[r].seen
           d == Normalized(a)
<1>1. /\ newest \in Nat /\ newest + 1 \in Gen /\ newest' = newest + 1 /\ drawn' = newest + 1
      /\ data \in [Gen -> Screening] /\ data' = [data EXCEPT ![newest + 1] = d]
      /\ a \in Screening /\ kind' = kind /\ order' = order /\ failed' = failed
      /\ mixed' = (mixed \/ (kind = "theater" /\ a.remain # Left(a.reserved)))
      /\ kind = "theater" \/ kind = "concert"
  BY MaxGenAssumption, KindsAssumption DEF Replace, Learn, PageInv, TypeOK, Gen
<1>2. /\ d \in Screening /\ d.reserved = a.reserved /\ a.reserved \subseteq Seat /\ Honest(a)
      /\ kind = "concert" => d.remain <= Left(d.reserved)
      /\ kind = "theater" /\ ~mixed' => Synced(d)
  <2>1. Honest(a)
    BY DEF PageInv, AnswersAreHonest
  <2>2. a.reserved \subseteq Seat
    BY <1>1 DEF Screening
  <2> QED
    BY <1>1, <2>1, <2>2, NormalizedIsSynced DEF Honest
<1> HIDE DEF d
<1>3. /\ data'[newest + 1] = d
      /\ \A g \in 1..newest : data'[g] = data[g]
      /\ data' \in [Gen -> Screening]
  BY <1>1, <1>2 DEF PageInv, TypeOK, Gen
<1>4. TypeOK'
  <2>1. newest' \in 0..MaxGen /\ drawn' \in 0..newest'
    BY <1>1 DEF Gen
  <2>2. request' \in [Request -> RequestRecord]
    BY MaxGenAssumption, EmptyIsHonest DEF Replace, PageInv, TypeOK, Unused, RequestRecord
  <2>3. known' \subseteq Seat /\ outdated' \in BOOLEAN /\ mixed' \in BOOLEAN
    BY <1>1, <1>2 DEF Replace, Learn, PageInv, TypeOK
  <2> QED
    BY <1>1, <1>3, <2>1, <2>2, <2>3 DEF Replace, PageInv, TypeOK, RequestRecord
<1>5. \A q \in Request : \/ request'[q] = request[q]
                         \/ request'[q].use = "none" /\ request'[q].seen = Empty
  BY RequestIsDone DEF Replace, PageInv
<1>12. \A q \in Request : request[q].use = "detail" => request'[q] = request[q]
  BY DEF Replace, PageInv, TypeOK
<1>6. Bookkeeping'
  BY <1>1, <1>5, <1>12 DEF PageInv, Bookkeeping
<1>7. ToldIsKnown'
  BY <1>1 DEF Replace, Learn, PageInv, ToldIsKnown
<1>8. ToldIsShown'
  <2> SUFFICES ASSUME ~outdated', NEW o \in Order, order[o].pc = "told"
               PROVE  order[o].seats \subseteq data'[Into(o)'].reserved
    BY <1>1 DEF ToldIsShown
  <2>1. ~outdated /\ order[o].seats \subseteq a.reserved
    BY DEF Replace, Learn, PageInv, TypeOK, ToldIsKnown
  <2>2. CASE kind = "theater"
    BY <1>1, <1>2, <1>3, <2>1, <2>2 DEF Into
  <2>3. CASE kind # "theater"
    <3>1. Into(o)' = order[o].from /\ Into(o) = order[o].from /\ order[o].from \in 1..newest
      BY <1>1, <2>3 DEF Into, PageInv, Bookkeeping
    <3> QED
      BY <1>3, <2>1, <3>1 DEF PageInv, ToldIsShown
  <2> QED
    BY <2>2, <2>3
<1>9. SyncedOrRepaired'
  BY <1>1, <1>2, <1>3 DEF SyncedOrRepaired, Synced, Trusted
<1>10. ConcertIsCautious'
  <2> SUFFICES ASSUME kind = "concert", NEW g \in 1..newest'
               PROVE  data'[g].remain <= Left(data'[g].reserved)
    BY <1>1 DEF ConcertIsCautious
  <2>1. CASE g = newest + 1
    BY <1>2, <1>3, <2>1
  <2>2. CASE g # newest + 1
    BY <1>1, <1>3, <2>2 DEF PageInv, ConcertIsCautious
  <2> QED
    BY <2>1, <2>2
<1>11. AnswersAreHonest'
  BY <1>1, <1>5, <1>12, EmptyIsHonest DEF PageInv, AnswersAreHonest, Honest
<1> QED
  BY <1>4, <1>6, <1>7, <1>8, <1>9, <1>10, <1>11 DEF PageInv

LEMMA RepairStep ==
  ASSUME PageInv, NEW r \in Request, Repair(r)
  PROVE  PageInv'
<1> DEFINE g == IF kind = "theater" THEN newest ELSE request[r].into
           a == request[r].seen
           d == Merged(data[g], a)
<1>1. /\ data' = [data EXCEPT ![g] = d] /\ drawn' = g /\ request[r].use = "detail"
      /\ data \in [Gen -> Screening] /\ newest \in 0..MaxGen /\ g \in 1..newest
      /\ a \in Screening /\ data[g] \in Screening
      /\ UNCHANGED <<kind, newest, order, failed>>
      /\ mixed' = (mixed \/ (KeepsMap(a) /\ data[g].reserved # {})
                         \/ (kind = "theater" /\ a.remain # Left(a.reserved)))
      /\ kind = "theater" \/ kind = "concert"
  <2>1. /\ request[r] \in RequestRecord /\ request[r].use = "detail" /\ kind \in Kinds
        /\ data \in [Gen -> Screening] /\ newest \in 0..MaxGen
    BY DEF Repair, PageInv, TypeOK, RequestRecord
  <2>2. g \in 1..newest
    BY <2>1 DEF PageInv, Bookkeeping
  <2>3. data[g] \in Screening
    BY <2>1, <2>2, MaxGenAssumption DEF Gen
  <2>4. data' = [data EXCEPT ![g] = d]
    BY <2>1, <2>2 DEF Repair
  <2> QED
    BY <2>1, <2>2, <2>3, <2>4, KindsAssumption DEF Repair, Learn, RequestRecord
<1>2. /\ d \in Screening /\ a.reserved \subseteq d.reserved /\ a.reserved \subseteq Seat
      /\ kind = "concert" => d.remain <= Left(d.reserved)
      /\ kind = "theater" /\ ~mixed' => Synced(d)
  <2>1. Honest(a)
    BY DEF PageInv, AnswersAreHonest
  <2>2. a.reserved \subseteq Seat
    BY <1>1 DEF Screening
  <2>3. /\ d \in Screening /\ a.reserved \subseteq d.reserved /\ (kind = "concert" => d = a)
        /\ kind = "theater" /\ a.remain = Left(a.reserved) /\ ~(KeepsMap(a) /\ data[g].reserved # {})
             => Synced(d)
    BY <1>1, <2>1, MergedIsSynced
  <2> QED
    BY <1>1, <2>1, <2>2, <2>3 DEF Honest
<1>3. request' = [request EXCEPT ![r] = [Unused EXCEPT !.pc = "done"]]
  BY DEF Repair
<1>4. kind = "theater" => g = newest
  OBVIOUS
<1>5. kind # "theater" => g = request[r].into
  OBVIOUS
<1> HIDE DEF g, d
<1>6. /\ data'[g] = d
      /\ \A x \in 1..newest : x # g => data'[x] = data[x]
      /\ data' \in [Gen -> Screening]
  <2>1. g \in Gen /\ 1..newest \subseteq Gen
    BY <1>1, MaxGenAssumption DEF Gen
  <2> QED
    BY <1>1, <1>2, <2>1
<1>7. TypeOK'
  <2>1. request' \in [Request -> RequestRecord]
    BY <1>3, MaxGenAssumption, EmptyIsHonest DEF PageInv, TypeOK, Unused, RequestRecord
  <2>2. /\ known' \subseteq Seat /\ outdated' \in BOOLEAN /\ mixed' \in BOOLEAN
        /\ drawn' \in 0..newest'
    BY <1>1, <1>2 DEF Repair, Learn, PageInv, TypeOK
  <2> QED
    BY <1>1, <1>6, <2>1, <2>2 DEF Repair, PageInv, TypeOK, RequestRecord
<1>8. \A q \in Request :
        \/ request'[q] = request[q]
        \/ request'[q].use = "none" /\ request'[q].seen = Empty
  BY <1>3 DEF PageInv, TypeOK, Unused
<1>9. Bookkeeping' /\ ToldIsKnown'
  <2>1. UNCHANGED <<kind, newest, order>> /\ drawn' = g
    BY <1>1
  <2>2. \A q \in Request : request'[q].pc \in {"free", "done"} => request'[q].use = "none"
    BY <1>3 DEF PageInv, TypeOK, Bookkeeping, Unused
  <2>3. \A q \in Request : request'[q].use = "detail" => request'[q].into \in 1..newest
    BY <1>8 DEF PageInv, Bookkeeping
  <2>4. known \subseteq known'
    BY DEF Repair, Learn
  <2> QED
    BY <1>4, <2>1, <2>2, <2>3, <2>4 DEF PageInv, Bookkeeping, ToldIsKnown
<1>10. ToldIsShown'
  <2> SUFFICES ASSUME ~outdated', NEW o \in Order, order[o].pc = "told"
               PROVE  order[o].seats \subseteq data'[Into(o)'].reserved
    BY <1>1 DEF ToldIsShown
  <2>1. ~outdated /\ order[o].seats \subseteq a.reserved
    BY DEF Repair, Learn, PageInv, TypeOK, ToldIsKnown
  <2>2. Into(o)' = Into(o) /\ Into(o) \in 1..newest
    BY <1>1 DEF Into, PageInv, Bookkeeping
  <2> QED
    BY <1>2, <1>6, <2>1, <2>2 DEF PageInv, ToldIsShown
<1>11. SyncedOrRepaired'
  BY <1>1, <1>2, <1>4, <1>6 DEF SyncedOrRepaired, Synced, Trusted
<1>12. ConcertIsCautious'
  BY <1>1, <1>2, <1>6 DEF PageInv, ConcertIsCautious
<1>13. AnswersAreHonest'
  BY <1>1, <1>8, EmptyIsHonest DEF PageInv, AnswersAreHonest, Honest
<1> QED
  BY <1>7, <1>9, <1>10, <1>11, <1>12, <1>13 DEF PageInv

\* Booking, up to the callback, and the bookings of others do not touch the page's data.
LEMMA PostStep ==
  ASSUME PageInv, NEW o \in Order, NEW S \in SUBSET Seat, Post(o, S)
  PROVE  PageInv'
<1>1. drawn \in 1..newest /\ newest \in 0..MaxGen
  BY DEF Post, PageInv, TypeOK
<1>2. TypeOK'
  <2>1. [pc |-> "posted", seats |-> S, from |-> drawn] \in OrderRecord
    BY <1>1, MaxGenAssumption DEF OrderRecord
  <2>2. order' \in [Order -> OrderRecord]
    BY <2>1 DEF Post, PageInv, TypeOK, OrderRecord
  <2> QED
    BY <2>2 DEF Post, PageInv, TypeOK, OrderRecord
<1>3. /\ order'[o].from = drawn /\ order'[o].pc = "posted"
      /\ \A p \in Order : p # o => order'[p] = order[p]
  BY DEF Post, PageInv, TypeOK
<1>4. Bookkeeping' /\ ToldIsKnown' /\ ToldIsShown'
  BY <1>1, <1>3 DEF Post, PageInv, Bookkeeping, ToldIsKnown, ToldIsShown, Into
<1>5. SyncedOrRepaired' /\ ConcertIsCautious' /\ AnswersAreHonest'
  BY DEF Post, PageInv, SyncedOrRepaired, Synced, Trusted, ConcertIsCautious, AnswersAreHonest, Honest
<1> QED
  BY <1>2, <1>4, <1>5 DEF PageInv

\* An order goes on without being told.
LEMMA OrderStep ==
  ASSUME PageInv, NEW o \in Order, NEW pc \in {"queued", "booked", "refused"},
         order[o].pc # "new", order' = [order EXCEPT ![o].pc = pc],
         taken' \subseteq Seat, was' \subseteq SUBSET Seat,
         UNCHANGED <<client, request, past>>
  PROVE  PageInv'
<1>1. TypeOK'
  BY DEF PageInv, TypeOK
<1>2. \A p \in Order : /\ order'[p].from = order[p].from /\ order'[p].seats = order[p].seats
                       /\ order'[p].pc = "told" => order[p].pc = "told"
                       /\ order'[p].pc # "new" => order[p].pc # "new"
  BY DEF PageInv, TypeOK
<1>3. Bookkeeping' /\ ToldIsKnown' /\ ToldIsShown'
  BY <1>2 DEF PageInv, Bookkeeping, ToldIsKnown, ToldIsShown, Into
<1>4. SyncedOrRepaired' /\ ConcertIsCautious' /\ AnswersAreHonest'
  BY DEF PageInv, SyncedOrRepaired, Synced, Trusted, ConcertIsCautious, AnswersAreHonest, Honest
<1> QED
  BY <1>1, <1>3, <1>4 DEF PageInv

LEMMA PostReturnsStep ==
  ASSUME PageInv, NEW o \in Order, NEW r \in Request, PostReturns(o, r)
  PROVE  PageInv'
<1>1. order' = [order EXCEPT ![o].pc = "queued"] /\ order[o].pc = "posted"
      /\ UNCHANGED <<client, server, past>>
  BY DEF PostReturns
<1>2. \/ UNCHANGED request
      \/ Free(r) /\ request' = [request EXCEPT ![r] = Sent("refetch", 0)]
  BY DEF PostReturns
<1>3. TypeOK'
  <2>1. Sent("refetch", 0) \in RequestRecord
    BY MaxGenAssumption, EmptyIsHonest DEF Sent, RequestRecord
  <2>2. request' \in [Request -> RequestRecord]
    BY <1>2, <2>1 DEF PageInv, TypeOK, RequestRecord
  <2>3. order' \in [Order -> OrderRecord]
    <3>1. order \in [Order -> OrderRecord]
      BY DEF PageInv, TypeOK, OrderRecord
    <3>2. [order[o] EXCEPT !.pc = "queued"] \in OrderRecord
      BY <3>1 DEF OrderRecord
    <3> QED
      BY <1>1, <3>1, <3>2
  <2> QED
    BY <1>1, <2>2, <2>3 DEF PageInv, TypeOK, RequestRecord, OrderRecord
<1>4. \A p \in Order : /\ order'[p].from = order[p].from /\ order'[p].seats = order[p].seats
                       /\ order'[p].pc = "told" => order[p].pc = "told"
                       /\ order'[p].pc # "new" => order[p].pc # "new"
  BY <1>1 DEF PageInv, TypeOK
<1>5. \A q \in Request : /\ \/ request'[q] = request[q]
                            \/ /\ request'[q].use = "refetch" /\ request'[q].pc = "sent"
                               /\ request'[q].seen = Empty
                         /\ request[q].use = "detail" => request'[q] = request[q]
  BY <1>2 DEF PageInv, TypeOK, Free, Sent, Unused
<1>6. Bookkeeping' /\ ToldIsKnown' /\ ToldIsShown'
  BY <1>1, <1>4, <1>5 DEF PageInv, Bookkeeping, ToldIsKnown, ToldIsShown, Into
<1>7. SyncedOrRepaired' /\ ConcertIsCautious'
  BY <1>1, <1>5 DEF PageInv, SyncedOrRepaired, Synced, Trusted, ConcertIsCautious
<1>8. AnswersAreHonest'
  BY <1>1, <1>5, EmptyIsHonest DEF PageInv, AnswersAreHonest, Honest
<1> QED
  BY <1>3, <1>6, <1>7, <1>8 DEF PageInv

LEMMA ServerStep ==
  ASSUME PageInv, \/ \E o \in Order : Work(o)
                  \/ \E s \in Seat : OtherBooks(s)
  PROVE  PageInv'
<1>1. CASE \E o \in Order : Work(o)
  <2>1. PICK o \in Order, pc \in {"booked", "refused"} :
          /\ order[o].pc = "queued" /\ order' = [order EXCEPT ![o].pc = pc]
          /\ taken' \subseteq Seat /\ was' \subseteq SUBSET Seat
          /\ UNCHANGED <<client, request, past>>
    BY <1>1 DEF Work, Take, PageInv, TypeOK
  <2> QED
    BY <2>1, OrderStep
<1>2. CASE \E s \in Seat : OtherBooks(s)
  <2>1. TypeOK'
    BY <1>2 DEF OtherBooks, Take, PageInv, TypeOK
  <2> QED
    BY <1>2, <2>1 DEF OtherBooks, PageInv, Bookkeeping, ToldIsKnown, ToldIsShown, SyncedOrRepaired,
                      Into, Synced, Trusted, ConcertIsCautious, AnswersAreHonest, Honest
<1> QED
  BY <1>1, <1>2

\* The callback writes the map of the generation it then asks the server about.
LEMMA OnBookedStep ==
  ASSUME PageInv, NEW o \in Order, NEW r \in Request, OnBooked(o, r)
  PROVE  PageInv'
<1> DEFINE from == order[o].from
           g    == IF kind = "theater" THEN newest ELSE from
           less == Minus(data[from].remain, Cardinality(order[o].seats))
           D    == [data EXCEPT ![from].remain = less,
                                ![from].open = @ /\ (kind = "concert" => less > 0)]
<1>1. /\ order[o].pc = "booked" /\ Free(r)
      /\ data' = [D EXCEPT ![g].reserved = @ \union order[o].seats]
      /\ drawn' = g /\ request' = [request EXCEPT ![r] = Sent("detail", g)]
      /\ order' = [order EXCEPT ![o].pc = "told"]
      /\ known' = known \union order[o].seats
      /\ UNCHANGED <<kind, here, newest, server, outdated, mixed, failed>>
  BY DEF OnBooked
<1>2. /\ newest \in 0..MaxGen /\ from \in 1..newest /\ g \in 1..newest /\ order[o].seats \subseteq Seat
      /\ data \in [Gen -> Screening]
  <2>1. from \in 1..newest /\ newest \in 0..MaxGen /\ data \in [Gen -> Screening]
    BY <1>1 DEF PageInv, TypeOK, Bookkeeping
  <2>2. order[o] \in OrderRecord
    BY DEF PageInv, TypeOK, OrderRecord
  <2>3. order[o].seats \subseteq Seat
    BY <2>2 DEF OrderRecord
  <2>4. g \in 1..newest
    BY <2>1
  <2> QED
    BY <2>1, <2>3, <2>4
<1>3. less \in 0..Cardinality(Seat)
  <2>1. data[from] \in Screening
    BY <1>2, MaxGenAssumption DEF Gen
  <2> QED
    BY <1>2, <2>1, LessIsACount DEF Screening
<1> HIDE DEF less
<1>4. /\ D \in [Gen -> Screening] /\ D[from].remain = less
      /\ \A x \in Gen : /\ x # from => D[x] = data[x]
                        /\ D[x].reserved = data[x].reserved
  <2>1. from \in Gen /\ data[from] \in Screening
    BY <1>2, MaxGenAssumption DEF Gen
  <2>2. [data[from] EXCEPT !.remain = less, !.open = @ /\ (kind = "concert" => less > 0)] \in Screening
    BY <1>3, <2>1 DEF Screening
  <2> QED
    BY <1>2, <2>1, <2>2 DEF Screening
<1> HIDE DEF D
<1>5. /\ data' \in [Gen -> Screening]
      /\ \A x \in 1..newest : /\ data[x].reserved \subseteq data'[x].reserved
                              /\ x # from /\ x # g => data'[x] = data[x]
      /\ data'[g].reserved = data[g].reserved \union order[o].seats
      /\ data'[g].remain = D[g].remain
  <2>1. g \in Gen /\ 1..newest \subseteq Gen
    BY <1>2, MaxGenAssumption DEF Gen
  <2>2. [D[g] EXCEPT !.reserved = @ \union order[o].seats] \in Screening
    BY <1>2, <1>4, <2>1 DEF Screening
  <2>3. data'[g] = [D[g] EXCEPT !.reserved = @ \union order[o].seats]
    BY <1>1, <1>4, <2>1
  <2>4. data'[g].reserved = D[g].reserved \union order[o].seats /\ data'[g].remain = D[g].remain
    BY <1>4, <2>1, <2>3 DEF Screening
  <2>5. \A x \in Gen : x # g => data'[x] = D[x]
    BY <1>1, <1>4
  <2> QED
    BY <1>1, <1>4, <2>1, <2>2, <2>4, <2>5
<1>6. (kind = "theater" => g = newest) /\ (kind # "theater" => g = from)
  OBVIOUS
<1> HIDE DEF g
<1>7. /\ order'[o] = [order[o] EXCEPT !.pc = "told"]
      /\ \A p \in Order : /\ order'[p].from = order[p].from /\ order'[p].seats = order[p].seats
                          /\ p # o => order'[p] = order[p]
  BY <1>1 DEF PageInv, TypeOK
<1>8. /\ request'[r] = Sent("detail", g)
      /\ \A q \in Request : q # r => request'[q] = request[q]
      /\ request[r].use # "detail"
  BY <1>1 DEF PageInv, TypeOK, Free, Unused
<1>9. TypeOK'
  <2>1. order' \in [Order -> OrderRecord]
    BY <1>1 DEF PageInv, TypeOK, OrderRecord
  <2>2. request' \in [Request -> RequestRecord]
    BY <1>1, <1>2, MaxGenAssumption, EmptyIsHonest DEF PageInv, TypeOK, Sent, RequestRecord
  <2>3. /\ kind' \in Kinds /\ here' \in BOOLEAN /\ newest' \in 0..MaxGen /\ drawn' \in 0..newest'
        /\ taken' \subseteq Seat /\ known' \subseteq Seat
        /\ outdated' \in BOOLEAN /\ mixed' \in BOOLEAN /\ failed' \in BOOLEAN
        /\ was' \subseteq SUBSET Seat
    BY <1>1, <1>2 DEF PageInv, TypeOK
  <2> QED
    BY <1>5, <2>1, <2>2, <2>3 DEF TypeOK, OrderRecord, RequestRecord
<1>10. Bookkeeping'
  BY <1>1, <1>2, <1>6, <1>7, <1>8 DEF PageInv, Bookkeeping, Sent
<1>11. ToldIsKnown'
  BY <1>1, <1>7 DEF PageInv, ToldIsKnown
<1>12. ToldIsShown'
  <2> SUFFICES ASSUME ~outdated, NEW p \in Order, order'[p].pc = "told"
               PROVE  order'[p].seats \subseteq data'[Into(p)'].reserved
    BY <1>1 DEF ToldIsShown
  <2>1. CASE p = o
    <3>1. Into(p)' = g
      BY <1>1, <1>6, <1>7, <2>1 DEF Into
    <3> QED
      BY <1>5, <1>7, <2>1, <3>1
  <2>2. CASE p # o
    <3>1. Into(p)' = Into(p) /\ Into(p) \in 1..newest /\ order[p].pc = "told"
      BY <1>1, <1>2, <1>7, <2>2 DEF Into, PageInv, Bookkeeping
    <3> QED
      BY <1>5, <1>7, <2>2, <3>1 DEF PageInv, ToldIsShown
  <2> QED
    BY <2>1, <2>2
<1>13. SyncedOrRepaired'
  BY <1>8 DEF SyncedOrRepaired, Sent
<1>14. ConcertIsCautious'
  <2> SUFFICES ASSUME kind = "concert", NEW x \in 1..newest
               PROVE  data'[x].remain <= Left(data'[x].reserved)
    BY <1>1 DEF ConcertIsCautious
  <2>1. data[x] \in Screening /\ data[x].remain <= Left(data[x].reserved)
    BY <1>2, MaxGenAssumption DEF PageInv, ConcertIsCautious, Gen
  <2>2. CASE x = from
    <3>1. g = from /\ data'[x].remain = less /\ data'[x].reserved = data[x].reserved \union order[o].seats
      BY <1>4, <1>5, <1>6, <2>2
    <3>2. data[x].remain \in Nat /\ data[x].reserved \in SUBSET Seat
      BY <2>1, SeatCount DEF Screening
    <3> QED
      BY <1>2, <2>1, <2>2, <3>1, <3>2, LessIsCautious DEF less
  <2>3. CASE x # from
    BY <1>5, <1>6, <2>1, <2>3
  <2> QED
    BY <2>2, <2>3
<1>15. AnswersAreHonest'
  BY <1>1, <1>8, EmptyIsHonest DEF PageInv, AnswersAreHonest, Honest, Sent
<1> QED
  BY <1>9, <1>10, <1>11, <1>12, <1>13, <1>14, <1>15 DEF PageInv

LEMMA NextKeepsPageInv == PageInv /\ [Next]_vars => PageInv'
<1> SUFFICES ASSUME PageInv, [Next]_vars PROVE PageInv'
  OBVIOUS
<1>1. CASE UNCHANGED vars
  BY <1>1 DEF PageInv, TypeOK, Bookkeeping, ToldIsKnown, ToldIsShown, SyncedOrRepaired,
              Into, Synced, Trusted, ConcertIsCautious, AnswersAreHonest, Honest
<1>2. CASE \/ Leave
           \/ \E r \in Request : Mount(r) \/ Broadcast(r) \/ Serve(r) \/ Fail(r) \/ Arrive(r)
  BY <1>2, ComingAndGoingStep, ServeStep, FailStep, ReplaceStep, RepairStep DEF Arrive
<1>3. CASE \/ \E o \in Order, S \in SUBSET Seat : Post(o, S)
           \/ \E o \in Order, r \in Request : PostReturns(o, r) \/ OnBooked(o, r)
           \/ \E o \in Order : Work(o)
           \/ \E s \in Seat : OtherBooks(s)
  BY <1>3, PostStep, PostReturnsStep, OnBookedStep, ServerStep
<1> QED
  BY <1>1, <1>2, <1>3 DEF Next

LEMMA PageInvariance == Spec => []PageInv
BY InitPageInv, NextKeepsPageInv, PTL DEF Spec

\* What is drawn on a settled theater page is in agreement with its map.
LEMMA DrawnIsSynced ==
  ASSUME PageInv, Settled, drawn # 0, kind = "theater", Trusted
  PROVE  Synced(data[drawn])
<1>1. drawn = newest
  BY DEF PageInv, Bookkeeping
<1>2. \A r \in Request : request[r].use # "detail"
  BY DEF Settled, PageInv, Bookkeeping
<1> QED
  BY <1>1, <1>2 DEF PageInv, SyncedOrRepaired

LEMMA DrawnIsScreening ==
  ASSUME PageInv, drawn # 0
  PROVE  /\ data[drawn] \in Screening
         /\ kind = "theater" \/ kind = "concert"
         /\ kind = "concert" => data[drawn].remain <= Left(data[drawn].reserved)
<1>1. drawn \in 1..newest /\ drawn \in Gen
  BY MaxGenAssumption DEF PageInv, TypeOK, Gen
<1> QED
  BY <1>1, KindsAssumption DEF PageInv, TypeOK, ConcertIsCautious

-----------------------------------------------------------------------------
(* Theorems about SeatMapPage                                              *)

\* The datasets, counts, orders and requests of the page keep their ranges: the count
\* that onBooked takes seats from never falls below 0, and no callback or answer writes
\* to a dataset that does not exist.
THEOREM TheMapKeepsItsTypes == Spec => []TypeOK
<1>1. PageInv => TypeOK
  BY DEF PageInv
<1> QED
  BY <1>1, PageInvariance, PTL

\* On a settled page the seats of every booking it was told of are taken, whichever
\* dataset the dialog, the callback and the answers worked on.
THEOREM OwnSeatsStayOnTheMap == Spec => []OwnSeatsAreShown
<1>1. PageInv => OwnSeatsAreShown
  <2> SUFFICES ASSUME PageInv, drawn # 0, ~outdated, NEW o \in Told
               PROVE  order[o].seats \subseteq data[drawn].reserved
    BY DEF OwnSeatsAreShown, Booked
  <2>1. o \in Order /\ order[o].pc = "told" /\ Into(o) = drawn
    BY KindsAssumption DEF Told, Into, PageInv, TypeOK, Bookkeeping
  <2> QED
    BY <2>1 DEF PageInv, ToldIsShown
<1> QED
  BY <1>1, PageInvariance, PTL

\* A settled page offers no screening without a free seat on its map, in whatever order
\* the answers were applied; a theater page, if no read of it failed and no count was put
\* next to the map of another moment.
THEOREM AnOfferHasAFreeSeat == Spec => []OfferedHasFreeSeat
<1>1. PageInv => OfferedHasFreeSeat
  <2> SUFFICES ASSUME PageInv, Settled, drawn # 0, Trusted, Offered(data[drawn])
               PROVE  data[drawn].reserved # Seat
    BY DEF OfferedHasFreeSeat
  <2>1. data[drawn].open /\ data[drawn].remain > 0
    BY DEF Offered
  <2>2. CASE kind = "theater"
    BY <2>1, <2>2, DrawnIsSynced DEF Synced
  <2>3. CASE kind = "concert"
    <3>1. data[drawn].reserved \in SUBSET Seat /\ data[drawn].remain \in Nat
      BY DrawnIsScreening, SeatCount DEF Screening
    <3>2. Left(data[drawn].reserved) \in Nat /\ Left(data[drawn].reserved) # 0
      BY <2>1, <2>3, <3>1, DrawnIsScreening, LeftIsACount, SeatCount
    <3> QED
      BY <3>1, <3>2, LeftIsACount
  <2> QED
    BY <2>2, <2>3, DrawnIsScreening
<1> QED
  BY <1>1, PageInvariance, PTL

\* The count on the card of a settled theater page is that of its map, with the same
\* exceptions; a concert's card never promises more seats than its map has free.
THEOREM TheCountAgreesWithTheMap == Spec => []CountMatchesMap
<1>1. PageInv => CountMatchesMap
  <2> SUFFICES ASSUME PageInv, Settled, drawn # 0, Trusted
               PROVE  \/ data[drawn].remain = Left(data[drawn].reserved)
                      \/ /\ data[drawn].reserved = Seat /\ ~data[drawn].open
                         /\ kind = "theater"
                      \/ data[drawn].remain < Left(data[drawn].reserved) /\ kind = "concert"
    BY DEF CountMatchesMap
  <2>1. CASE kind = "theater"
    BY <2>1, DrawnIsSynced DEF Synced
  <2>2. CASE kind = "concert"
    <3>1. data[drawn].reserved \in SUBSET Seat /\ data[drawn].remain \in Nat
      BY DrawnIsScreening, SeatCount DEF Screening
    <3>2. Left(data[drawn].reserved) \in Nat
      BY <3>1, LeftIsACount, SeatCount
    <3> QED
      BY <2>2, <3>1, <3>2, DrawnIsScreening
  <2> QED
    BY <2>1, <2>2, DrawnIsScreening
<1> QED
  BY <1>1, PageInvariance, PTL

-----------------------------------------------------------------------------
(* The inductive invariant of PageRouter                                   *)

\* The variables that the properties below depend on, without the model's bounds.
Shapes ==
  /\ url \in Route
  /\ queue \in Nat
  /\ job = [pc |-> job.pc, at |-> job.at, todo |-> job.todo]
  /\ job.pc \in {"idle", "scripts", "style", "fetch", "rank", "footer"}
  /\ jobFailed \in BOOLEAN /\ strayed \in BOOLEAN /\ ranking \in BOOLEAN

\* No job renders an unknown page, and only the home page goes on with a ranking.
JobDiscipline ==
  /\ job.pc # "idle" => job.at \in Route /\ job.at.kind # "unknown"
  /\ job.pc = "rank" => job.at.kind = "home"

\* The last job renders the page of the address bar: whoever changes that queues a job.
LastJob == queue = 0 /\ job.pc # "idle" => url = job.at

Renders == job.pc \in {"scripts", "style", "fetch"}

\* After the last job has drawn, its page stays, but for a refetch of the home page.
LastPage ==
  queue = 0 /\ ~Renders /\ ~jobFailed /\ ~strayed =>
    \/ body = Shown(url.kind, url.n)
    \/ body = Loading("home") /\ "home" \in background /\ url.kind = "home"

LastRanking == queue = 0 /\ ranking => url.kind = "home"

RouterInv == Shapes /\ JobDiscipline /\ LastJob /\ LastPage /\ LastRanking

USE DEF routerVars, Renders

LEMMA NumberOfOthers ==
  ASSUME NEW r \in Route, r.kind \notin Lists \union Details
  PROVE  r.n = 1
BY DEF Route

LEMMA HomeIsRoute == Home \in Route /\ Home.kind = "home" /\ Home.n = 1
BY PageKindsAssumption DEF Home, Route, Lists, Details

LEMMA InitRouterInv == RouterInit => RouterInv
<1> SUFFICES ASSUME RouterInit PROVE RouterInv
  OBVIOUS
<1>1. Shapes
  BY DEF RouterInit, Shapes, Idle
<1> QED
  BY <1>1 DEF RouterInit, RouterInv, JobDiscipline, LastJob, LastPage, LastRanking, Idle

\* Navigations and renders that have another one queued behind them have nothing to keep.
LEMMA NavigateStep ==
  ASSUME RouterInv, NEW r \in Route, Navigate(r)
  PROVE  RouterInv'
<1>1. queue' \in Nat /\ queue' # 0
  BY DEF Navigate, RouterInv, Shapes
<1>2. Shapes' /\ JobDiscipline'
  BY <1>1 DEF Navigate, RouterInv, Shapes, JobDiscipline
<1> QED
  BY <1>1, <1>2 DEF RouterInv, LastJob, LastPage, LastRanking

LEMMA StartStep ==
  ASSUME RouterInv, Start
  PROVE  RouterInv'
<1> DEFINE at == IF url.kind = "unknown" THEN Home ELSE url
<1>1. at \in Route /\ at.kind # "unknown"
  BY HomeIsRoute DEF RouterInv, Shapes
<1>2. url' = at /\ job' = [pc |-> "scripts", at |-> at, todo |-> Scripts(at.kind)]
  BY DEF Start
<1> HIDE DEF at
<1>3. job'.pc = "scripts" /\ job'.at = at
  BY <1>2
<1>4. Shapes'
  <2>1. queue' \in Nat /\ jobFailed' = FALSE /\ strayed' = FALSE /\ ranking' = FALSE
    BY DEF Start, RouterInv, Shapes
  <2> QED
    BY <1>1, <1>2, <2>1 DEF Shapes
<1>5. JobDiscipline' /\ LastJob'
  BY <1>1, <1>2, <1>3 DEF JobDiscipline, LastJob
<1>6. LastPage' /\ LastRanking'
  BY <1>3 DEF Start, LastPage, LastRanking
<1> QED
  BY <1>4, <1>5, <1>6 DEF RouterInv

\* Steps of a job that draw nothing.
LEMMA AssetStep ==
  ASSUME RouterInv, LoadAsset \/ AssetFails
  PROVE  RouterInv'
<1>1. \/ /\ job' = [job EXCEPT !.todo = Tail(@)]
         /\ UNCHANGED <<url, queue, body, ranking, background, strayed, jobFailed>>
      \/ /\ job' = Idle /\ jobFailed' = TRUE
         /\ UNCHANGED <<url, queue, body, ranking, background, strayed>>
  BY DEF LoadAsset, AssetFails, Abandon, End
<1>2. CASE /\ job' = [job EXCEPT !.todo = Tail(@)]
           /\ UNCHANGED <<url, queue, body, ranking, background, strayed, jobFailed>>
  <2>1. job'.pc = job.pc /\ job'.at = job.at /\ Shapes'
    BY <1>2 DEF RouterInv, Shapes
  <2> QED
    BY <1>2, <2>1 DEF RouterInv, JobDiscipline, LastJob, LastPage, LastRanking
<1>3. CASE /\ job' = Idle /\ jobFailed' = TRUE
           /\ UNCHANGED <<url, queue, body, ranking, background, strayed>>
  <2>1. Shapes'
    BY <1>3 DEF RouterInv, Shapes, Idle
  <2> QED
    BY <1>3, <2>1 DEF RouterInv, JobDiscipline, LastJob, LastPage, LastRanking, Idle
<1> QED
  BY <1>1, <1>2, <1>3

LEMMA MountStep ==
  ASSUME RouterInv, MountPage
  PROVE  RouterInv'
<1> USE DEF MountPage, Ready, GoOn
<1>1. job.pc = "scripts" /\ job.at \in Route /\ job.at.kind # "unknown" /\ url \in Route
  BY DEF RouterInv, JobDiscipline, Shapes
<1>2. CASE job.at.kind \in Details /\ url.kind # job.at.kind
  <2>1. queue # 0
    BY <1>1, <1>2 DEF RouterInv, LastJob
  <2>2. Shapes' /\ JobDiscipline'
    BY <1>1, <1>2 DEF RouterInv, Shapes, JobDiscipline
  <2> QED
    BY <2>1, <2>2 DEF RouterInv, LastJob, LastPage, LastRanking
<1>3. CASE ~(job.at.kind \in Details /\ url.kind # job.at.kind)
  <2>1. job'.pc = "style" /\ job'.at \in Route /\ job'.at.kind = job.at.kind
    BY <1>1, <1>3
  <2>2. queue = 0 => url = job'.at
    BY <1>1, <1>3 DEF RouterInv, LastJob
  <2>3. Shapes'
    BY <1>3 DEF RouterInv, Shapes
  <2> QED
    BY <1>1, <2>1, <2>2, <2>3 DEF RouterInv, JobDiscipline, LastJob, LastPage, LastRanking
<1> QED
  BY <1>2, <1>3

LEMMA AskStep ==
  ASSUME RouterInv, Ask
  PROVE  RouterInv'
<1> USE DEF Ask, Ready, GoOn
<1>1. job'.pc = "fetch" /\ job'.at = job.at /\ Shapes'
  BY DEF RouterInv, Shapes
<1> QED
  BY <1>1 DEF RouterInv, JobDiscipline, LastJob, LastPage, LastRanking

\* What the last job draws is the page of the address bar.
LEMMA DrawStep ==
  ASSUME RouterInv, Draw
  PROVE  RouterInv'
<1> USE DEF Ready, GoOn
<1>1. PICK k, n :
        /\ Drawn(k, n)
        /\ \/ k = "home" /\ n = 1 /\ GoOn("rank", <<>>)
           \/ GoOn("footer", <<Footer>>)
        /\ \/ k \in Lists /\ n = NumberNow(k)
           \/ k \in Details /\ n = job.at.n
           \/ k \notin Lists \union Details /\ n = 1
  BY DEF Draw, DrawHome, DrawMovies, DrawConcerts, DrawMovie, DrawConcert, DrawOther, Lists, Details
<1>2. job.pc = "fetch" /\ job.at.kind = k /\ job.at \in Route
  BY <1>1 DEF Drawn, RouterInv, JobDiscipline
<1>3. job'.pc \in {"rank", "footer"} /\ job'.at = job.at /\ Shapes'
  BY <1>1 DEF Drawn, RouterInv, Shapes
<1>4. JobDiscipline' /\ LastJob'
  BY <1>1, <1>2, <1>3 DEF Drawn, RouterInv, Shapes, JobDiscipline, LastJob
<1>5. LastPage'
  <2> SUFFICES ASSUME queue = 0 PROVE body' = Shown(url.kind, url.n) /\ UNCHANGED <<url, queue>>
    BY <1>1 DEF LastPage, Drawn, Shown
  <2>1. url = job.at
    BY <1>2 DEF RouterInv, LastJob
  <2>2. n = url.n
    BY <1>1, <1>2, <2>1, NumberOfOthers DEF NumberNow
  <2> QED
    BY <1>1, <1>2, <2>1, <2>2 DEF Drawn
<1>6. LastRanking'
  BY <1>1 DEF Drawn, RouterInv, LastRanking
<1> QED
  BY <1>3, <1>4, <1>5, <1>6 DEF RouterInv

LEMMA RankingStep ==
  ASSUME RouterInv, DrawRanking
  PROVE  RouterInv'
<1> USE DEF DrawRanking, Ready, GoOn
<1>1. job.pc = "rank" /\ job'.pc = "footer" /\ job'.at = job.at /\ Shapes'
  BY DEF RouterInv, Shapes
<1>2. queue = 0 => url.kind = "home"
  BY <1>1 DEF RouterInv, LastJob, JobDiscipline
<1> QED
  BY <1>1, <1>2 DEF RouterInv, JobDiscipline, LastJob, LastPage, LastRanking

LEMMA EndStep ==
  ASSUME RouterInv, EndJob
  PROVE  RouterInv'
<1> USE DEF EndJob, Ready, End
<1>1. job.pc = "footer" /\ job' = Idle /\ Shapes'
  BY DEF RouterInv, Shapes, Idle
<1> QED
  BY <1>1 DEF RouterInv, JobDiscipline, LastJob, LastPage, LastRanking, Idle

\* A notice turns the home page, if that is drawn, into its refetch.
LEMMA NoticeStep ==
  ASSUME RouterInv, Notice
  PROVE  RouterInv'
<1>1. Shapes' /\ JobDiscipline' /\ LastJob' /\ LastRanking'
  BY DEF Notice, RouterInv, Shapes, JobDiscipline, LastJob, LastRanking
<1>2. LastPage'
  <2> SUFFICES ASSUME queue = 0, ~Renders, ~jobFailed, ~strayed
               PROVE  \/ body' = Shown(url.kind, url.n)
                      \/ body' = Loading("home") /\ "home" \in background' /\ url.kind = "home"
    BY DEF Notice, LastPage, Shown, Loading
  <2>1. CASE Listening("home")
    <3>1. body = Shown("home", 1) /\ body' = Loading("home") /\ "home" \in background'
      BY <2>1 DEF Notice, Listening, Listeners
    <3> QED
      BY <3>1 DEF RouterInv, LastPage, Shown, Loading
  <2>2. CASE ~Listening("home")
    BY <2>2 DEF Notice, RouterInv, LastPage
  <2> QED
    BY <2>1, <2>2
<1> QED
  BY <1>1, <1>2 DEF RouterInv

\* A refetch draws the page of the address bar, or it has strayed.
LEMMA RefetchStep ==
  ASSUME RouterInv, NEW b \in Listeners \union {"detached"}, Refetched(b) \/ RefetchFails(b)
  PROVE  RouterInv'
<1>1. UNCHANGED <<url, queue, job, ranking, jobFailed>>
  BY DEF Refetched, RefetchFails
<1>2. strayed' \in BOOLEAN
  BY DEF Refetched, RefetchFails, RouterInv, Shapes
<1>3. Shapes' /\ JobDiscipline' /\ LastJob' /\ LastRanking'
  BY <1>1, <1>2 DEF RouterInv, Shapes, JobDiscipline, LastJob, LastRanking
<1>4. LastPage'
  <2>1. CASE Refetched(b) /\ b \in {"home", "movies", "booking"}
    <3> SUFFICES ASSUME url.kind = b PROVE body' = Shown(url.kind, url.n)
      BY <1>1, <2>1 DEF Refetched, LastPage, Shown
    <3>1. url \in Route /\ (b # "movies" => url.n = 1)
      BY <2>1, NumberOfOthers DEF RouterInv, Shapes, Lists, Details
    <3> QED
      BY <2>1, <3>1 DEF Refetched, NumberNow
  <2>2. CASE ~(Refetched(b) /\ b \in {"home", "movies", "booking"})
    <3>1. UNCHANGED <<body, strayed>> /\ ("home" \in background => "home" \in background')
      BY <2>2 DEF Refetched, RefetchFails, Listeners
    <3> QED
      BY <1>1, <3>1 DEF RouterInv, LastPage
  <2> QED
    BY <2>1, <2>2
<1> QED
  BY <1>3, <1>4 DEF RouterInv

LEMMA NextKeepsRouterInv == RouterInv /\ [RouterNext]_routerVars => RouterInv'
<1> SUFFICES ASSUME RouterInv, [RouterNext]_routerVars PROVE RouterInv'
  OBVIOUS
<1>1. CASE UNCHANGED routerVars
  BY <1>1 DEF RouterInv, Shapes, JobDiscipline, LastJob, LastPage, LastRanking
<1>2. CASE Step
  BY <1>2, StartStep, AssetStep, MountStep, AskStep, DrawStep, RankingStep, EndStep DEF Step
<1>3. CASE \/ \E r \in Route : Navigate(r)
           \/ Notice
           \/ \E b \in Listeners \union {"detached"} : Refetched(b) \/ RefetchFails(b)
  BY <1>3, NavigateStep, NoticeStep, RefetchStep
<1> QED
  BY <1>1, <1>2, <1>3 DEF RouterNext

LEMMA RouterInvariance == RouterSpec => []RouterInv
BY InitRouterInv, NextKeepsRouterInv, PTL DEF RouterSpec

-----------------------------------------------------------------------------
(* Theorems about PageRouter                                               *)

\* Once everything asked for has been rendered, the page is the one of the address bar.
THEOREM TheRouteIsShown == RouterSpec => []ShownIsRoute
<1>1. RouterInv => ShownIsRoute
  BY DEF RouterInv, LastPage, ShownIsRoute, Quiet
<1> QED
  BY <1>1, RouterInvariance, PTL

\* The ranking is never left below a page other than the home page.
THEOREM TheRankingStaysAtHome == RouterSpec => []RankingAtHomeOnly
<1>1. RouterInv => RankingAtHomeOnly
  BY DEF RouterInv, LastRanking, RankingAtHomeOnly, Quiet
<1> QED
  BY <1>1, RouterInvariance, PTL

=============================================================================
