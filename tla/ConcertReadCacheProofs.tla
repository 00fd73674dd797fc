-------------------------- MODULE ConcertReadCacheProofs --------------------------
(***************************************************************************)
(* Proofs about ConcertReadCache for any readers, pods, shows and seats    *)
(* and under every fault.                                                  *)
(***************************************************************************)
EXTENDS ConcertReadCache, TLAPS

\* What a thread does with a show of its own fill: it waits for the lock, or has it.
AtShow(t)  == \/ pc[t] \in {"lock", "again", "store"}
              \/ pc[t] \in {"members", "rows"} /\ ask[t] # All
Filling(t) == AtShow(t) /\ pc[t] # "lock"
Missed(t)  == Filling(t) /\ pc[t] # "again"

Places == {"new", "get", "lock", "again", "members", "rows", "store", "done"}

Shapes ==
  /\ active   \in [Show -> SUBSET Seat]
  /\ queued   \in [Show -> SUBSET Seat]
  /\ reserved \in [Show -> SUBSET Seat]
  /\ torn     \in [Show -> SUBSET Seat]
  /\ snapshot = [w \in Show |-> snapshot[w]]
  /\ lock     \in [Pod -> [Show -> Reader \union {Free}]]
  /\ pc       \in [Reader -> Places]
  /\ ask      \in [Reader -> Show \union {All}]
  /\ todo     \in [Reader -> SUBSET Show]
  /\ at       = [t \in Reader |-> at[t]]
  /\ keys     = [t \in Reader |-> keys[t]]
  /\ due      \in [Reader -> [Show -> SUBSET Seat]]
  /\ \A t \in Reader : AtShow(t) => at[t] \in Show

\* A reserved set that has members has all seats that are booked or will be, but for
\* those torn from it.
ReservedIsWhole ==
  \A w \in Show : reserved[w] # {} => Booked(w) \subseteq reserved[w] \union torn[w]

DueIsBooked == \A t \in Reader, w \in Show : due[t][w] \subseteq active[w]

\* The keys that a GET has read cover what they have to.
KeysCoverDue ==
  \A t \in Reader :
    /\ pc[t] # "rows" => \A w \in Show : due[t][w] \subseteq keys[t][w].shown \union torn[w]
    /\ pc[t] = "rows" => \A w \in Show \ todo[t] : due[t][w] = {}

SeatsInv == Shapes /\ ReservedIsWhole /\ DueIsBooked /\ KeysCoverDue

\* Who fills has the lock, and nobody of his pod has filled since he looked again.
LockDiscipline ==
  \A t \in Reader :
    /\ Filling(t) => lock[PodOf[t]][at[t]] = t
    /\ Missed(t) => snapshot[at[t]] = Missing \/ snapshot[at[t]].by # PodOf[t]

USE NamesAssumption DEF rows, seats, writeVars, readVars, vars, AtShow, Filling, Missed

-----------------------------------------------------------------------------
(* Shapes                                                                  *)

LEMMA PodsOfReaders == \A t \in Reader : PodOf[t] \in Pod
BY DEF Pod

LEMMA UnlockShape ==
  ASSUME Shapes, NEW t, Unlock(t)
  PROVE  /\ lock' \in [Pod -> [Show -> Reader \union {Free}]]
         /\ \A p \in Pod, w \in Show : lock[p][w] # t => lock'[p][w] = lock[p][w]
BY DEF Shapes, Unlock

LEMMA ForgetShape ==
  ASSUME Shapes, NEW t \in Reader, NEW W, Forget(t, W)
  PROVE  /\ keys' = [u \in Reader |-> keys'[u]]
         /\ due' \in [Reader -> [Show -> SUBSET Seat]]
         /\ \A u \in Reader \ {t} : due'[u] = due[u] /\ keys'[u] = keys[u]
         /\ \A w \in Show : due'[t][w] = IF w \in W THEN {} ELSE due[t][w]
         /\ \A w \in Show \ W : keys'[t][w] = keys[t][w]
BY DEF Shapes, Forget

-----------------------------------------------------------------------------
(* The write path                                                          *)

Requests(w, s) == Accept(w, s) \/ HoldInVain(w, s) \/ Release(w, s) \/ ReleaseFails(w, s)

Writes == \/ \E w \in Show, s \in Seat : Requests(w, s) \/ Book(w, s) \/ Refuse(w, s) \/ ExpireHold(w, s)
          \/ \E w \in Show : DropSnapshot(w) \/ ExpireReserved(w)
          \/ Flush

\* None of them is a step of a GET, or fills a snapshot.
LEMMA WritesSpareGets ==
  ASSUME Shapes, Writes
  PROVE  /\ UNCHANGED readVars
         /\ snapshot' = [w \in Show |-> snapshot'[w]]
         /\ \A w \in Show : snapshot'[w] \in {Missing, snapshot[w]}
<1>1. CASE UNCHANGED <<readVars, snapshot>>
  BY <1>1 DEF Shapes
<1>2. ASSUME NEW w \in Show, DropSnapshot(w)
      PROVE  /\ UNCHANGED readVars
             /\ snapshot' = [v \in Show |-> snapshot'[v]]
             /\ \A v \in Show : snapshot'[v] \in {Missing, snapshot[v]}
  BY <1>2 DEF DropSnapshot, Shapes
<1>3. CASE Flush
  BY <1>3 DEF Flush
<1>4. ASSUME NEW w \in Show, NEW s \in Seat,
             Requests(w, s) \/ Book(w, s) \/ Refuse(w, s) \/ ExpireHold(w, s)
      PROVE  UNCHANGED <<readVars, snapshot>>
  BY <1>4 DEF Requests, Accept, HoldInVain, Release, ReleaseFails, Book, Refuse, ExpireHold
<1>5. ASSUME NEW w \in Show, ExpireReserved(w) PROVE UNCHANGED <<readVars, snapshot>>
  BY <1>5 DEF ExpireReserved
<1> QED
  BY <1>1, <1>2, <1>3, <1>4, <1>5 DEF Writes

\* What a step of the write path leaves behind.
WriteShapes ==
  /\ active   \in [Show -> SUBSET Seat]
  /\ queued   \in [Show -> SUBSET Seat]
  /\ reserved \in [Show -> SUBSET Seat]
  /\ torn     \in [Show -> SUBSET Seat]

Kept == \A w \in Show : torn[w] \subseteq torn'[w] /\ active[w] \subseteq active'[w]

LEMMA AcceptStep ==
  ASSUME WriteShapes, ReservedIsWhole, NEW w \in Show, NEW s \in Seat, Accept(w, s)
  PROVE  WriteShapes' /\ ReservedIsWhole' /\ Kept
<1>1. /\ reserved' = [reserved EXCEPT ![w] = @ \union {s}]
      /\ queued' = [queued EXCEPT ![w] = @ \union {s}]
      /\ torn' = IF reserved[w] = {} THEN [torn EXCEPT ![w] = @ \union (Booked(w) \ {s})] ELSE torn
      /\ active' = active
  BY DEF Accept
<1>2. Booked(w) \subseteq Seat
  BY DEF Booked, WriteShapes
<1>3. WriteShapes'
  BY <1>1, <1>2 DEF WriteShapes
<1>4. /\ \A v \in Show \ {w} : /\ reserved'[v] = reserved[v] /\ torn'[v] = torn[v]
                              /\ queued'[v] = queued[v]
      /\ reserved'[w] = reserved[w] \union {s} /\ queued'[w] = queued[w] \union {s}
      /\ torn'[w] = IF reserved[w] = {} THEN torn[w] \union (Booked(w) \ {s}) ELSE torn[w]
  BY <1>1 DEF WriteShapes
<1>5. ReservedIsWhole' /\ Kept
  BY <1>1, <1>4 DEF ReservedIsWhole, Booked, Kept
<1> QED
  BY <1>3, <1>5

LEMMA ReleaseStep ==
  ASSUME WriteShapes, ReservedIsWhole, NEW w \in Show, NEW s \in Seat, Release(w, s)
  PROVE  WriteShapes' /\ ReservedIsWhole' /\ Kept
<1>1. /\ reserved' = [reserved EXCEPT ![w] = @ \ {s}]
      /\ torn' = IF s \in reserved[w] \intersect Booked(w) THEN [torn EXCEPT ![w] = @ \union {s}] ELSE torn
      /\ UNCHANGED <<active, queued>>
  BY DEF Release
<1>2. WriteShapes'
  BY <1>1 DEF WriteShapes
<1>3. /\ \A v \in Show \ {w} : reserved'[v] = reserved[v] /\ torn'[v] = torn[v]
      /\ reserved'[w] = reserved[w] \ {s}
      /\ torn'[w] = IF s \in reserved[w] \intersect Booked(w) THEN torn[w] \union {s} ELSE torn[w]
  BY <1>1 DEF WriteShapes
<1>4. ReservedIsWhole' /\ Kept
  BY <1>1, <1>3 DEF ReservedIsWhole, Booked, Kept
<1> QED
  BY <1>2, <1>4

LEMMA RowStep ==
  ASSUME WriteShapes, ReservedIsWhole, NEW w \in Show, NEW s \in Seat, Book(w, s) \/ Refuse(w, s)
  PROVE  WriteShapes' /\ ReservedIsWhole' /\ Kept
<1>1. /\ UNCHANGED <<reserved, torn>>
      /\ queued' = [queued EXCEPT ![w] = @ \ {s}]
      /\ active' \in {active, [active EXCEPT ![w] = @ \union {s}]}
      /\ s \in queued[w]
  BY DEF Book, Refuse
<1>2. WriteShapes'
  BY <1>1 DEF WriteShapes
<1>3. \A v \in Show : Booked(v)' \subseteq Booked(v) /\ active[v] \subseteq active'[v]
  BY <1>1 DEF WriteShapes, Booked
<1> QED
  BY <1>1, <1>2, <1>3 DEF ReservedIsWhole, Kept

LEMMA WriteStep ==
  ASSUME SeatsInv, Writes
  PROVE  SeatsInv'
<1>1. /\ UNCHANGED readVars
      /\ snapshot' = [w \in Show |-> snapshot'[w]]
  BY WritesSpareGets DEF SeatsInv
<1>2. WriteShapes /\ ReservedIsWhole
  BY DEF SeatsInv, Shapes, WriteShapes
<1>3. WriteShapes' /\ ReservedIsWhole' /\ Kept
  <2>1. ASSUME NEW w \in Show, NEW s \in Seat, Accept(w, s) \/ Release(w, s) \/ Book(w, s) \/ Refuse(w, s)
        PROVE  WriteShapes' /\ ReservedIsWhole' /\ Kept
    BY <1>2, <2>1, AcceptStep, ReleaseStep, RowStep
  <2>2. CASE UNCHANGED <<active, queued, reserved, torn>>
    BY <1>2, <2>2 DEF WriteShapes, ReservedIsWhole, Booked, Kept
  <2>3. ASSUME NEW w \in Show, ExpireReserved(w) PROVE WriteShapes' /\ ReservedIsWhole' /\ Kept
    BY <1>2, <2>3 DEF ExpireReserved, WriteShapes, ReservedIsWhole, Booked, Kept
  <2>4. CASE Flush
    BY <1>2, <2>4 DEF Flush, WriteShapes, ReservedIsWhole, Booked, Kept
  <2>5. ASSUME NEW w \in Show, NEW s \in Seat,
               HoldInVain(w, s) \/ ReleaseFails(w, s) \/ ExpireHold(w, s) \/ DropSnapshot(w)
        PROVE  UNCHANGED <<active, queued, reserved, torn>>
    BY <2>5 DEF HoldInVain, ReleaseFails, ExpireHold, DropSnapshot
  <2>6. ASSUME NEW w \in Show, DropSnapshot(w) PROVE UNCHANGED <<active, queued, reserved, torn>>
    BY <2>6 DEF DropSnapshot
  <2> QED
    BY <2>1, <2>2, <2>3, <2>4, <2>5, <2>6 DEF Writes, Requests
<1>4. Shapes'
  BY <1>1, <1>3 DEF SeatsInv, Shapes, WriteShapes
<1>5. DueIsBooked' /\ KeysCoverDue'
  BY <1>1, <1>3 DEF SeatsInv, DueIsBooked, KeysCoverDue, Kept
<1> QED
  BY <1>3, <1>4, <1>5 DEF SeatsInv

LEMMA RefundStep ==
  ASSUME SeatsInv, NEW w \in Show, NEW s \in Seat, Refund(w, s)
  PROVE  SeatsInv'
<1>1. /\ active' = [active EXCEPT ![w] = @ \ {s}]
      /\ due' = [t \in Reader |-> [due[t] EXCEPT ![w] = @ \ {s}]]
      /\ UNCHANGED <<queued, reserved, torn, snapshot, lock, pc, ask, todo, at, keys>>
  BY DEF Refund
<1>2. \A t \in Reader, v \in Show : due'[t][v] = IF v = w THEN due[t][v] \ {s} ELSE due[t][v]
  BY <1>1 DEF SeatsInv, Shapes
<1>3. Shapes'
  BY <1>1 DEF SeatsInv, Shapes
<1>4. ReservedIsWhole' /\ DueIsBooked'
  <2>1. \A v \in Show : active'[v] = IF v = w THEN active[v] \ {s} ELSE active[v]
    BY <1>1 DEF SeatsInv, Shapes
  <2>2. ReservedIsWhole'
    BY <1>1, <2>1 DEF SeatsInv, ReservedIsWhole, Booked
  <2>3. DueIsBooked'
    BY <1>2, <2>1 DEF SeatsInv, DueIsBooked
  <2> QED
    BY <2>2, <2>3
<1>5. KeysCoverDue'
  BY <1>1, <1>2 DEF SeatsInv, KeysCoverDue
<1> QED
  BY <1>3, <1>4, <1>5 DEF SeatsInv

-----------------------------------------------------------------------------
(* The GETs                                                                *)

\* What the invariant says of one GET, and what the others keep.
InOrder(t) ==
  /\ AtShow(t) => at[t] \in Show
  /\ \A w \in Show : due[t][w] \subseteq active[w]
  /\ pc[t] # "rows" => \A w \in Show : due[t][w] \subseteq keys[t][w].shown \union torn[w]
  /\ pc[t] = "rows" => \A w \in Show \ todo[t] : due[t][w] = {}

Others(t) ==
  \A u \in Reader \ {t} : /\ pc'[u] = pc[u] /\ ask'[u] = ask[u] /\ todo'[u] = todo[u]
                          /\ at'[u] = at[u] /\ keys'[u] = keys[u] /\ due'[u] = due[u]

ReadShapes ==
  /\ snapshot = [w \in Show |-> snapshot[w]]
  /\ lock \in [Pod -> [Show -> Reader \union {Free}]]
  /\ pc   \in [Reader -> Places]
  /\ ask  \in [Reader -> Show \union {All}]
  /\ todo \in [Reader -> SUBSET Show]
  /\ at   = [u \in Reader |-> at[u]]
  /\ keys = [u \in Reader |-> keys[u]]
  /\ due  \in [Reader -> [Show -> SUBSET Seat]]

LEMMA GetFacts ==
  ASSUME SeatsInv
  PROVE  ReadShapes /\ \A t \in Reader : InOrder(t)
BY DEF SeatsInv, Shapes, DueIsBooked, KeysCoverDue, Places, InOrder, ReadShapes

\* A step of one GET keeps the invariant if what it has itself is in order afterwards.
LEMMA OneGet ==
  ASSUME SeatsInv, NEW t \in Reader,
         UNCHANGED writeVars, ReadShapes', InOrder(t)', Others(t)
  PROVE  SeatsInv'
<1>1. \A u \in Reader : InOrder(u)'
  BY GetFacts DEF InOrder, Others
<1>2. Shapes'
  BY <1>1 DEF SeatsInv, Shapes, ReadShapes, InOrder, Places
<1>3. ReservedIsWhole'
  BY DEF SeatsInv, ReservedIsWhole, Booked
<1>4. DueIsBooked' /\ KeysCoverDue'
  BY <1>1 DEF DueIsBooked, KeysCoverDue, InOrder
<1> QED
  BY <1>2, <1>3, <1>4 DEF SeatsInv

LEMMA AskStep ==
  ASSUME SeatsInv, NEW t \in Reader, AskAll(t) \/ \E w \in Show : AskOne(t, w)
  PROVE  SeatsInv'
<1>1. PICK a \in Show \union {All}, T \in SUBSET Show, there \in {"get", "members", "done"} :
        /\ ask' = [ask EXCEPT ![t] = a]
        /\ todo' = [todo EXCEPT ![t] = T]
        /\ pc' = [pc EXCEPT ![t] = there]
        /\ there = "members" => a = All
  BY DEF AskAll, AskOne, Goto
<1>2. pc[t] = "new" /\ UNCHANGED <<writeVars, snapshot, lock, at, keys, due>>
  BY DEF AskAll, AskOne
<1>3. ReadShapes'
  BY <1>1, <1>2, GetFacts DEF ReadShapes, Places
<1>4. pc'[t] = there /\ ask'[t] = a /\ Others(t)
  BY <1>1, <1>2, GetFacts DEF ReadShapes, Others
<1>5. InOrder(t)'
  BY <1>1, <1>2, <1>4, GetFacts DEF InOrder
<1> QED
  BY <1>2, <1>3, <1>4, <1>5, OneGet

\* Served, or an exception: what was read about the shows W is not used again.
LEMMA GivenUpStep ==
  ASSUME SeatsInv, NEW t \in Reader, NEW W,
         pc[t] # "rows" \/ W = Show,
         Forget(t, W),
         NEW T \in SUBSET Show, todo' = [todo EXCEPT ![t] = T],
         NEW there \in {"get", "done"}, pc' = [pc EXCEPT ![t] = there],
         snapshot' = [w \in Show |-> snapshot'[w]],
         lock' \in [Pod -> [Show -> Reader \union {Free}]],
         UNCHANGED <<writeVars, ask, at>>
  PROVE  SeatsInv'
<1>1. /\ keys' = [u \in Reader |-> keys'[u]]
      /\ due' \in [Reader -> [Show -> SUBSET Seat]]
      /\ \A u \in Reader \ {t} : due'[u] = due[u] /\ keys'[u] = keys[u]
      /\ \A w \in Show : due'[t][w] = IF w \in W THEN {} ELSE due[t][w]
      /\ \A w \in Show \ W : keys'[t][w] = keys[t][w]
  BY ForgetShape DEF SeatsInv
<1>2. ReadShapes'
  BY <1>1, GetFacts DEF ReadShapes, Places
<1>3. pc'[t] = there /\ Others(t)
  BY <1>1, GetFacts DEF ReadShapes, Others
<1>4. InOrder(t)'
  BY <1>1, <1>3, GetFacts DEF InOrder
<1> QED
  BY <1>2, <1>3, <1>4, OneGet

LEMMA ServedStep ==
  ASSUME SeatsInv, NEW t \in Reader, NEW w, Served(t, w),
         pc[t] # "rows",
         snapshot' = [v \in Show |-> snapshot'[v]],
         lock' \in [Pod -> [Show -> Reader \union {Free}]],
         UNCHANGED <<writeVars, ask, at>>
  PROVE  SeatsInv'
<1>1. PICK there \in {"get", "done"} : pc' = [pc EXCEPT ![t] = there]
  BY DEF Served, Goto
<1>2. todo' = [todo EXCEPT ![t] = todo[t] \ {w}] /\ Forget(t, {w})
  BY DEF Served
<1>3. todo[t] \ {w} \in SUBSET Show
  BY GetFacts DEF ReadShapes
<1> QED
  BY <1>1, <1>2, <1>3, GivenUpStep

\* A GET that goes on with what it has.
LEMMA MoveStep ==
  ASSUME SeatsInv, NEW t \in Reader, pc[t] # "rows",
         NEW there \in Places \ {"rows"}, pc' = [pc EXCEPT ![t] = there],
         NEW w, at' = [at EXCEPT ![t] = w] \/ UNCHANGED at,
         AtShow(t)' => at'[t] \in Show,
         lock' \in [Pod -> [Show -> Reader \union {Free}]],
         UNCHANGED <<writeVars, snapshot, ask, todo, keys, due>>
  PROVE  SeatsInv'
<1>1. ReadShapes'
  BY GetFacts DEF ReadShapes
<1>2. pc'[t] = there /\ Others(t)
  BY GetFacts DEF ReadShapes, Others
<1>3. InOrder(t)'
  BY <1>2, GetFacts DEF InOrder
<1> QED
  BY <1>1, <1>2, <1>3, OneGet

LEMMA ReadMembersStep ==
  ASSUME SeatsInv, NEW t \in Reader, ReadMembers(t)
  PROVE  SeatsInv'
<1> USE DEF ReadMembers
<1>1. PICK failed \in SUBSET todo[t] :
        /\ keys' = [keys EXCEPT ![t] = [w \in Show |->
                      Listing(IF w \in todo[t] \ failed THEN reserved[w] ELSE {})]]
        /\ IF \A w \in todo[t] : w \notin failed /\ reserved[w] # {}
             THEN KeysRead(t) ELSE Goto(t, "rows")
  <2> DEFINE found(failed) == [w \in Show |-> IF w \in todo[t] \ failed THEN reserved[w] ELSE {}]
  <2>1. todo[t] \subseteq Show
    BY GetFacts DEF ReadShapes
  <2>2. PICK failed \in SUBSET todo[t] :
          /\ keys' = [keys EXCEPT ![t] = [w \in Show |-> Listing(found(failed)[w])]]
          /\ IF \A w \in todo[t] : found(failed)[w] # {} THEN KeysRead(t) ELSE Goto(t, "rows")
    OBVIOUS
  <2>3. \A w \in Show : found(failed)[w] = IF w \in todo[t] \ failed THEN reserved[w] ELSE {}
    OBVIOUS
  <2>4. keys' = [keys EXCEPT ![t] = [w \in Show |->
                      Listing(IF w \in todo[t] \ failed THEN reserved[w] ELSE {})]]
    BY <2>2
  <2>5. (\A w \in todo[t] : found(failed)[w] # {})
          <=> (\A w \in todo[t] : w \notin failed /\ reserved[w] # {})
    BY <2>1, <2>3
  <2> HIDE DEF found
  <2> QED
    BY <2>2, <2>4, <2>5
<1>2. PICK there \in {"get", "store", "rows"} :
        /\ pc' = [pc EXCEPT ![t] = there]
        /\ there = "rows" \/ \A w \in todo[t] : w \notin failed /\ reserved[w] # {}
        /\ there = "store" => ask[t] # All
  BY <1>1 DEF KeysRead, Goto
<1>3. pc[t] = "members" /\ UNCHANGED <<writeVars, snapshot, lock, ask, todo, at>>
  OBVIOUS
<1>4. due' = [due EXCEPT ![t] = [w \in Show |-> IF w \in todo[t] THEN active[w] ELSE {}]]
  OBVIOUS
<1>5. ReadShapes'
  <2>1. active \in [Show -> SUBSET Seat]
    BY DEF SeatsInv, Shapes
  <2> QED
    <3>1. pc' \in [Reader -> Places] /\ keys' = [u \in Reader |-> keys'[u]]
      BY <1>1, <1>2, GetFacts DEF ReadShapes, Places
    <3>2. due' \in [Reader -> [Show -> SUBSET Seat]]
      BY <1>4, <2>1, GetFacts DEF ReadShapes
    <3> QED
      BY <1>3, <3>1, <3>2, GetFacts DEF ReadShapes
<1>6. pc'[t] = there /\ Others(t)
  BY <1>1, <1>2, <1>3, <1>4, GetFacts DEF ReadShapes, Others
<1>7. /\ \A w \in Show : due'[t][w] = IF w \in todo[t] THEN active[w] ELSE {}
      /\ \A w \in Show : keys'[t][w].shown = IF w \in todo[t] \ failed THEN reserved[w] ELSE {}
  <2>1. \A w \in Show : due'[t][w] = IF w \in todo[t] THEN active[w] ELSE {}
    BY <1>4, GetFacts DEF ReadShapes
  <2>2. keys'[t] = [w \in Show |-> Listing(IF w \in todo[t] \ failed THEN reserved[w] ELSE {})]
    BY <1>1, GetFacts DEF ReadShapes
  <2>3. \A S : Listing(S).shown = S
    BY DEF Listing
  <2> HIDE DEF Listing
  <2>4. \A w \in Show : keys'[t][w] = Listing(IF w \in todo[t] \ failed THEN reserved[w] ELSE {})
    BY <2>2
  <2> QED
    BY <2>1, <2>3, <2>4
<1>8. AtShow(t)' => at'[t] \in Show
  BY <1>2, <1>3, <1>6, GetFacts DEF InOrder
<1>9. there # "rows" => \A w \in Show : due'[t][w] \subseteq keys'[t][w].shown \union torn[w]
  BY <1>2, <1>7 DEF SeatsInv, ReservedIsWhole, Booked
<1>10. InOrder(t)'
  BY <1>3, <1>6, <1>7, <1>8, <1>9 DEF InOrder
<1> QED
  BY <1>3, <1>5, <1>6, <1>10, OneGet

LEMMA ReadRowsStep ==
  ASSUME SeatsInv, NEW t \in Reader, ReadRows(t)
  PROVE  SeatsInv'
<1> USE DEF ReadRows
<1>1. PICK there \in {"get", "store"} :
        pc' = [pc EXCEPT ![t] = there] /\ (there = "store" => ask[t] # All)
  BY DEF KeysRead, Goto
<1>2. pc[t] = "rows" /\ UNCHANGED <<writeVars, snapshot, lock, ask, todo, at, due>>
  OBVIOUS
<1>3. ReadShapes' /\ Others(t)
  BY <1>1, <1>2, GetFacts DEF ReadShapes, Places, Others
<1>4. pc'[t] = there
  BY <1>1, GetFacts DEF ReadShapes
<1>5. \A w \in todo[t] : active[w] \subseteq keys'[t][w].shown
  <2>1. \A w \in Show :
          keys'[t][w] = IF w \in todo[t] THEN Appended(keys[t][w], active[w]) ELSE NoKeys
    BY GetFacts DEF ReadShapes
  <2> QED
    BY <2>1, GetFacts DEF ReadShapes, Appended
<1>6. InOrder(t)'
  BY <1>1, <1>2, <1>4, <1>5, GetFacts DEF InOrder
<1> QED
  BY <1>2, <1>3, <1>6, OneGet

LEMMA FillStep ==
  ASSUME SeatsInv, NEW t \in Reader,
         (\E w \in Show : Get(t, w)) \/ Lock(t) \/ GetAgain(t) \/ Store(t) \/ Raise(t)
  PROVE  SeatsInv'
<1>1. ReadShapes /\ InOrder(t)
  BY GetFacts
<1>2. Unlock(t) => lock' \in [Pod -> [Show -> Reader \union {Free}]]
  BY UnlockShape DEF SeatsInv
<1>3. ASSUME NEW w \in Show, Get(t, w) PROVE SeatsInv'
  <2>1. CASE snapshot[w] # Missing /\ Served(t, w) /\ UNCHANGED at
    <3>1. /\ snapshot' = [v \in Show |-> snapshot'[v]] /\ UNCHANGED <<writeVars, ask, at>>
          /\ pc[t] # "rows" /\ lock' \in [Pod -> [Show -> Reader \union {Free}]]
      BY <1>1, <1>3, <2>1 DEF Get, ReadShapes
    <3> QED
      BY <2>1, <3>1, ServedStep
  <2>2. CASE /\ at' = [at EXCEPT ![t] = w]
             /\ Goto(t, "lock")
             /\ UNCHANGED <<todo, keys, due>>
    <3>1. at'[t] = w
      BY <1>1, <2>2 DEF ReadShapes
    <3> QED
      BY <1>1, <1>3, <2>2, <3>1, MoveStep DEF Get, Goto, ReadShapes, Places
  <2> QED
    BY <1>3, <2>1, <2>2 DEF Get
<1>4. CASE Lock(t)
  <2>1. lock' \in [Pod -> [Show -> Reader \union {Free}]]
    BY <1>1, <1>4 DEF Lock, ReadShapes
  <2>2. pc[t] = "lock" /\ at[t] \in Show
    BY <1>1, <1>4 DEF Lock, InOrder
  <2> QED
    BY <1>4, <2>1, <2>2, MoveStep DEF Lock, Goto, Places
<1>5. CASE GetAgain(t)
  <2>1. CASE Served(t, at[t]) /\ Unlock(t)
    <3>1. snapshot' = [w \in Show |-> snapshot'[w]] /\ UNCHANGED <<writeVars, ask, at>> /\ pc[t] # "rows"
      BY <1>1, <1>5 DEF GetAgain, ReadShapes
    <3> QED
      BY <1>2, <2>1, <3>1, ServedStep
  <2>2. CASE /\ Goto(t, IF ask[t] = All THEN "store" ELSE "members")
             /\ UNCHANGED <<todo, lock, keys, due>>
    <3>1. PICK there \in {"store", "members"} : pc' = [pc EXCEPT ![t] = there]
      BY <2>2 DEF Goto
    <3>2. pc[t] = "again" /\ at[t] \in Show /\ UNCHANGED at
      BY <1>1, <1>5 DEF GetAgain, InOrder
    <3> QED
      BY <1>1, <1>5, <2>2, <3>1, <3>2, MoveStep DEF GetAgain, ReadShapes, Places
  <2> QED
    BY <1>5, <2>1, <2>2 DEF GetAgain
<1>6. CASE Store(t)
  <2>1. snapshot' = [w \in Show |-> snapshot'[w]]
    BY <1>1, <1>6 DEF Store, ReadShapes
  <2> QED
    BY <1>2, <1>6, <2>1, ServedStep DEF Store
<1>7. CASE Raise(t)
  <2>1. todo' = [todo EXCEPT ![t] = todo[t]] /\ todo[t] \in SUBSET Show
    BY <1>1, <1>7 DEF Raise, ReadShapes
  <2>2. snapshot' = [w \in Show |-> snapshot'[w]]
    BY <1>1, <1>7 DEF Raise, ReadShapes
  <2>3. Forget(t, Show) /\ pc' = [pc EXCEPT ![t] = "done"]
    BY <1>7 DEF Raise, Goto
  <2> QED
    BY <1>1, <1>2, <1>7, <2>1, <2>2, <2>3, GivenUpStep DEF Raise, Goto
<1> QED
  BY <1>3, <1>4, <1>5, <1>6, <1>7

LEMMA NextKeepsSeatsInv == SeatsInv /\ [Next]_vars => SeatsInv'
<1> SUFFICES ASSUME SeatsInv, [Next]_vars PROVE SeatsInv'
  OBVIOUS
<1>1. CASE UNCHANGED vars
  <2>1. Shapes'
    BY <1>1 DEF SeatsInv, Shapes
  <2>2. ReservedIsWhole' /\ DueIsBooked'
    BY <1>1 DEF SeatsInv, ReservedIsWhole, Booked, DueIsBooked
  <2>3. KeysCoverDue'
    BY <1>1 DEF SeatsInv, KeysCoverDue
  <2> QED
    BY <2>1, <2>2, <2>3 DEF SeatsInv
<1>2. CASE Writes \/ \E w \in Show, s \in Seat : Refund(w, s)
  BY <1>2, WriteStep, RefundStep
<1>3. CASE \/ \E t \in Reader, w \in Show : AskOne(t, w)
           \/ \E t \in Reader : AskAll(t) \/ Fill(t) \/ Raise(t)
  BY <1>3, AskStep, ReadMembersStep, ReadRowsStep, FillStep DEF Fill
<1> QED
  BY <1>1, <1>2, <1>3 DEF Next, Writes, Requests

LEMMA InitSeatsInv == Init => SeatsInv
BY DEF Init, SeatsInv, Shapes, Places, ReservedIsWhole, Booked, DueIsBooked, KeysCoverDue, NoKeys

\* A fill stores a map with every seat that was booked before it began to read, but for
\* those torn from the reserved set, whatever fails, expires or is flushed.
THEOREM BookedSeatsAreCovered == Spec => []BookedShownUnlessTorn
<1>1. SeatsInv => BookedShownUnlessTorn
  BY DEF SeatsInv, Shapes, KeysCoverDue, BookedShownUnlessTorn
<1> QED
  BY <1>1, InitSeatsInv, NextKeepsSeatsInv, PTL DEF Spec

-----------------------------------------------------------------------------
(* Locks                                                                   *)

\* LockDiscipline, of one GET.
Own(t) ==
  /\ Filling(t) => lock[PodOf[t]][at[t]] = t
  /\ Missed(t) => snapshot[at[t]] = Missing \/ snapshot[at[t]].by # PodOf[t]

\* A step of one GET keeps the discipline if it takes no lock from another one and
\* stores nothing of its pod over what another one has missed.
LEMMA OneLock ==
  ASSUME SeatsInv, LockDiscipline, NEW t \in Reader, Others(t), Own(t)',
         \A p \in Pod, w \in Show : lock[p][w] \in Reader \ {t} => lock'[p][w] = lock[p][w],
         \A u \in Reader \ {t} : Missed(u) =>
           snapshot'[at[u]] \in {Missing, snapshot[at[u]]} \/ snapshot'[at[u]].by # PodOf[u]
  PROVE  LockDiscipline'
<1>1. \A u \in Reader : Filling(u) => at[u] \in Show /\ PodOf[u] \in Pod
  BY GetFacts, PodsOfReaders DEF InOrder
<1>2. ASSUME NEW u \in Reader \ {t} PROVE Own(u)'
  <2>1. Filling(u)' = Filling(u) /\ Missed(u)' = Missed(u) /\ at'[u] = at[u]
    BY DEF Others
  <2>2. Filling(u) => lock[PodOf[u]][at[u]] = u /\ lock'[PodOf[u]][at[u]] = u
    BY <1>1 DEF LockDiscipline
  <2>3. Missed(u) => snapshot'[at[u]] = Missing \/ snapshot'[at[u]].by # PodOf[u]
    BY DEF LockDiscipline
  <2> QED
    BY <2>1, <2>2, <2>3 DEF Own
<1> QED
  BY <1>2 DEF LockDiscipline, Own

LEMMA OthersKeep ==
  ASSUME SeatsInv, NEW t \in Reader,
         \/ AskAll(t) \/ Fill(t) \/ Raise(t)
         \/ \E w \in Show : AskOne(t, w)
  PROVE  Others(t)
<1> USE GetFacts DEF ReadShapes, Others, Goto
<1>1. ASSUME NEW W, Forget(t, W)
      PROVE  \A u \in Reader \ {t} : due'[u] = due[u] /\ keys'[u] = keys[u]
  BY <1>1, ForgetShape DEF SeatsInv
<1>2. ASSUME NEW w, Served(t, w), UNCHANGED <<ask, at>> PROVE Others(t)
  BY <1>1, <1>2 DEF Served
<1>3. CASE AskAll(t)
  BY <1>3 DEF AskAll
<1>4. ASSUME NEW w \in Show, AskOne(t, w) PROVE Others(t)
  BY <1>4 DEF AskOne
<1>5. ASSUME NEW w \in Show, Get(t, w) PROVE Others(t)
  BY <1>2, <1>5 DEF Get
<1>6. CASE Lock(t)
  BY <1>6 DEF Lock
<1>7. CASE GetAgain(t)
  BY <1>2, <1>7 DEF GetAgain
<1>8. CASE ReadMembers(t)
  BY <1>8 DEF ReadMembers, KeysRead
<1>9. CASE ReadRows(t)
  BY <1>9 DEF ReadRows, KeysRead
<1>10. CASE Store(t)
  BY <1>2, <1>10 DEF Store
<1>11. CASE Raise(t)
  BY <1>1, <1>11 DEF Raise
<1> QED
  BY <1>3, <1>4, <1>5, <1>6, <1>7, <1>8, <1>9, <1>10, <1>11 DEF Fill

LEMMA WriteLocks ==
  ASSUME SeatsInv, LockDiscipline, Writes \/ \E w \in Show, s \in Seat : Refund(w, s)
  PROVE  LockDiscipline'
<1>1. UNCHANGED <<lock, pc, ask, at>> /\ \A w \in Show : snapshot'[w] \in {Missing, snapshot[w]}
  BY WritesSpareGets DEF SeatsInv, Refund
<1>2. \A t \in Reader : Missed(t) => at[t] \in Show
  BY GetFacts DEF InOrder
<1> QED
  BY <1>1, <1>2 DEF LockDiscipline

\* Steps of a GET that neither store nor end in a lock.
LEMMA ReadLocks ==
  ASSUME SeatsInv, LockDiscipline, NEW t \in Reader,
         \/ AskAll(t) \/ ReadMembers(t) \/ ReadRows(t)
         \/ \E w \in Show : AskOne(t, w) \/ Get(t, w)
  PROVE  LockDiscipline'
<1>1. UNCHANGED <<lock, snapshot>>
  BY DEF AskAll, ReadMembers, ReadRows, AskOne, Get
<1>2. Others(t)
  BY OthersKeep DEF Fill
<1>3. Own(t)'
  <2> USE GetFacts DEF ReadShapes, Own, Goto
  <2>1. CASE AskAll(t) \/ \E w \in Show : AskOne(t, w)
    BY <2>1 DEF AskAll, AskOne
  <2>2. ASSUME NEW w \in Show, Get(t, w) PROVE ~Filling(t)'
    BY <2>2 DEF Get, Served
  <2>3. CASE ReadMembers(t) \/ ReadRows(t)
    <3>1. /\ pc'[t] \in {"get", "store", "rows"} /\ (pc'[t] = "store" => ask[t] # All)
          /\ pc[t] \in {"members", "rows"} /\ UNCHANGED <<ask, at>>
      BY <2>3 DEF ReadMembers, ReadRows, KeysRead
    <3>2. Filling(t)' => Missed(t)
      BY <3>1
    <3> QED
      BY <1>1, <3>1, <3>2 DEF LockDiscipline
  <2> QED
    BY <2>1, <2>2, <2>3
<1> QED
  BY <1>1, <1>2, <1>3, OneLock

LEMMA LockLocks ==
  ASSUME SeatsInv, LockDiscipline, NEW t \in Reader, Lock(t)
  PROVE  LockDiscipline'
<1>1. pc[t] = "lock" /\ at[t] \in Show /\ PodOf[t] \in Pod
  BY GetFacts, PodsOfReaders DEF Lock, InOrder
<1>2. /\ pc' = [pc EXCEPT ![t] = "again"]
      /\ lock' = [lock EXCEPT ![PodOf[t]][at[t]] = t]
      /\ lock[PodOf[t]][at[t]] = Free
      /\ UNCHANGED <<snapshot, ask, todo, at, keys, due>>
  BY DEF Lock, Goto
<1>3. Others(t) /\ pc'[t] = "again"
  BY <1>2, GetFacts DEF Others, ReadShapes
<1>4. lock'[PodOf[t]][at[t]] = t
  BY <1>1, <1>2, GetFacts DEF ReadShapes
<1>5. \A p \in Pod, w \in Show : lock[p][w] \in Reader \ {t} => lock'[p][w] = lock[p][w]
  BY <1>1, <1>2, GetFacts DEF ReadShapes
<1>6. Own(t)'
  BY <1>2, <1>3, <1>4 DEF Own
<1> QED
  BY <1>2, <1>3, <1>5, <1>6, OneLock

LEMMA FillLocks ==
  ASSUME SeatsInv, LockDiscipline, NEW t \in Reader, GetAgain(t) \/ Store(t) \/ Raise(t)
  PROVE  LockDiscipline'
<1>1. ReadShapes /\ (AtShow(t) => at[t] \in Show) /\ PodOf[t] \in Pod
  BY GetFacts, PodsOfReaders DEF InOrder
<1>2. \A p \in Pod, w \in Show : lock[p][w] \in Reader \ {t} => lock'[p][w] = lock[p][w]
  <2>1. Unlock(t) \/ UNCHANGED lock
    BY DEF GetAgain, Store, Raise
  <2> QED
    BY <2>1, UnlockShape DEF SeatsInv
<1>3. Others(t)
  BY OthersKeep DEF Fill
<1>4. Own(t)'
  <2> USE <1>1 DEF ReadShapes, Own, Goto
  <2>1. ASSUME NEW w, Served(t, w) \/ Goto(t, "done") PROVE ~Filling(t)'
    BY <2>1 DEF Served
  <2>2. ASSUME GetAgain(t), snapshot[at[t]] = Missing,
               Goto(t, IF ask[t] = All THEN "store" ELSE "members"), UNCHANGED lock
        PROVE  Own(t)'
    <3>1. lock[PodOf[t]][at[t]] = t /\ UNCHANGED <<at, snapshot>>
      BY <2>2 DEF GetAgain, LockDiscipline
    <3> QED
      BY <2>2, <3>1
  <2> QED
    BY <2>1, <2>2 DEF GetAgain, Store, Raise
<1>5. \A u \in Reader \ {t} : Missed(u) =>
        snapshot'[at[u]] \in {Missing, snapshot[at[u]]} \/ snapshot'[at[u]].by # PodOf[u]
  <2>1. CASE UNCHANGED snapshot
    BY <2>1
  <2>2. ASSUME Store(t), NEW u \in Reader \ {t}, Missed(u)
        PROVE  snapshot'[at[u]] = snapshot[at[u]] \/ snapshot'[at[u]].by # PodOf[u]
    <3>1. snapshot' = [snapshot EXCEPT ![at[t]] = Payload(keys[t][at[t]], PodOf[t])]
      BY <2>2 DEF Store
    <3>2. at[u] \in Show /\ lock[PodOf[u]][at[u]] = u /\ lock[PodOf[t]][at[t]] = t
      BY <2>2, GetFacts DEF InOrder, LockDiscipline, Store
    <3>3. CASE at[u] = at[t]
      <4>1. snapshot'[at[u]] = Payload(keys[t][at[t]], PodOf[t]) /\ PodOf[u] # PodOf[t]
        BY <1>1, <3>1, <3>2, <3>3 DEF ReadShapes
      <4> QED
        BY <4>1 DEF Payload
    <3>4. CASE at[u] # at[t]
      BY <1>1, <3>1, <3>2, <3>4 DEF ReadShapes
    <3> QED
      BY <3>3, <3>4
  <2> QED
    BY <2>1, <2>2 DEF GetAgain, Raise
<1> QED
  BY <1>2, <1>3, <1>4, <1>5, OneLock

LEMMA NextKeepsLocks == SeatsInv /\ LockDiscipline /\ [Next]_vars => LockDiscipline'
<1> SUFFICES ASSUME SeatsInv, LockDiscipline, [Next]_vars PROVE LockDiscipline'
  OBVIOUS
<1>1. CASE UNCHANGED vars
  BY <1>1 DEF LockDiscipline
<1>2. CASE Writes \/ \E w \in Show, s \in Seat : Refund(w, s)
  BY <1>2, WriteLocks
<1>3. CASE \/ \E t \in Reader, w \in Show : AskOne(t, w)
           \/ \E t \in Reader : AskAll(t) \/ Fill(t) \/ Raise(t)
  BY <1>3, ReadLocks, LockLocks, FillLocks DEF Fill
<1> QED
  BY <1>1, <1>2, <1>3 DEF Next, Writes, Requests

LEMMA InitLocks == Init => LockDiscipline
BY DEF Init, LockDiscipline

\* A pod fills a snapshot once, however many of its threads have missed it.
THEOREM SnapshotsAreFilledOnce == Spec => FilledOnce
<1> DEFINE Once == \A w \in Show :
                     snapshot[w] # Missing /\ snapshot'[w] \notin {Missing, snapshot[w]} =>
                       snapshot'[w].by # snapshot[w].by
<1>1. SeatsInv /\ LockDiscipline /\ [Next]_vars => [Once]_vars
  <2> SUFFICES ASSUME SeatsInv, LockDiscipline, Next PROVE Once
    BY DEF FilledOnce
  <2>1. ASSUME NEW t \in Reader, Store(t), NEW w \in Show,
               snapshot[w] # Missing, snapshot'[w] # snapshot[w]
        PROVE  snapshot'[w].by # snapshot[w].by
    <3>1. snapshot' = [snapshot EXCEPT ![at[t]] = Payload(keys[t][at[t]], PodOf[t])] /\ Missed(t)
      BY <2>1 DEF Store
    <3>2. w = at[t] /\ snapshot'[w] = Payload(keys[t][at[t]], PodOf[t])
      BY <2>1, <3>1, GetFacts DEF ReadShapes
    <3>3. snapshot[w].by # PodOf[t]
      BY <2>1, <3>1, <3>2 DEF LockDiscipline
    <3> QED
      BY <3>2, <3>3 DEF Payload
  <2>2. ASSUME ~\E t \in Reader : Store(t), NEW w \in Show
        PROVE  snapshot'[w] \in {Missing, snapshot[w]}
    <3>1. CASE Writes \/ \E v \in Show, s \in Seat : Refund(v, s)
      BY <3>1, WritesSpareGets DEF SeatsInv, Refund
    <3>2. CASE \/ \E t \in Reader, v \in Show : AskOne(t, v)
               \/ \E t \in Reader : AskAll(t) \/ Fill(t) \/ Raise(t)
      BY <2>2, <3>2 DEF AskOne, AskAll, Fill, Raise, Get, Lock, GetAgain, ReadMembers, ReadRows
    <3> QED
      BY <3>1, <3>2 DEF Next, Writes, Requests
  <2> QED
    BY <2>1, <2>2
<1> QED
  BY <1>1, InitSeatsInv, NextKeepsSeatsInv, InitLocks, NextKeepsLocks, PTL DEF Spec, FilledOnce

-----------------------------------------------------------------------------
(* While no key is lost                                                     *)

\* Without expiry and flush a rollback deletes keys of refused requests only, and only
\* once; every seat of the reserved set is held by an accepted request; the set has every
\* seat that is booked or will be, and nothing is ever torn from it.
NothingTorn ==
  /\ hold \in [Show -> SUBSET Seat] /\ stray \in [Show -> SUBSET Seat]
  /\ rolling \in [Show -> [Seat -> {0, 1}]]
  /\ torn = [w \in Show |-> {}]
  /\ \A w \in Show :
       /\ Booked(w) \subseteq reserved[w]
       /\ reserved[w] \subseteq hold[w]
       /\ hold[w] \intersect stray[w] = {}
       /\ \A s \in Seat : rolling[w][s] # 0 => s \in stray[w]

LEMMA NextKeepsNothingTorn ==
  ASSUME "ttl" \notin Faults, "flush" \notin Faults
  PROVE  SeatsInv /\ NothingTorn /\ [Next]_vars => NothingTorn'
<1> SUFFICES ASSUME SeatsInv, NothingTorn, [Next]_vars PROVE NothingTorn'
  OBVIOUS
<1> USE DEF SeatsInv, Shapes, NothingTorn, Booked
<1>1. ASSUME NEW w \in Show, NEW s \in Seat, Accept(w, s) PROVE NothingTorn'
  <2>1. /\ s \notin hold[w] \union stray[w]
        /\ hold' = [hold EXCEPT ![w] = @ \union {s}]
        /\ reserved' = [reserved EXCEPT ![w] = @ \union {s}]
        /\ queued' = [queued EXCEPT ![w] = @ \union {s}]
        /\ UNCHANGED <<active, stray, rolling>>
    <3>1. Faults \intersect {"ttl", "flush"} = {}
      OBVIOUS
    <3> QED
      BY <1>1, <3>1 DEF Accept
  <2>2. torn' = torn
    <3>1. CASE reserved[w] = {}
      <4>1. torn[w] \union ((active[w] \union queued[w]) \ {s}) = torn[w]
        BY <3>1
      <4>2. torn' = [torn EXCEPT ![w] = torn[w] \union ((active[w] \union queued[w]) \ {s})]
        BY <1>1, <3>1 DEF Accept
      <4> QED
        BY <4>1, <4>2
    <3>2. CASE reserved[w] # {}
      BY <1>1, <3>2 DEF Accept
    <3> QED
      BY <3>1, <3>2
  <2> QED
    BY <2>1, <2>2
<1>2. ASSUME NEW w \in Show, NEW s \in Seat, HoldInVain(w, s) PROVE NothingTorn'
  <2>1. /\ s \notin hold[w] \union stray[w]
        /\ stray' = [stray EXCEPT ![w] = @ \union {s}]
        /\ UNCHANGED <<active, queued, hold, reserved, torn>>
    BY <1>2 DEF HoldInVain
  <2>2. PICK more \in {0, 1} : rolling' = [rolling EXCEPT ![w][s] = @ + more]
    BY <1>2 DEF HoldInVain
  <2>3. rolling[w][s] = 0
    BY <2>1
  <2>4. \A v \in Show, x \in Seat : rolling'[v][x] = IF v = w /\ x = s THEN more ELSE rolling[v][x]
    BY <2>2, <2>3
  <2>5. rolling' \in [Show -> [Seat -> {0, 1}]]
    BY <2>2, <2>3
  <2>6. \A v \in Show : /\ hold[v] \intersect stray'[v] = {}
                       /\ \A x \in Seat : rolling'[v][x] # 0 => x \in stray'[v]
    BY <2>1, <2>4
  <2>7. stray' \in [Show -> SUBSET Seat]
    BY <2>1
  <2> QED
    BY <2>1, <2>5, <2>6, <2>7
<1>3. ASSUME NEW w \in Show, NEW s \in Seat, Release(w, s) PROVE NothingTorn'
  <2>1. /\ rolling[w][s] > 0
        /\ rolling' = [rolling EXCEPT ![w][s] = @ - 1]
        /\ hold' = [hold EXCEPT ![w] = @ \ {s}]
        /\ stray' = [stray EXCEPT ![w] = @ \ {s}]
        /\ reserved' = [reserved EXCEPT ![w] = @ \ {s}]
        /\ UNCHANGED <<active, queued>>
    BY <1>3 DEF Release
  <2>2. rolling[w][s] = 1 /\ s \in stray[w] /\ s \notin hold[w] /\ s \notin reserved[w]
    BY <2>1
  <2>3. torn' = torn
    BY <1>3, <2>2 DEF Release
  <2>4. UNCHANGED <<hold, reserved>>
    BY <2>1, <2>2
  <2>5. /\ rolling' \in [Show -> [Seat -> {0, 1}]]
        /\ \A v \in Show, x \in Seat : rolling'[v][x] = IF v = w /\ x = s THEN 0 ELSE rolling[v][x]
    BY <2>1, <2>2
  <2> QED
    BY <2>1, <2>3, <2>4, <2>5
<1>4. ASSUME NEW w \in Show, NEW s \in Seat, ReleaseFails(w, s) PROVE NothingTorn'
  <2>1. /\ rolling[w][s] > 0
        /\ rolling' = [rolling EXCEPT ![w][s] = @ - 1]
        /\ UNCHANGED <<active, queued, hold, stray, reserved, torn>>
    BY <1>4 DEF ReleaseFails
  <2>2. rolling[w][s] = 1
    BY <2>1
  <2>3. /\ rolling' \in [Show -> [Seat -> {0, 1}]]
        /\ \A v \in Show, x \in Seat : rolling'[v][x] = IF v = w /\ x = s THEN 0 ELSE rolling[v][x]
    BY <2>1, <2>2
  <2> QED
    BY <2>1, <2>3
<1>5. ASSUME NEW w \in Show, NEW s \in Seat, Book(w, s) \/ Refuse(w, s) \/ Refund(w, s) PROVE NothingTorn'
  <2>1. /\ UNCHANGED seats
        /\ \A x \in Show : active'[x] \union queued'[x] \subseteq active[x] \union queued[x]
    <3>1. CASE Book(w, s)
      BY <3>1 DEF Book
    <3>2. CASE Refuse(w, s)
      BY <3>2 DEF Refuse
    <3>3. CASE Refund(w, s)
      BY <3>3 DEF Refund
    <3> QED
      BY <1>5, <3>1, <3>2, <3>3
  <2> QED
    BY <2>1
<1>6. CASE UNCHANGED writeVars
  BY <1>6
<1>7. ASSUME NEW w \in Show, DropSnapshot(w) PROVE UNCHANGED writeVars
  BY <1>7 DEF DropSnapshot
<1>8. ASSUME NEW t \in Reader, (\E w \in Show : AskOne(t, w)) \/ AskAll(t) \/ Fill(t) \/ Raise(t)
      PROVE  UNCHANGED writeVars
  BY <1>8 DEF AskOne, AskAll, Fill, Get, Lock, GetAgain, ReadMembers, ReadRows, Store, Raise
<1> QED
  BY <1>1, <1>2, <1>3, <1>4, <1>5, <1>6, <1>7, <1>8 DEF Next, ExpireHold, ExpireReserved, Flush

\* As long as no hold and no reserved set can expire or be flushed, a fill offers no seat
\* that was booked when it began: nothing but the loss of keys defeats the claim, no
\* rollback, no failing Redis command, no lost deletion and no overlap of fills, bookings
\* and refunds.
THEOREM BookedSeatsStayShown ==
  ASSUME "ttl" \notin Faults, "flush" \notin Faults
  PROVE  Spec => []BookedSeatsAreShown
<1>1. Init => NothingTorn
  BY DEF Init, NothingTorn, Booked
<1>2. Init => SeatsInv
  BY InitSeatsInv
<1>3. SeatsInv /\ NothingTorn /\ BookedShownUnlessTorn => BookedSeatsAreShown
  BY DEF SeatsInv, Shapes, NothingTorn, BookedShownUnlessTorn, BookedSeatsAreShown
<1> QED
  BY <1>1, <1>2, <1>3, NextKeepsSeatsInv, NextKeepsNothingTorn, BookedSeatsAreCovered, PTL DEF Spec

=============================================================================
