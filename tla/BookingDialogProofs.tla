-------------------------- MODULE BookingDialogProofs --------------------------
(***************************************************************************)
(* Proofs about BookingDialog for any number of dialogs, orders, seats and *)
(* login overlays, for both kinds of dialog and any faults.                *)
(***************************************************************************)
EXTENDS BookingDialog, FiniteSetTheorems, TLAPS

Limit == IF Remain > 1 THEN Remain ELSE 1

Closure == [step : 1..3, picked : SUBSET Seat, off : BOOLEAN, succeeded : BOOLEAN]
Orders  == [by : Dialog \union {Nobody}, seats : SUBSET Seat,
            pc : {"new", "ended", "unloaded"} \union Waiting]

\* The variables that the properties below depend on, without the model's bounds.
Shapes ==
  /\ ui      \in [Dialog -> {"unused", "opening", "open", "closed"}]
  /\ closure \in [Dialog -> Closure]
  /\ order   \in [Order -> Orders]
  /\ reply   \in [Order -> {"none"} \union Answers]
  /\ server  \in [Order -> {"none", "queued", "booked", "refused"}]
  /\ result  \in [Order -> {"none", "OK", "REFUSED"}]
  /\ denied  \subseteq Order
  /\ marked  \in [Order -> {"no", "yes", "failed"}]
  /\ outcome \in [Order -> {"none"} \union Outcomes]

\* What can be picked: free seats, no more than remain.
Allowed(S) == S \intersect Reserved = {} /\ IsFiniteSet(S) /\ Cardinality(S) <= Limit

\* The submit button is enabled for nothing but a selection, and a selection is allowed.
SelectionDiscipline ==
  \A d \in Dialog :
    /\ Allowed(closure[d].picked)
    /\ closure[d].step # 3 /\ ~closure[d].off => closure[d].picked # {}

\* Who has posted an order, and what.
OrderDiscipline ==
  \A o \in Order :
    /\ order[o].pc = "new" => order[o] = NoOrder
    /\ order[o].pc # "new" =>
         /\ order[o].by \in Dialog
         /\ ui[order[o].by] \in {"open", "closed"}
         /\ order[o].seats # {}
         /\ Allowed(order[o].seats)

\* A dialog whose seats were not picked again during a request waits for one order at
\* a time, in the confirmation step, with the button disabled and the seats it sent.
WaitingDiscipline ==
  /\ \A o \in Order : order[o].pc \in Waiting /\ order[o].by \notin reselected =>
       /\ closure[order[o].by].step = 2
       /\ closure[order[o].by].off
       /\ closure[order[o].by].picked = order[o].seats
  /\ \A o, p \in Order :
       order[o].pc \in Waiting /\ order[p].pc \in Waiting /\ order[o].by = order[p].by
         /\ order[o].by \notin reselected => o = p
  /\ ReportsWhatWasBooked
  /\ \A o \in misreported : o \in Order /\ order[o].pc = "ended"

\* What an answer on its way, told, or stored, says of the server.
Means(o, answer) ==
  /\ answer = "OK" => server[o] = "booked"
  /\ answer = "REFUSED" => server[o] \in {"none", "refused"} \/ o \in denied
  /\ answer = "UNKNOWN_OR_EXPIRED" => marked[o] = "failed"

\* Answers are to orders that wait; only the end of an order is told; the server begins
\* with a POST, and a poll follows an accepted one; as long as it has no result its mark
\* was written or failed.
AnswerDiscipline ==
  \A o \in Order :
    /\ reply[o] # "none" => order[o].pc \in Waiting
    /\ outcome[o] # "none" => order[o].pc = "ended"
    /\ order[o].pc = "new" => server[o] = "none"
    /\ result[o] # "none" => server[o] # "none"
    /\ reply[o] \in {"UNKNOWN_OR_EXPIRED", "PROCESSING", "OK"} => order[o].pc = "poll"
    /\ reply[o] = "QUEUED" => order[o].pc = "commit"
    /\ order[o].pc = "poll" \/ reply[o] = "QUEUED" =>
         server[o] # "none" /\ (result[o] = "none" => marked[o] # "no")
    /\ Means(o, reply[o])
    /\ Means(o, result[o])
    /\ Means(o, outcome[o])

IInv ==
  /\ Shapes
  /\ SelectionDiscipline
  /\ OrderDiscipline
  /\ WaitingDiscipline
  /\ AnswerDiscipline

\* Unfolded in every step below.
USE NobodyAssumption DEF page, write, past, vars, Waiting, NoOrder

-----------------------------------------------------------------------------
(* Selections                                                              *)

LEMMA LimitIsPositive == Limit \in Nat /\ Limit >= 1
BY RemainAssumption DEF Limit

\* A click keeps the selection within what is free and what remains.
LEMMA ToggleIsAllowed ==
  ASSUME IInv, NEW d \in Dialog, NEW s \in Seat, Pickable(s)
  PROVE  Allowed(Toggle(d, s)) /\ Toggle(d, s) \subseteq Seat
<1> DEFINE picked == closure[d].picked
<1>1. Allowed(picked) /\ picked \subseteq Seat /\ Cardinality(picked) \in Nat
  BY FS_CardinalityType DEF IInv, Shapes, Closure, SelectionDiscipline, Allowed
<1>2. CASE s \in picked
  <2>1. IsFiniteSet(picked \ {s}) /\ Cardinality(picked \ {s}) = Cardinality(picked) - 1
    BY <1>1, <1>2, FS_RemoveElement DEF Allowed
  <2>2. Toggle(d, s) = picked \ {s}
    BY <1>2 DEF Toggle
  <2> QED
    BY <1>1, <2>1, <2>2, LimitIsPositive DEF Allowed
<1>3. CASE s \notin picked /\ Cardinality(picked) < Limit
  <2>1. /\ IsFiniteSet(picked \union {s})
        /\ Cardinality(picked \union {s}) = Cardinality(picked) + 1
    BY <1>1, <1>3, FS_AddElement DEF Allowed
  <2>2. Toggle(d, s) = picked \union {s}
    BY <1>3 DEF Toggle, Limit
  <2> QED
    BY <1>1, <1>3, <2>1, <2>2, LimitIsPositive DEF Allowed, Pickable
<1>4. CASE s \notin picked /\ ~(Cardinality(picked) < Limit)
  BY <1>1, <1>4 DEF Toggle, Limit
<1> QED
  BY <1>2, <1>3, <1>4

\* What setStep and the redrawing make of a closure.
LEMMA ShowIsClosure ==
  ASSUME NEW c \in Closure, NEW step \in 1..3, NEW picked \in SUBSET Seat
  PROVE  /\ Show(c, step, picked) \in Closure
         /\ Show(c, step, picked).step = step
         /\ Show(c, step, picked).picked = picked
         /\ Show(c, step, picked).off = (step # 3 /\ picked = {})
BY DEF Show, Disabled, Closure

-----------------------------------------------------------------------------
(* Steps of the page                                                       *)

\* Steps that change neither a closure nor an order: overlays, keys, login.
LEMMA OverlayStep ==
  ASSUME IInv, ui' \in [Dialog -> {"unused", "opening", "open", "closed"}],
         \A d \in Dialog : ui[d] \in {"open", "closed"} => ui'[d] \in {"open", "closed"},
         UNCHANGED <<closure, order, reply, write, past>>
  PROVE  IInv'
BY DEF IInv, Shapes, SelectionDiscipline, OrderDiscipline, WaitingDiscipline,
       AnswerDiscipline, Means, ReportsWhatWasBooked, Allowed

\* A reload ends what waits without an answer.
LEMMA ReloadStep ==
  ASSUME IInv, Reload, UNCHANGED <<closure, write, past>>
  PROVE  IInv'
<1>1. /\ ui' \in [Dialog -> {"unused", "opening", "open", "closed"}]
      /\ \A d \in Dialog : ui[d] \in {"open", "closed"} => ui'[d] = "closed"
  BY DEF Reload, IInv, Shapes
<1>2. \A o \in Order :
        /\ order'[o].pc \notin Waiting
        /\ order'[o].pc \in {"new", "ended", "unloaded"}
        /\ order'[o].by = order[o].by /\ order'[o].seats = order[o].seats
        /\ order[o].pc \in {"new", "ended"} => order'[o] = order[o]
        /\ order'[o].pc = "new" => order[o].pc = "new"
        /\ order'[o] \in Orders
        /\ reply'[o] = "none"
  <2> SUFFICES ASSUME NEW o \in Order
               PROVE  /\ order'[o].pc \notin Waiting
                      /\ order'[o].pc \in {"new", "ended", "unloaded"}
                      /\ order'[o].by = order[o].by /\ order'[o].seats = order[o].seats
                      /\ order[o].pc \in {"new", "ended"} => order'[o] = order[o]
                      /\ order'[o].pc = "new" => order[o].pc = "new"
                      /\ order'[o] \in Orders
                      /\ reply'[o] = "none"
    OBVIOUS
  <2>1. order[o] \in Orders /\ reply'[o] = "none"
    BY DEF Reload, IInv, Shapes
  <2>2. CASE order[o].pc \in Waiting
    <3>1. order'[o] = [order[o] EXCEPT !.pc = "unloaded"]
      BY <2>2 DEF Reload
    <3> QED
      BY <2>1, <2>2, <3>1 DEF Orders
  <2>3. CASE order[o].pc \notin Waiting
    <3>1. order'[o] = order[o]
      BY <2>3 DEF Reload
    <3> QED
      BY <2>1, <2>3, <3>1 DEF Orders
  <2> QED
    BY <2>2, <2>3
<1>3. Shapes'
  BY <1>1, <1>2 DEF Reload, IInv, Shapes
<1>4. SelectionDiscipline' /\ OrderDiscipline'
  <2>1. \A o \in Order : order'[o].pc # "new" =>
          order[o].pc # "new" /\ ui'[order'[o].by] \in {"open", "closed"}
    BY <1>1, <1>2 DEF IInv, OrderDiscipline
  <2>2. ASSUME NEW o \in Order, order'[o].pc = "new"
        PROVE  order'[o] = NoOrder
    <3>1. order[o].pc = "new" /\ order'[o] = order[o]
      BY <1>2, <2>2
    <3>2. order[o] = NoOrder
      BY <3>1 DEF IInv, OrderDiscipline
    <3> QED
      BY <3>1, <3>2
  <2>3. \A o \in Order : order'[o].pc # "new" =>
          order'[o].by \in Dialog /\ order'[o].seats # {} /\ Allowed(order'[o].seats)
    BY <1>2, <2>1 DEF IInv, OrderDiscipline
  <2>4. OrderDiscipline'
    BY <2>1, <2>2, <2>3 DEF OrderDiscipline, Allowed
  <2> QED
    BY <2>4 DEF IInv, SelectionDiscipline, Allowed
<1>5. WaitingDiscipline'
  BY <1>2 DEF IInv, WaitingDiscipline, ReportsWhatWasBooked
<1>6. AnswerDiscipline'
  BY <1>2 DEF IInv, AnswerDiscipline, Means
<1> QED
  BY <1>3, <1>4, <1>5, <1>6 DEF IInv

\* Opening a dialog: its closure is new, and it has no orders yet.
LEMMA ShowDialogStep ==
  ASSUME IInv, NEW d \in Dialog, ShowDialog(d)
  PROVE  IInv'
<1>1. \A o \in Order : order[o].pc # "new" => order[o].by # d
  BY DEF ShowDialog, IInv, OrderDiscipline
<1>2. NewClosure \in Closure /\ Allowed(NewClosure.picked)
  BY LimitIsPositive, FS_EmptySet DEF NewClosure, Closure, Allowed
<1>3. \A e \in Dialog : closure'[e] = IF e = d THEN NewClosure ELSE closure[e]
  BY DEF ShowDialog, IInv, Shapes
<1>4. Shapes'
  BY <1>2 DEF ShowDialog, AllClosed, IInv, Shapes
<1>5. SelectionDiscipline'
  BY <1>2, <1>3 DEF IInv, SelectionDiscipline, NewClosure, Allowed
<1>6. OrderDiscipline'
  BY <1>1 DEF ShowDialog, AllClosed, IInv, Shapes, OrderDiscipline, Allowed
<1>7. WaitingDiscipline' /\ AnswerDiscipline'
  BY <1>1, <1>3 DEF ShowDialog, IInv, WaitingDiscipline, AnswerDiscipline, Means, ReportsWhatWasBooked
<1> QED
  BY <1>4, <1>5, <1>6, <1>7 DEF IInv

\* Steps of one dialog that does not wait, or whose seats are picked again.
LEMMA ClosureStep ==
  ASSUME IInv, NEW d \in Dialog, NEW c \in Closure,
         closure' = [closure EXCEPT ![d] = c],
         Allowed(c.picked), c.step # 3 /\ ~c.off => c.picked # {},
         reselected \subseteq reselected',
         d \in reselected' \/ InFlight(d) = {},
         UNCHANGED <<ui, order, reply, write, outcome, misreported>>
  PROVE  IInv'
<1>1. \A e \in Dialog : closure'[e] = IF e = d THEN c ELSE closure[e]
  BY DEF IInv, Shapes
<1>2. Shapes' /\ SelectionDiscipline' /\ OrderDiscipline'
  BY <1>1 DEF IInv, Shapes, SelectionDiscipline, OrderDiscipline, Allowed
<1>3. \A o \in Order : order[o].pc \in Waiting /\ order[o].by = d => d \in reselected'
  BY DEF InFlight
<1>4. WaitingDiscipline'
  BY <1>1, <1>3 DEF IInv, Shapes, Orders, OrderDiscipline, WaitingDiscipline, ReportsWhatWasBooked
<1>5. AnswerDiscipline'
  BY DEF IInv, AnswerDiscipline, Means
<1> QED
  BY <1>2, <1>4, <1>5 DEF IInv

\* A dialog that waits, and whose seats were not picked again, is in the confirmation
\* step with its button disabled.
LEMMA WaitingIsDisabled ==
  ASSUME IInv, NEW d \in Dialog, closure[d].step = 1 \/ ~closure[d].off
  PROVE  d \in reselected \/ InFlight(d) = {}
BY DEF IInv, WaitingDiscipline, InFlight

\* The steps in which a dialog's own handlers change its closure.
LEMMA PickingStep ==
  ASSUME IInv, NEW d \in Dialog,
         \/ \E s \in Seat : ClickSeat(d, s)
         \/ ToConfirmation(d) \/ Reselect(d)
  PROVE  IInv'
<1>1. closure[d] \in Closure /\ closure[d].picked \in SUBSET Seat /\ Allowed(closure[d].picked)
  BY DEF IInv, Shapes, Closure, SelectionDiscipline
<1>2. ASSUME NEW s \in Seat, ClickSeat(d, s) PROVE IInv'
  <2> DEFINE c == Show(closure[d], 1, Toggle(d, s))
  <2>1. Allowed(Toggle(d, s)) /\ Toggle(d, s) \in SUBSET Seat
    BY <1>2, ToggleIsAllowed DEF ClickSeat
  <2>2. /\ c \in Closure /\ c.picked = Toggle(d, s)
        /\ c.off = (c.step # 3 /\ c.picked = {})
    BY <1>1, <2>1, ShowIsClosure
  <2>3. closure' = [closure EXCEPT ![d] = c]
    BY <1>2 DEF ClickSeat
  <2>4. d \in reselected \/ InFlight(d) = {}
    BY <1>2, WaitingIsDisabled DEF ClickSeat
  <2>5. UNCHANGED <<ui, order, reply, write, past>>
    BY <1>2 DEF ClickSeat
  <2> HIDE DEF c
  <2> QED
    BY <2>1, <2>2, <2>3, <2>4, <2>5, ClosureStep
<1>3. CASE ToConfirmation(d)
  <2> DEFINE c == Show(closure[d], 2, closure[d].picked)
  <2>1. /\ c \in Closure /\ c.picked = closure[d].picked
        /\ c.off = (c.step # 3 /\ c.picked = {})
    BY <1>1, ShowIsClosure
  <2>2. closure' = [closure EXCEPT ![d] = c]
    BY <1>3 DEF ToConfirmation
  <2>3. d \in reselected \/ InFlight(d) = {}
    BY <1>3, WaitingIsDisabled DEF ToConfirmation
  <2>4. UNCHANGED <<ui, order, reply, write, past>>
    BY <1>3 DEF ToConfirmation
  <2> HIDE DEF c
  <2> QED
    BY <1>1, <2>1, <2>2, <2>3, <2>4, ClosureStep
<1>4. CASE Reselect(d)
  <2> DEFINE was == Succeed(closure[d], closure[d].succeeded /\ kind = "theater")
             c   == Show(was, 1, closure[d].picked)
  <2>1. was \in Closure
    BY <1>1 DEF Closure, Succeed
  <2>2. /\ c \in Closure /\ c.picked = closure[d].picked
        /\ c.off = (c.step # 3 /\ c.picked = {})
    BY <1>1, <2>1, ShowIsClosure
  <2>3. closure' = [closure EXCEPT ![d] = c]
    BY <1>4 DEF Reselect
  <2>4. reselected \subseteq reselected' /\ (d \in reselected' \/ InFlight(d) = {})
    BY <1>4 DEF Reselect
  <2>5. UNCHANGED <<ui, order, reply, write, outcome, misreported>>
    BY <1>4 DEF Reselect
  <2> HIDE DEF c
  <2> QED
    BY <1>1, <2>2, <2>3, <2>4, <2>5, ClosureStep
<1> QED
  BY <1>2, <1>3, <1>4

\* The POST leaves with an allowed selection, from a dialog that waits for no other
\* order unless its seats were picked again.
LEMMA SubmitStep ==
  ASSUME IInv, NEW d \in Dialog, NEW o \in Order, Submit(d, o)
  PROVE  IInv'
<1> DEFINE seats == closure[d].picked
<1>1. /\ ui[d] = "open" /\ closure[d].step = 2 /\ ~closure[d].off
      /\ order[o] = NoOrder
      /\ UNCHANGED <<ui, reply, write, past>>
  BY DEF Submit, Usable
<1>2. \A p \in Order : order'[p] = IF p = o THEN [by |-> d, seats |-> seats, pc |-> "commit"]
                                             ELSE order[p]
  BY DEF Submit, IInv, Shapes
<1>3. \A e \in Dialog :
        /\ closure'[e] \in Closure
        /\ closure'[e].step = closure[e].step /\ closure'[e].picked = closure[e].picked
        /\ closure'[e].off = (e = d \/ closure[e].off)
  <2>1. \A e \in Dialog : closure[e] \in Closure
    BY DEF IInv, Shapes
  <2>2. \A e \in Dialog :
          closure'[e] = IF e = d THEN [closure[d] EXCEPT !.off = TRUE] ELSE closure[e]
    BY DEF Submit, IInv, Shapes
  <2>3. [closure[d] EXCEPT !.off = TRUE] \in Closure
    BY <2>1 DEF Closure
  <2> QED
    BY <2>1, <2>2, <2>3 DEF Closure
<1>4. seats # {} /\ Allowed(seats) /\ seats \subseteq Seat
  BY <1>1 DEF IInv, Shapes, Closure, SelectionDiscipline
<1>5. Shapes'
  <2>1. order' \in [Order -> Orders]
    BY <1>2, <1>4 DEF Submit, IInv, Shapes, Orders
  <2>2. closure' \in [Dialog -> Closure]
    BY <1>3 DEF Submit, IInv, Shapes
  <2> QED
    BY <1>1, <2>1, <2>2 DEF IInv, Shapes
<1>6. SelectionDiscipline'
  BY <1>3 DEF IInv, SelectionDiscipline, Allowed
<1>7. OrderDiscipline'
  BY <1>1, <1>2, <1>4 DEF IInv, OrderDiscipline, Allowed
<1>8. \A p \in Order : order[p].pc \in Waiting /\ order[p].by = d => d \in reselected
  BY <1>1, WaitingIsDisabled DEF InFlight
<1>9. WaitingDiscipline'
  <2>1. \A p \in Order : order'[p].pc \in Waiting /\ order'[p].by \notin reselected' =>
          /\ closure'[order'[p].by].step = 2
          /\ closure'[order'[p].by].off
          /\ closure'[order'[p].by].picked = order'[p].seats
    <3> SUFFICES ASSUME NEW p \in Order, order'[p].pc \in Waiting, order'[p].by \notin reselected
                 PROVE  /\ closure'[order'[p].by].step = 2
                        /\ closure'[order'[p].by].off
                        /\ closure'[order'[p].by].picked = order'[p].seats
      BY <1>1
    <3>1. CASE p = o
      <4>1. order'[p] = [by |-> d, seats |-> seats, pc |-> "commit"]
        BY <1>2, <3>1
      <4>2. closure'[d].step = 2 /\ closure'[d].off /\ closure'[d].picked = seats
        BY <1>1, <1>3
      <4> QED
        BY <4>1, <4>2
    <3>2. CASE p # o
      <4>1. order'[p] = order[p] /\ order[p].by \in Dialog
        BY <1>2, <3>2 DEF IInv, OrderDiscipline
      <4>2. /\ closure[order[p].by].step = 2 /\ closure[order[p].by].off
            /\ closure[order[p].by].picked = order[p].seats
        BY <1>1, <4>1 DEF IInv, WaitingDiscipline
      <4> QED
        BY <1>3, <4>1, <4>2
    <3> QED
      BY <3>1, <3>2
  <2>2. \A q, p \in Order :
          order'[q].pc \in Waiting /\ order'[p].pc \in Waiting /\ order'[q].by = order'[p].by
            /\ order'[q].by \notin reselected' => q = p
    BY <1>1, <1>2, <1>8 DEF IInv, WaitingDiscipline
  <2>3. o \notin misreported
    BY <1>1 DEF IInv, WaitingDiscipline
  <2> QED
    BY <1>1, <1>2, <2>1, <2>2, <2>3 DEF IInv, WaitingDiscipline, ReportsWhatWasBooked
<1>10. AnswerDiscipline'
  BY <1>1, <1>2 DEF IInv, AnswerDiscipline, Means
<1> QED
  BY <1>5, <1>6, <1>7, <1>9, <1>10 DEF IInv

-----------------------------------------------------------------------------
(* Orders                                                                  *)

\* Steps of the servers and the network.
LEMMA ServerStep ==
  ASSUME IInv, NEW o \in Order, Serve(o) \/ LoseRequest(o) \/ Work(o)
  PROVE  IInv'
<1>1. UNCHANGED <<ui, closure, order, past>>
  BY DEF Serve, RefuseOrder, AcceptOrder, AnswerOrder, AnswerPoll, LoseRequest,
         Work, Book, StoreOk, Refuse, StoreFailure
<1>2. SelectionDiscipline' /\ OrderDiscipline' /\ WaitingDiscipline'
  BY <1>1 DEF IInv, SelectionDiscipline, OrderDiscipline, WaitingDiscipline, Allowed,
              ReportsWhatWasBooked
<1>3. CASE RefuseOrder(o)
  BY <1>2, <1>3 DEF RefuseOrder, IInv, Shapes, AnswerDiscipline, Means, Answers
<1>4. CASE AcceptOrder(o)
  BY <1>2, <1>4 DEF AcceptOrder, IInv, Shapes, AnswerDiscipline, Means
<1>5. CASE AnswerOrder(o)
  BY <1>2, <1>5 DEF AnswerOrder, IInv, Shapes, AnswerDiscipline, Means, Answers
<1>6. CASE AnswerPoll(o)
  BY <1>2, <1>6 DEF AnswerPoll, Status, IInv, Shapes, AnswerDiscipline, Means, Answers
<1>7. CASE LoseRequest(o)
  BY <1>2, <1>7 DEF LoseRequest, IInv, Shapes, AnswerDiscipline, Means, Answers
<1>8. CASE Book(o)
  BY <1>2, <1>8 DEF Book, IInv, Shapes, AnswerDiscipline, Means
<1>9. CASE StoreOk(o)
  BY <1>2, <1>9 DEF StoreOk, Store, IInv, Shapes, AnswerDiscipline, Means
<1>10. CASE Refuse(o)
  BY <1>2, <1>10 DEF Refuse, Store, IInv, Shapes, AnswerDiscipline, Means
<1>11. CASE StoreFailure(o)
  BY <1>2, <1>11 DEF StoreFailure, Store, IInv, Shapes, AnswerDiscipline, Means
<1> QED
  BY <1>3, <1>4, <1>5, <1>6, <1>7, <1>8, <1>9, <1>10, <1>11 DEF Serve, Work

\* The end of an order tells what its answer says.
LEMMA EndStep ==
  ASSUME IInv, NEW o \in Order, NEW answer \in Outcomes, order[o].pc \in Waiting,
         Means(o, answer), EndOrder(o, answer)
  PROVE  IInv'
<1> DEFINE d == order[o].by
<1>1. d \in Dialog /\ ui[d] \in {"open", "closed"} /\ order[o] # NoOrder
  BY DEF IInv, OrderDiscipline
<1>2. \A p \in Order : order'[p] = IF p = o THEN [order[o] EXCEPT !.pc = "ended"] ELSE order[p]
  BY DEF EndOrder, IInv, Shapes
<1>3. /\ order'[o].pc = "ended" /\ order'[o].by = d /\ order'[o].seats = order[o].seats
      /\ order' \in [Order -> Orders]
  BY <1>2 DEF EndOrder, IInv, Shapes, Orders
<1>4. \A e \in Dialog :
        /\ closure'[e] \in Closure
        /\ closure'[e].picked = closure[e].picked
        /\ IF e = d THEN closure'[e].step = 3 ELSE closure'[e] = closure[e]
  <2>1. closure[d] \in Closure
    BY <1>1 DEF IInv, Shapes
  <2> DEFINE was == Succeed(closure[d], closure[d].succeeded \/ Success(answer))
  <2>2. was \in Closure /\ was.picked = closure[d].picked
    BY <2>1 DEF Closure, Success, Succeed
  <2>3. closure[d].picked \in SUBSET Seat
    BY <2>1 DEF Closure
  <2>4. /\ Show(was, 3, closure[d].picked) \in Closure
        /\ Show(was, 3, closure[d].picked).step = 3
        /\ Show(was, 3, closure[d].picked).picked = closure[d].picked
    BY <2>2, <2>3, ShowIsClosure
  <2>5. closure' = [closure EXCEPT ![d] = Show(was, 3, closure[d].picked)]
    BY DEF EndOrder
  <2> QED
    BY <1>1, <2>4, <2>5 DEF IInv, Shapes
<1>5. /\ \A p \in Order : reply'[p] = IF p = o THEN "none" ELSE reply[p]
      /\ \A p \in Order : outcome'[p] = IF p = o THEN answer ELSE outcome[p]
      /\ UNCHANGED <<ui, write, reselected>>
  BY DEF EndOrder, IInv, Shapes
<1>6. Shapes'
  <2>1. closure' \in [Dialog -> Closure]
    BY <1>4 DEF EndOrder, IInv, Shapes
  <2> QED
    BY <1>3, <1>5, <2>1 DEF EndOrder, IInv, Shapes
<1>7. SelectionDiscipline'
  BY <1>4 DEF IInv, SelectionDiscipline, Allowed
<1>8. OrderDiscipline'
  BY <1>1, <1>2, <1>3, <1>5 DEF IInv, OrderDiscipline, Allowed
<1>9. WaitingDiscipline'
  <2>1. misreported' = IF Success(answer) /\ closure[d].picked # order[o].seats
                       THEN misreported \union {o} ELSE misreported
    BY DEF EndOrder
  <2>2. d \in reselected \/ closure[d].picked = order[o].seats
    BY DEF IInv, WaitingDiscipline
  <2>3. \A p \in misreported' : order'[p].by \in reselected' /\ p \in Order
    BY <1>2, <1>3, <1>5, <2>1, <2>2 DEF IInv, WaitingDiscipline, ReportsWhatWasBooked
  <2>4. \A p \in Order : order'[p].pc \in Waiting => p # o /\ order'[p] = order[p]
    BY <1>2, <1>3
  <2>5. \A p \in Order : order'[p].pc \in Waiting /\ order'[p].by \notin reselected' =>
          order[p].by # d /\ order[p].by \in Dialog
    BY <1>5, <2>4 DEF IInv, WaitingDiscipline, OrderDiscipline
  <2>6. \A p \in Order : order'[p].pc \in Waiting /\ order'[p].by \notin reselected' =>
          /\ closure'[order'[p].by].step = 2
          /\ closure'[order'[p].by].off
          /\ closure'[order'[p].by].picked = order'[p].seats
    BY <1>4, <1>5, <2>4, <2>5 DEF IInv, WaitingDiscipline
  <2>7. \A q, p \in Order :
          order'[q].pc \in Waiting /\ order'[p].pc \in Waiting /\ order'[q].by = order'[p].by
            /\ order'[q].by \notin reselected' => q = p
    BY <1>5, <2>4 DEF IInv, WaitingDiscipline
  <2>8. \A p \in misreported' : order'[p].pc = "ended"
    BY <1>2, <1>3, <2>1 DEF IInv, WaitingDiscipline
  <2> QED
    BY <2>3, <2>6, <2>7, <2>8 DEF WaitingDiscipline, ReportsWhatWasBooked
<1>10. AnswerDiscipline'
  BY <1>2, <1>3, <1>5 DEF IInv, AnswerDiscipline, Means, Outcomes
<1> QED
  BY <1>6, <1>7, <1>8, <1>9, <1>10 DEF IInv

\* The submit handler goes on after one of its awaits.
LEMMA HandlerStep ==
  ASSUME IInv, NEW o \in Order, Handlers(o)
  PROVE  IInv'
<1>1. /\ reply[o] \in {"none"} \union Answers
      /\ order[o].pc \in Waiting
      /\ Means(o, reply[o])
      /\ reply[o] \in {"UNKNOWN_OR_EXPIRED", "PROCESSING", "OK"} => order[o].pc = "poll"
      /\ reply[o] = "QUEUED" => /\ order[o].pc = "commit" /\ server[o] # "none"
                                /\ result[o] = "none" => marked[o] # "no"
  BY DEF IInv, Shapes, AnswerDiscipline, Handlers, CommitReturns, PollReturns, GiveUp
<1>2. ASSUME reply[o] \notin {"none", "QUEUED", "PROCESSING"}, EndOrder(o, reply[o]) PROVE IInv'
  <2>1. reply[o] \in Outcomes
    BY <1>1, <1>2 DEF Answers, Outcomes
  <2> QED
    BY <1>1, <1>2, <2>1, EndStep
<1>3. CASE GiveUp(o)
  <2>1. "TIMEOUT" \in Outcomes /\ Means(o, "TIMEOUT")
    BY DEF Outcomes, Means
  <2> QED
    BY <1>1, <1>3, <2>1, EndStep DEF GiveUp
<1>4. CASE PollReturns(o)
  <2>1. CASE reply[o] = "PROCESSING" /\ reply' = [reply EXCEPT ![o] = "none"]
             /\ UNCHANGED <<page, order, write, past>>
    <3>1. Shapes' /\ SelectionDiscipline' /\ OrderDiscipline' /\ WaitingDiscipline'
      BY <2>1 DEF IInv, Shapes, SelectionDiscipline, OrderDiscipline, WaitingDiscipline,
                  ReportsWhatWasBooked, Allowed
    <3>2. AnswerDiscipline'
      BY <2>1 DEF IInv, Shapes, AnswerDiscipline, Means
    <3> QED
      BY <3>1, <3>2 DEF IInv
  <2> QED
    BY <1>1, <1>2, <1>4, <2>1 DEF PollReturns
<1>5. CASE CommitReturns(o)
  <2>1. CASE reply[o] = "QUEUED" /\ order' = [order EXCEPT ![o].pc = "poll"]
             /\ reply' = [reply EXCEPT ![o] = "none"] /\ UNCHANGED <<page, write, past>>
    <3>1. \A p \in Order :
            order'[p] = IF p = o THEN [order[o] EXCEPT !.pc = "poll"] ELSE order[p]
      BY <2>1 DEF IInv, Shapes
    <3>2. \A p \in Order :
            /\ order'[p] \in Orders
            /\ order'[p].by = order[p].by /\ order'[p].seats = order[p].seats
            /\ order'[p].pc = IF p = o THEN "poll" ELSE order[p].pc
      <4>1. \A p \in Order : order[p] \in Orders
        BY DEF IInv, Shapes
      <4> QED
        BY <3>1, <4>1 DEF Orders
    <3>3. Shapes' /\ SelectionDiscipline'
      BY <2>1, <3>2 DEF IInv, Shapes, SelectionDiscipline, Allowed
    <3>4. OrderDiscipline'
      <4>1. \A p \in Order : order'[p].pc = "new" => order'[p] = order[p]
        BY <3>1, <3>2
      <4>2. \A p \in Order : order'[p].pc # "new" => order[p].pc # "new"
        BY <1>1, <3>2
      <4>3. \A p \in Order : order'[p].pc # "new" =>
              /\ order'[p].by \in Dialog
              /\ ui'[order'[p].by] \in {"open", "closed"}
              /\ order'[p].seats # {}
              /\ Allowed(order'[p].seats)
        BY <2>1, <3>2, <4>2 DEF IInv, OrderDiscipline
      <4>4. \A p \in Order : order'[p].pc = "new" => order'[p] = NoOrder
        BY <3>2, <4>1 DEF IInv, OrderDiscipline
      <4> QED
        BY <4>3, <4>4 DEF OrderDiscipline, Allowed
    <3>5. WaitingDiscipline'
      <4>1. o \notin misreported
        BY <1>1 DEF IInv, WaitingDiscipline
      <4> QED
        BY <1>1, <2>1, <3>2, <4>1 DEF IInv, WaitingDiscipline, ReportsWhatWasBooked
    <3>6. AnswerDiscipline'
      BY <1>1, <2>1, <3>2 DEF IInv, Shapes, AnswerDiscipline, Means
    <3> QED
      BY <3>3, <3>4, <3>5, <3>6 DEF IInv
  <2> QED
    BY <1>1, <1>2, <1>5, <2>1 DEF CommitReturns
<1> QED
  BY <1>3, <1>4, <1>5 DEF Handlers

-----------------------------------------------------------------------------
(* Theorems                                                                *)

LEMMA InitIInv == Init => IInv
<1> SUFFICES ASSUME Init PROVE IInv
  OBVIOUS
<1>1. NewClosure \in Closure /\ Allowed(NewClosure.picked)
  BY LimitIsPositive, FS_EmptySet DEF NewClosure, Closure, Allowed
<1>2. Shapes
  BY <1>1 DEF Init, Shapes, Orders
<1>3. SelectionDiscipline
  BY <1>1 DEF Init, SelectionDiscipline, NewClosure
<1>4. OrderDiscipline /\ WaitingDiscipline /\ AnswerDiscipline
  BY DEF Init, OrderDiscipline, WaitingDiscipline, AnswerDiscipline, Means, ReportsWhatWasBooked
<1> QED
  BY <1>2, <1>3, <1>4 DEF IInv

\* Opening, closing, keys, login and navigation.
LEMMA PageStep ==
  ASSUME IInv,
         \/ \E d \in Dialog : OpenDialog(d) \/ OpenFails(d) \/ Close(d) \/ SubmitAsVisitor(d)
         \/ PressEscape \/ PressOtherKey
         \/ Around
  PROVE  IInv'
<1>1. \A d \in Dialog : ui[d] \in {"unused", "opening", "open", "closed"}
  BY DEF IInv, Shapes
<1>2. ASSUME NEW D, NEW left, CloseFromUser(D, left) PROVE IInv'
  <2>1. CASE Reload /\ UNCHANGED <<closure, write, past>>
    BY <2>1, ReloadStep
  <2>2. CASE RemoveOverlay(left) /\ UNCHANGED <<closure, write, past>>
    BY <1>1, <2>2, OverlayStep DEF RemoveOverlay, AllClosed, IInv, Shapes
  <2> QED
    BY <1>2, <2>1, <2>2 DEF CloseFromUser
<1>3. ASSUME NEW d \in Dialog, OpenDialog(d) \/ OpenFails(d) PROVE IInv'
  BY <1>1, <1>3, OverlayStep DEF OpenDialog, OpenFails, IInv, Shapes
<1>4. ASSUME ClearTransientUi \/ UNCHANGED ui, UNCHANGED <<closure, order, reply, write, past>>
      PROVE  IInv'
  BY <1>1, <1>4, OverlayStep DEF ClearTransientUi, AllClosed, IInv, Shapes
<1>5. ASSUME NEW d \in Dialog, SubmitAsVisitor(d) PROVE IInv'
  BY <1>4, <1>5 DEF SubmitAsVisitor, OpenLogin
<1>6. CASE PressOtherKey \/ Around
  BY <1>4, <1>6 DEF PressOtherKey, Around, ClickLogin, OpenLogin, ShowLogin, LogoutElsewhere,
                    Navigate, CloseLogin
<1> QED
  BY <1>2, <1>3, <1>5, <1>6 DEF Close, PressEscape

LEMMA NextKeepsIInv == IInv /\ [Next]_vars => IInv'
<1> SUFFICES ASSUME IInv, [Next]_vars PROVE IInv'
  OBVIOUS
<1>1. CASE UNCHANGED vars
  BY <1>1, OverlayStep DEF IInv, Shapes
<1>2. CASE \/ \E d \in Dialog : OpenDialog(d) \/ OpenFails(d) \/ Close(d) \/ SubmitAsVisitor(d)
           \/ PressEscape \/ PressOtherKey
           \/ Around
  BY <1>2, PageStep
<1>3. ASSUME NEW d \in Dialog, ShowDialog(d) PROVE IInv'
  BY <1>3, ShowDialogStep
<1>4. ASSUME NEW d \in Dialog,
             \/ \E s \in Seat : ClickSeat(d, s)
             \/ ToConfirmation(d) \/ Reselect(d)
      PROVE  IInv'
  BY <1>4, PickingStep
<1>5. ASSUME NEW d \in Dialog, NEW o \in Order, Submit(d, o) PROVE IInv'
  BY <1>5, SubmitStep
<1>6. ASSUME NEW o \in Order, Handlers(o) PROVE IInv'
  BY <1>6, HandlerStep
<1>7. ASSUME NEW o \in Order, Serve(o) \/ LoseRequest(o) \/ Work(o) PROVE IInv'
  BY <1>7, ServerStep
<1> QED
  BY <1>1, <1>2, <1>3, <1>4, <1>5, <1>6, <1>7 DEF Next, Dialogs

LEMMA Invariance == Spec => []IInv
BY InitIInv, NextKeepsIInv, PTL DEF Spec

\* "Paid" is true when it is told and stays true; "refused" too, unless the worker
\* stored a failure for an order that was booked or undecided.
THEOREM TheCustomerIsToldTheTruth == Spec => []ToldTheTruth
<1>1. IInv => ToldTheTruth
  BY DEF IInv, AnswerDiscipline, Means, ToldTheTruth
<1> QED
  BY <1>1, Invariance, PTL

\* "Try again" can only mislead when the queued mark was not written.
THEOREM TryingAgainIsSafe == Spec => []TryAgainIsSafe
<1>1. IInv => TryAgainIsSafe
  BY DEF IInv, AnswerDiscipline, Means, TryAgainIsSafe
<1> QED
  BY <1>1, Invariance, PTL

\* Every order posted is valid, for any hall, selection and remain_count.
THEOREM EveryOrderIsValid == Spec => []OrdersAreValid
<1>1. IInv => OrdersAreValid
  BY DEF IInv, OrderDiscipline, Allowed, Limit, OrdersAreValid
<1> QED
  BY <1>1, Invariance, PTL

\* Only picking seats again during a request makes a dialog wait for two orders.
THEOREM OrdersGoOneByOne == Spec => []OneOrderAtATime
<1>1. IInv => OneOrderAtATime
  <2> SUFFICES ASSUME IInv, NEW d \in Dialog, d \notin reselected
               PROVE  ~(Cardinality(InFlight(d)) > 1)
    BY DEF OneOrderAtATime
  <2>1. \A o, p \in InFlight(d) : o = p
    BY DEF IInv, WaitingDiscipline, InFlight
  <2>2. Cardinality(InFlight(d)) \in {0, 1}
    <3>1. CASE InFlight(d) = {}
      BY <3>1, FS_EmptySet
    <3>2. ASSUME NEW o \in InFlight(d) PROVE Cardinality(InFlight(d)) = 1
      <4>1. InFlight(d) = {o}
        BY <2>1, <3>2
      <4> QED
        BY <4>1, FS_Singleton
    <3> QED
      BY <3>1, <3>2
  <2> QED
    BY <2>2
<1> QED
  BY <1>1, Invariance, PTL

\* The page is told of the seats that were booked, unless they were picked again.
THEOREM BookedSeatsAreReported == Spec => []ReportsWhatWasBooked
<1>1. IInv => ReportsWhatWasBooked
  BY DEF IInv, WaitingDiscipline
<1> QED
  BY <1>1, Invariance, PTL

-----------------------------------------------------------------------------
(* The scroll lock                                                         *)

\* Every step that removes the last overlay also unlocks the page.
ScrollDiscipline ==
  /\ login \in [loading : Nat, shown : Nat]
  /\ NeverFrozen

LEMMA NextKeepsScroll == IInv /\ ScrollDiscipline /\ [Next]_vars => ScrollDiscipline'
<1> SUFFICES ASSUME IInv, ScrollDiscipline, [Next]_vars PROVE ScrollDiscipline'
  OBVIOUS
<1> USE DEF ScrollDiscipline, NeverFrozen, Opened, LoginOnTop
<1>1. ui \in [Dialog -> {"unused", "opening", "open", "closed"}]
  BY DEF IInv, Shapes
<1>2. CASE UNCHANGED <<ui, locked, login>>
  BY <1>2
<1>3. ASSUME NEW d \in Dialog, OpenDialog(d) \/ OpenFails(d) PROVE ScrollDiscipline'
  BY <1>1, <1>3 DEF OpenDialog, OpenFails
<1>4. ASSUME NEW d \in Dialog, ShowDialog(d) PROVE ScrollDiscipline'
  BY <1>1, <1>4 DEF ShowDialog, AllClosed
<1>5. ASSUME NEW D, NEW left, CloseFromUser(D, left) PROVE ScrollDiscipline'
  BY <1>5 DEF CloseFromUser, Reload, RemoveOverlay
<1>6. ASSUME OpenLogin PROVE ScrollDiscipline'
  BY <1>6 DEF OpenLogin, ClearTransientUi
<1>7. CASE ShowLogin
  BY <1>7 DEF ShowLogin
<1>8. CASE Navigate \/ \E loggedIn \in BOOLEAN : CloseLogin(loggedIn)
  BY <1>8 DEF Navigate, ClearTransientUi, CloseLogin
<1>9. CASE Around
  BY <1>2, <1>6, <1>7, <1>8, <1>9 DEF Around, ClickLogin, LogoutElsewhere
<1>10. CASE Dialogs
  <2>1. ASSUME NEW d \in Dialog, Close(d) \/ SubmitAsVisitor(d) PROVE ScrollDiscipline'
    BY <1>5, <1>6, <2>1 DEF Close, SubmitAsVisitor
  <2>2. CASE PressEscape \/ PressOtherKey
    BY <1>2, <1>5, <2>2 DEF PressEscape, PressOtherKey
  <2>3. ASSUME NEW d \in Dialog,
               \/ ToConfirmation(d) \/ Reselect(d)
               \/ \E s \in Seat : ClickSeat(d, s)
               \/ \E o \in Order : Submit(d, o)
        PROVE  ScrollDiscipline'
    BY <1>2, <2>3 DEF ToConfirmation, Reselect, ClickSeat, Submit
  <2> QED
    BY <1>3, <1>4, <1>10, <2>1, <2>2, <2>3 DEF Dialogs
<1>11. ASSUME NEW o \in Order, Handlers(o) PROVE ScrollDiscipline'
  BY <1>2, <1>11 DEF Handlers, CommitReturns, PollReturns, GiveUp, EndOrder
<1>12. ASSUME NEW o \in Order, Serve(o) \/ LoseRequest(o) \/ Work(o) PROVE ScrollDiscipline'
  BY <1>2, <1>12 DEF Serve, RefuseOrder, AcceptOrder, AnswerOrder, AnswerPoll, LoseRequest,
                      Work, Book, StoreOk, Refuse, StoreFailure
<1> QED
  BY <1>2, <1>9, <1>10, <1>11, <1>12 DEF Next

\* However opening, closing, login, navigation and keys mix, a page that does not scroll
\* has an overlay that can be closed.
THEOREM ThePageIsNeverFrozen == Spec => []NeverFrozen
<1>1. Init => ScrollDiscipline
  BY DEF Init, ScrollDiscipline, NeverFrozen
<1>2. IInv /\ ScrollDiscipline /\ [Next]_vars => ScrollDiscipline'
  BY NextKeepsScroll
<1>3. ScrollDiscipline => NeverFrozen
  BY DEF ScrollDiscipline
<1> QED
  BY <1>1, <1>2, <1>3, Invariance, PTL DEF Spec

=============================================================================
