----------------------------- MODULE BookingDialog -----------------------------
(***************************************************************************)
(* The booking dialogs of the web client, concert_booking_modal.js and     *)
(* theaters_detail.js, with the polling loop of write-api.js, the scroll   *)
(* lock of app-config.js, the login overlay, and navigation as far as it   *)
(* touches them.                                                           *)
(*                                                                         *)
(* Every call of openConcertBookingModal or openTheatersDetail is a        *)
(* closure of its own (Dialog): it lives on, with its handlers and pending *)
(* requests, after its overlay is gone.  The event loop runs one handler,  *)
(* or the part of one up to the next await, at a time: one step.           *)
(***************************************************************************)
EXTENDS Naturals, FiniteSets

CONSTANTS Dialog,       \* calls that open a dialog
          Order,        \* bookings posted by the client
          Seat,
          Reserved,     \* seats drawn as taken when the dialogs open
          Remain,       \* remain_count of the show when the dialogs open
          Kinds,        \* which of the two dialogs: "concert", "theater"
          MaxLogins,    \* bound: login overlays open or loading at once
          Nobody,
          Faults        \* what may go wrong in this instance

\* "network": a request or its answer is lost.  "mark": the queued mark is not written.
\* "css": a style sheet does not load.  "worker": the worker dies or Redis fails between
\* the commit and the result, or a message is delivered again while it is handled.
ASSUME FaultsAssumption == Faults \subseteq {"network", "mark", "css", "worker"}
ASSUME KindsAssumption == Kinds \subseteq {"concert", "theater"}
ASSUME ReservedAssumption == Reserved \subseteq Seat
ASSUME RemainAssumption == Remain \in Nat
ASSUME NobodyAssumption == Nobody \notin Dialog

VARIABLES
  kind,         \* the dialog in use
  user,         \* getStoredUserId finds a user
  ui,           \* of a dialog: "unused", "opening", "open" (overlay in the page), "closed"
  closure,      \* its variables: step, picked, off (submit button disabled), succeeded
  esc,          \* dialogs whose keydown handler is registered
  locked,       \* modalState.locked: the page behind does not scroll
  login,        \* login overlays: [loading, shown]
  order,        \* of an order: [by, seats, pc], see Waiting below
  reply,        \* the answer on its way to the order
  server,       \* "none", "queued", "booked" (committed), "refused"
  result,       \* booking:result:{ref}: "none", "OK", "REFUSED"
  marked,       \* booking:queued:{ref}: "no", "yes", or "failed" when it could not be written
  outcome,      \* history: what the order's dialog was told at the end
  denied,       \* history: orders a failure was stored for that were booked or undecided
  misreported,  \* history: orders for which onBooked was called with other seats
  reselected    \* history: dialogs whose seats were picked again during a request

page  == <<kind, user, ui, closure, esc, locked, login>>
write == <<server, result, marked, denied>>
past  == <<outcome, misreported, reselected>>
vars  == <<page, order, reply, write, past>>

Waiting  == {"commit", "poll"}   \* at an await of the submit handler
Answers  == {"QUEUED", "PROCESSING", "OK", "REFUSED", "UNKNOWN_OR_EXPIRED", "ERROR"}
Outcomes == {"OK", "REFUSED", "UNKNOWN_OR_EXPIRED", "TIMEOUT", "ERROR"}

TypeOK ==
  /\ kind       \in Kinds
  /\ user       \in BOOLEAN
  /\ ui         \in [Dialog -> {"unused", "opening", "open", "closed"}]
  /\ closure    \in [Dialog -> [step : 1..3, picked : SUBSET Seat, off : BOOLEAN,
                                succeeded : BOOLEAN]]
  /\ esc        \subseteq Dialog
  /\ locked     \in BOOLEAN
  /\ login      \in [loading : 0..MaxLogins, shown : 0..MaxLogins]
  /\ order      \in [Order -> [by : Dialog \union {Nobody}, seats : SUBSET Seat,
                               pc : {"new", "ended", "unloaded"} \union Waiting]]
  /\ reply      \in [Order -> {"none"} \union Answers]
  /\ server     \in [Order -> {"none", "queued", "booked", "refused"}]
  /\ result     \in [Order -> {"none", "OK", "REFUSED"}]
  /\ denied     \subseteq Order
  /\ marked     \in [Order -> {"no", "yes", "failed"}]
  /\ outcome    \in [Order -> {"none"} \union Outcomes]
  /\ misreported \subseteq Order
  /\ reselected \subseteq Dialog

NewClosure == [step |-> 1, picked |-> {}, off |-> TRUE, succeeded |-> FALSE]
NoOrder    == [by |-> Nobody, seats |-> {}, pc |-> "new"]

Init ==
  /\ kind       \in Kinds
  /\ user       \in BOOLEAN
  /\ ui         = [d \in Dialog |-> "unused"]
  /\ closure    = [d \in Dialog |-> NewClosure]
  /\ esc        = {}
  /\ locked     = FALSE
  /\ login      = [loading |-> 0, shown |-> 0]
  /\ order      = [o \in Order |-> NoOrder]
  /\ reply      = [o \in Order |-> "none"]
  /\ server     = [o \in Order |-> "none"]
  /\ result     = [o \in Order |-> "none"]
  /\ denied     = {}
  /\ marked     = [o \in Order |-> "no"]
  /\ outcome    = [o \in Order |-> "none"]
  /\ misreported = {}
  /\ reselected = {}

-----------------------------------------------------------------------------
(* Opening and closing                                                     *)

Opened        == {d \in Dialog : ui[d] = "open"}
InFlight(d)   == {o \in Order : order[o].by = d /\ order[o].pc \in Waiting}
LoginOnTop    == login.shown > 0
Usable(d)     == ui[d] = "open" /\ ~LoginOnTop
AllClosed     == [d \in Dialog |-> IF ui[d] = "open" THEN "closed" ELSE ui[d]]

\* A card of the page is clicked: its script and style sheet are awaited.  Nothing
\* stops a second click meanwhile.
OpenDialog(d) ==
  /\ ui[d] = "unused"
  /\ Opened = {} /\ ~LoginOnTop
  /\ ui' = [ui EXCEPT ![d] = "opening"]
  /\ UNCHANGED <<kind, user, closure, esc, locked, login, order, reply, write, past>>

OpenFails(d) ==
  /\ "css" \in Faults
  /\ ui[d] = "opening"
  /\ ui' = [ui EXCEPT ![d] = "closed"]
  /\ UNCHANGED <<kind, user, closure, esc, locked, login, order, reply, write, past>>

\* After the await: closeModal, lockBodyScroll, the overlay, setStep(1).
ShowDialog(d) ==
  /\ ui[d] = "opening"
  /\ ui' = [AllClosed EXCEPT ![d] = "open"]
  /\ closure' = [closure EXCEPT ![d] = NewClosure]
  /\ esc' = esc \union {d}
  /\ locked' = TRUE
  /\ UNCHANGED <<kind, user, login, order, reply, write, past>>

\* window.location.reload: the closures and pending requests are gone, login survives.
Reload ==
  /\ ui' = [d \in Dialog |-> IF ui[d] = "unused" THEN "unused" ELSE "closed"]
  /\ esc' = {}
  /\ locked' = FALSE
  /\ login' = [loading |-> 0, shown |-> 0]
  /\ order' = [o \in Order |-> IF order[o].pc \in Waiting
                               THEN [order[o] EXCEPT !.pc = "unloaded"] ELSE order[o]]
  /\ reply' = [o \in Order |-> "none"]

\* Mutant: the overlay goes, the lock stays.
RemoveOverlayOnly(left) ==
  /\ ui' = AllClosed
  /\ esc' = left
  /\ UNCHANGED <<locked, login, order, reply>>

\* closeModal: whichever overlay is in the page goes, the page scrolls again.
RemoveOverlay(left) ==
  /\ ui' = AllClosed
  /\ esc' = left
  /\ locked' = FALSE
  /\ UNCHANGED <<login, order, reply>>

\* closeModalFromUser, called by the handlers of the dialogs D; the concert page reloads
\* when one of them has booked.  "left" are the key handlers that stay registered.
CloseFromUser(D, left) ==
  /\ IF kind = "concert" /\ \E d \in D : closure[d].succeeded
       THEN Reload
       ELSE RemoveOverlay(left)
  /\ UNCHANGED <<kind, user, closure, write, past>>

\* The close and cancel buttons, a click beside the dialog, the last step's button.
\* cancel is hidden in the result step of the theater dialog; the others are not.
Close(d) == Usable(d) /\ CloseFromUser({d}, esc)

\* The key handlers are registered with "once": any key removes them, Escape calls them,
\* those of dialogs closed long ago included.
PressEscape == esc # {} /\ CloseFromUser(esc, {})
PressOtherKey ==
  /\ esc # {}
  /\ esc' = {}
  /\ UNCHANGED <<kind, user, ui, closure, locked, login, order, reply, write, past>>

-----------------------------------------------------------------------------
(* Login overlay and navigation                                            *)

\* clearTransientUi.  It does not know the concert dialog's overlay.
ClearTransientUi ==
  /\ ui' = IF kind = "theater" THEN AllClosed ELSE ui
  /\ locked' = FALSE

\* openLoginPage of a visitor: clear, then await the style sheet (whose failure is caught).
OpenLogin ==
  /\ login.loading + login.shown < MaxLogins
  /\ ClearTransientUi
  /\ login' = [loading |-> login.loading + 1,
               shown   |-> IF login.shown > 0 THEN login.shown - 1 ELSE 0]

ClickLogin ==
  /\ ~user /\ Opened = {} /\ ~LoginOnTop
  /\ OpenLogin
  /\ UNCHANGED <<kind, user, closure, esc, order, reply, write, past>>

ShowLogin ==
  /\ login.loading > 0
  /\ login' = [loading |-> login.loading - 1, shown |-> login.shown + 1]
  /\ locked' = TRUE
  /\ UNCHANGED <<kind, user, ui, closure, esc, order, reply, write, past>>

\* closeLoginPage, by the user or after a login: one overlay goes, the page is unlocked.
CloseLogin(loggedIn) ==
  /\ login.shown > 0
  /\ login' = [login EXCEPT !.shown = @ - 1]
  /\ locked' = FALSE
  /\ user' = (user \/ loggedIn)
  /\ UNCHANGED <<kind, ui, closure, esc, order, reply, write, past>>

\* Another tab logs out: the tabs share localStorage.
LogoutElsewhere ==
  /\ user
  /\ user' = FALSE
  /\ UNCHANGED <<kind, ui, closure, esc, locked, login, order, reply, write, past>>

\* The back button: the router clears the transient elements.
Navigate ==
  /\ Opened # {} \/ LoginOnTop
  /\ ClearTransientUi
  /\ login' = [login EXCEPT !.shown = IF @ > 0 THEN @ - 1 ELSE 0]
  /\ UNCHANGED <<kind, user, closure, esc, order, reply, write, past>>

-----------------------------------------------------------------------------
(* The three steps: seats, confirmation, result                            *)

\* updateSummary: the submit button needs a seat, in the result step it is always enabled.
Disabled(step, picked) == step # 3 /\ picked = {}

\* setStep, and the redrawing of the seats.
Show(c, step, picked) ==
  [c EXCEPT !.step = step, !.picked = picked, !.off = Disabled(step, picked)]

\* bookingSucceeded, which the concert page's reload on closing depends on.
Succeed(c, yes) == [c EXCEPT !.succeeded = yes]

\* renderSmallGrid, renderLargeGrid, and their theater counterpart: what is drawn taken
\* has no handler.
Pickable(s) == s \notin Reserved

\* Mutant: the limit is not kept.
ToggleUnlimited(d, s) == IF s \in closure[d].picked THEN closure[d].picked \ {s}
                                                    ELSE closure[d].picked \union {s}

\* handleSeatClick: a full selection takes no further seat.
Toggle(d, s) ==
  LET picked == closure[d].picked IN
  IF s \in picked THEN picked \ {s}
  ELSE IF Cardinality(picked) < (IF Remain > 1 THEN Remain ELSE 1) THEN picked \union {s}
  ELSE picked

\* Mutant: the seats stay active in the confirmation step.
ClickSeatAnyStep(d, s) ==
  /\ Usable(d) /\ closure[d].step \in {1, 2}
  /\ Pickable(s)
  /\ closure' = [closure EXCEPT ![d] = Show(@, @.step, Toggle(d, s))]
  /\ UNCHANGED <<kind, user, ui, esc, locked, login, order, reply, write, past>>

ClickSeat(d, s) ==
  /\ Usable(d) /\ closure[d].step = 1
  /\ Pickable(s)
  /\ closure' = [closure EXCEPT ![d] = Show(@, 1, Toggle(d, s))]
  /\ UNCHANGED <<kind, user, ui, esc, locked, login, order, reply, write, past>>

\* A visitor who presses the button is sent to the login overlay, and the theater
\* dialog with all its seats is gone.
SubmitAsVisitor(d) ==
  /\ Usable(d) /\ closure[d].step \in {1, 2} /\ ~closure[d].off
  /\ ~user
  /\ OpenLogin
  /\ UNCHANGED <<kind, user, closure, esc, order, reply, write, past>>

ToConfirmation(d) ==
  /\ Usable(d) /\ closure[d].step = 1 /\ ~closure[d].off
  /\ user
  /\ closure' = [closure EXCEPT ![d] = Show(@, 2, @.picked)]
  /\ UNCHANGED <<kind, user, ui, esc, locked, login, order, reply, write, past>>

\* Mutant: the button stays enabled while the order is on its way.
SubmitEnabled(d, o) ==
  /\ Usable(d) /\ closure[d].step = 2 /\ ~closure[d].off
  /\ user
  /\ order[o] = NoOrder
  /\ order' = [order EXCEPT ![o] = [by |-> d, seats |-> closure[d].picked, pc |-> "commit"]]
  /\ UNCHANGED <<page, reply, write, past>>

\* The button is disabled and the POST leaves with the seats picked now.
Submit(d, o) ==
  /\ Usable(d) /\ closure[d].step = 2 /\ ~closure[d].off
  /\ user
  /\ order[o] = NoOrder
  /\ order' = [order EXCEPT ![o] = [by |-> d, seats |-> closure[d].picked, pc |-> "commit"]]
  /\ closure' = [closure EXCEPT ![d].off = TRUE]
  /\ UNCHANGED <<kind, user, ui, esc, locked, login, reply, write, past>>

\* "Pick seats again" in the confirmation step is not disabled while the order is on its
\* way, and setStep(1) enables the submit button again.
Reselect(d) ==
  /\ Usable(d) /\ closure[d].step = 2
  /\ closure' = [closure EXCEPT ![d] =
       Show(Succeed(@, @.succeeded /\ kind = "theater"), 1, @.picked)]
  /\ reselected' = IF InFlight(d) # {} THEN reselected \union {d} ELSE reselected
  /\ UNCHANGED <<kind, user, ui, esc, locked, login, order, reply, write, outcome, misreported>>

-----------------------------------------------------------------------------
(* The write API and the worker, as the client sees them                   *)

\* The POST is checked (and, for a concert, the seats are held): 4xx, nothing was sent.
RefuseOrder(o) ==
  /\ order[o].pc = "commit" /\ reply[o] = "none" /\ server[o] = "none"
  /\ reply' = [reply EXCEPT ![o] = "REFUSED"]
  /\ UNCHANGED <<page, order, write, past>>

\* send_booking_message: the message is sent before the mark is written.
AcceptOrder(o) ==
  /\ order[o].pc = "commit" /\ reply[o] = "none" /\ server[o] = "none"
  /\ server' = [server EXCEPT ![o] = "queued"]
  /\ UNCHANGED <<page, order, reply, result, marked, denied, past>>

\* Mutant: the mark is not written.
AnswerUnmarked(o) ==
  /\ order[o].pc = "commit" /\ reply[o] = "none" /\ server[o] # "none"
  /\ UNCHANGED marked
  /\ reply' = [reply EXCEPT ![o] = "QUEUED"]
  /\ UNCHANGED <<page, order, server, result, denied, past>>

\* _mark_booking_queued, whose failure is only logged, then the answer.  The worker may
\* have been faster and have removed the mark already.
AnswerOrder(o) ==
  /\ order[o].pc = "commit" /\ reply[o] = "none" /\ server[o] # "none"
  /\ \E m \in {"yes"} \union (IF "mark" \in Faults THEN {"failed"} ELSE {}) :
       marked' = [marked EXCEPT ![o] = m]
  /\ reply' = [reply EXCEPT ![o] = "QUEUED"]
  /\ UNCHANGED <<page, order, server, result, denied, past>>

\* The worker commits the booking; its answer is another step.
Book(o) ==
  /\ server[o] = "queued"
  /\ server' = [server EXCEPT ![o] = "booked"]
  /\ UNCHANGED <<page, order, reply, result, marked, denied, past>>

\* store_result: SETEX, then the mark is deleted.
Store(o, r) ==
  /\ result' = [result EXCEPT ![o] = r]
  /\ marked' = [marked EXCEPT ![o] = IF @ = "failed" THEN @ ELSE "no"]

\* After the commit; when a message is handled twice, over a failure stored meanwhile.
StoreOk(o) ==
  /\ server[o] = "booked"
  /\ result[o] = "none" \/ ("worker" \in Faults /\ result[o] = "REFUSED")
  /\ Store(o, "OK")
  /\ UNCHANGED <<page, order, reply, server, denied, past>>

\* Others may have the seats: rollback, and a failure is stored.
Refuse(o) ==
  /\ server[o] = "queued"
  /\ server' = [server EXCEPT ![o] = "refused"]
  /\ Store(o, "REFUSED")
  /\ UNCHANGED <<page, order, reply, denied, past>>

\* A failure is stored for an order that is booked, ERROR because store_result raised
\* after the commit, DUPLICATE_SEAT because the message came again after it; or ERROR by
\* one of two handlers of a message, of which the other may still commit.
StoreFailure(o) ==
  /\ "worker" \in Faults
  /\ server[o] \in {"queued", "booked"}
  /\ Store(o, "REFUSED")
  /\ denied' = denied \union {o}
  /\ UNCHANGED <<page, order, reply, server, past>>

Work(o) == Book(o) \/ StoreOk(o) \/ Refuse(o) \/ StoreFailure(o)

\* get_booking_status_dict: the result, else the mark.
Status(o) ==
  CASE result[o] # "none" -> result[o]
    [] result[o] = "none" /\ marked[o] = "yes" -> "PROCESSING"
    [] OTHER -> "UNKNOWN_OR_EXPIRED"

\* The GET of one poll is answered with the state of that moment.
AnswerPoll(o) ==
  /\ order[o].pc = "poll" /\ reply[o] = "none"
  /\ reply' = [reply EXCEPT ![o] = Status(o)]
  /\ UNCHANGED <<page, order, write, past>>

\* fetch rejects, or an HTTP error: the server may or may not have done its part.
LoseRequest(o) ==
  /\ "network" \in Faults
  /\ order[o].pc \in {"commit", "poll"}
  /\ reply' = [reply EXCEPT ![o] = "ERROR"]
  /\ UNCHANGED <<page, order, write, past>>

-----------------------------------------------------------------------------
(* The submit handler after its awaits                                     *)

\* result.ok === true and code OK.
Success(answer) == answer = "OK"

\* Mutant: anything but PROCESSING and ok ends the polling as a refusal.
EndsAsRefusal(o, answer) ==
  LET d == order[o].by
      seen == IF Success(answer) THEN "OK" ELSE "REFUSED" IN
  /\ order' = [order EXCEPT ![o].pc = "ended"]
  /\ reply' = [reply EXCEPT ![o] = "none"]
  /\ closure' = [closure EXCEPT ![d] = Show(@, 3, @.picked)]
  /\ outcome' = [outcome EXCEPT ![o] = seen]
  /\ misreported' = IF Success(answer) /\ closure[d].picked # order[o].seats
                    THEN misreported \union {o} ELSE misreported
  /\ UNCHANGED <<kind, user, ui, esc, locked, login, write, reselected>>

\* lastResult, onBooked with the seats picked by now, setStep(3), finally.  The handler
\* does this whether or not its dialog is still in the page.
EndOrder(o, answer) ==
  LET d == order[o].by IN
  /\ order' = [order EXCEPT ![o].pc = "ended"]
  /\ reply' = [reply EXCEPT ![o] = "none"]
  /\ closure' = [closure EXCEPT ![d] =
       Show(Succeed(@, @.succeeded \/ Success(answer)), 3, @.picked)]
  /\ outcome' = [outcome EXCEPT ![o] = answer]
  /\ misreported' = IF Success(answer) /\ closure[d].picked # order[o].seats
                    THEN misreported \union {o} ELSE misreported
  /\ UNCHANGED <<kind, user, ui, esc, locked, login, write, reselected>>

CommitReturns(o) ==
  /\ order[o].pc = "commit" /\ reply[o] # "none"
  /\ \/ /\ reply[o] = "QUEUED"
        /\ order' = [order EXCEPT ![o].pc = "poll"]
        /\ reply' = [reply EXCEPT ![o] = "none"]
        /\ UNCHANGED <<page, write, past>>
     \/ reply[o] # "QUEUED" /\ EndOrder(o, reply[o])

\* isTerminalAsyncBookingStatus; the loop continues after a pause.
PollReturns(o) ==
  /\ order[o].pc = "poll" /\ reply[o] # "none"
  /\ \/ /\ reply[o] = "PROCESSING"
        /\ reply' = [reply EXCEPT ![o] = "none"]
        /\ UNCHANGED <<page, order, write, past>>
     \/ reply[o] # "PROCESSING" /\ EndOrder(o, reply[o])

\* The loop's condition is false: 600 s have passed since the POST was answered.
GiveUp(o) ==
  /\ order[o].pc = "poll" /\ reply[o] = "none"
  /\ EndOrder(o, "TIMEOUT")

-----------------------------------------------------------------------------
Handlers(o) == CommitReturns(o) \/ PollReturns(o) \/ GiveUp(o)
Serve(o)    == RefuseOrder(o) \/ AcceptOrder(o) \/ AnswerOrder(o) \/ AnswerPoll(o)

Dialogs ==
  \/ \E d \in Dialog : OpenDialog(d) \/ OpenFails(d) \/ ShowDialog(d) \/ Close(d)
                       \/ SubmitAsVisitor(d) \/ ToConfirmation(d) \/ Reselect(d)
  \/ \E d \in Dialog, s \in Seat : ClickSeat(d, s)
  \/ \E d \in Dialog, o \in Order : Submit(d, o)
  \/ PressEscape \/ PressOtherKey

Around ==
  \/ ClickLogin \/ ShowLogin \/ LogoutElsewhere \/ Navigate
  \/ \E loggedIn \in BOOLEAN : CloseLogin(loggedIn)

Next ==
  \/ Dialogs
  \/ Around
  \/ \E o \in Order : Handlers(o) \/ Serve(o) \/ LoseRequest(o) \/ Work(o)

Spec == Init /\ [][Next]_vars

-----------------------------------------------------------------------------
(* Properties                                                              *)

\* The page behind is never left without scrolling: while it is locked, a dialog or the
\* login overlay is there to be closed, however opening, login, navigation and keys mix.
NeverFrozen == locked => Opened # {} \/ LoginOnTop

\* "Paid" is only told of an order that is booked, whatever the worker stored before and
\* after; "refused" only of one that is neither booked nor still in the queue, unless the
\* worker itself stored a failure for it while it was booked or undecided.
ToldTheTruth ==
  \A o \in Order :
    /\ outcome[o] = "OK" => server[o] = "booked"
    /\ outcome[o] = "REFUSED" => server[o] \in {"none", "refused"} \/ o \in denied

\* "Try again" (UNKNOWN_OR_EXPIRED) is never said of an order that the queue still holds
\* or that was booked, unless the queued mark could not be written.
TryAgainIsSafe ==
  \A o \in Order :
    outcome[o] = "UNKNOWN_OR_EXPIRED" /\ server[o] \in {"queued", "booked"} =>
      marked[o] = "failed"

\* One order at a time: only "pick seats again" during a request lets a dialog post a
\* second order while the first is under way.
OneOrderAtATime ==
  \A d \in Dialog : Cardinality(InFlight(d)) > 1 => d \in reselected

\* The seats taken off the page's map after a booking are those booked, unless
\* seats were picked again while the order was under way.
ReportsWhatWasBooked ==
  \A o \in misreported : order[o].by \in reselected

\* Every order names a seat, no seat shown as taken, and no more seats than remained,
\* after any sequence of picking, confirming and picking again.
OrdersAreValid ==
  \A o \in Order : order[o] # NoOrder =>
    /\ order[o].seats # {}
    /\ order[o].seats \intersect Reserved = {}
    /\ Cardinality(order[o].seats) <= (IF Remain > 1 THEN Remain ELSE 1)

=============================================================================
