------------------------------ MODULE UserSession ------------------------------
(***************************************************************************)
(* The customer's session in one tab: the overlays of login.js, signup.js  *)
(* and pwfind.js, which share one element id, the header with its logout,  *)
(* My page and the two account forms, and what app-config.js keeps in      *)
(* localStorage.  A session is two keys: loginUser, which expires, and     *)
(* user_id, which does not.                                                *)
(*                                                                         *)
(* Answers arrive in any order, and nothing is aborted when a dialog is    *)
(* closed, a page is left or the session changes.                          *)
(***************************************************************************)
EXTENDS Naturals, Sequences, FiniteSets, SequencesExt

CONSTANTS Phone,
          Registered,   \* phone numbers of the accounts there are at first
          MaxSent,      \* bound: requests, a number check and its sign-up as one
          MaxDialogs    \* bound: overlays opened

ASSUME RegisteredAssumption == Registered \in Seq(Phone) /\ IsInjective(Registered)
ASSUME PhoneAssumption      == Phone # {}
ASSUME BoundsAssumption     == MaxSent \in Nat /\ MaxDialogs \in Nat

VARIABLES
  rows,      \* table users: the phone number of each user_id
  login,     \* loginUser, 0 when missing or expired
  uid,       \* user_id, 0 when missing
  header,    \* the user named in the header, 0 for the login button
  ui,        \* dialogs (DOM order, the last on top), submitting, opening, loaded, made
  page,      \* the account page: view, loading, form (its form is there), busy
  goto,      \* the view the router will render next
  reqs,      \* requests under way
  sent,      \* bound used
  proven,    \* history: users whose password the server has accepted for this browser
  current,   \* history: the user of the last login, 0 after a logout
  late       \* history: since then, a request of an earlier session was answered

stored == <<login, uid, header>>
past   == <<proven, current, late>>
vars   == <<rows, stored, ui, page, goto, reqs, sent, past>>

User  == 0..(Len(Registered) + MaxSent)
Kinds == {"login", "signup", "verify", "reset"}
Views == {"home", "mypage", "edit", "changepw"}

Dialog  == [no : 1..MaxDialogs, kind : Kinds, busy : BOOLEAN]
Request == [no : 1..MaxSent, kind : Kinds \union {"check", "profile", "form", "edit", "changepw"},
            user : User, phone : Phone, dialog : 0..MaxDialogs,
            pc : {"sent", "looked", "ok", "no"},
            old : BOOLEAN,      \* the session has changed since
            lost : BOOLEAN]     \* the page that sent it was unloaded

TypeOK ==
  /\ \A i \in DOMAIN rows : rows[i] \in Phone
  /\ login \in 0..Len(rows) /\ uid \in 0..Len(rows) /\ header \in 0..Len(rows)
  /\ \A i \in DOMAIN ui.dialogs : ui.dialogs[i] \in Dialog
  /\ ui.submitting \in BOOLEAN
  /\ ui.opening \subseteq Kinds \X {"script", "css"}
  /\ ui.loaded \subseteq Kinds
  /\ ui.made \in 0..MaxDialogs
  /\ page \in [view : Views \union {"none"}, loading : BOOLEAN, form : BOOLEAN, busy : BOOLEAN]
  /\ goto \in Views \union {"none"}
  /\ reqs \subseteq Request
  /\ sent \in 0..MaxSent
  /\ proven \subseteq 1..Len(rows)
  /\ current \in 0..Len(rows)
  /\ late \in BOOLEAN

NoUi       == [dialogs |-> <<>>, submitting |-> FALSE, opening |-> {}, loaded |-> {}, made |-> 0]
Unfilled(v) == [view |-> v, loading |-> FALSE, form |-> FALSE, busy |-> FALSE]

\* A first visit, or one with what an earlier visit left: a session, fresh or expired.
Init ==
  /\ rows  = Registered
  /\ uid   \in 0..Len(Registered)
  /\ login \in {0, uid}
  /\ header = login
  /\ ui    = NoUi
  /\ page  = Unfilled("none")
  /\ goto  \in {"home", "mypage"}
  /\ reqs  = {}
  /\ sent  = 0
  /\ proven  = {uid} \ {0}
  /\ current = uid
  /\ late    = FALSE

-----------------------------------------------------------------------------
(* Overlays                                                                *)

\* removeNodeById("login-modal-overlay") finds the first one.
Close(u) == [u EXCEPT !.dialogs = IF @ = <<>> THEN @ ELSE Tail(@)]

\* closeLoginPage.
CloseLogin(u) == [Close(u) EXCEPT !.submitting = FALSE]

\* The overlay is appended behind the others.
Show(u, k) ==
  [u EXCEPT !.dialogs = Append(@, [no |-> u.made + 1, kind |-> k, busy |-> FALSE]),
            !.made = @ + 1]

\* clearTransientUi, then the style sheets are awaited, for the first time only.
Open(u, k) ==
  IF k \in u.loaded THEN Show(Close(u), k)
                    ELSE [Close(u) EXCEPT !.opening = @ \union {<<k, "css">>}]

Busy(u, no, b) ==
  [u EXCEPT !.dialogs = [i \in DOMAIN @ |-> IF @[i].no = no THEN [@[i] EXCEPT !.busy = b] ELSE @[i]]]

Top       == Last(ui.dialogs)
Covered   == ui.dialogs # <<>>
OnTop(k)  == Covered /\ Top.kind = k
Room      == ui.made < MaxDialogs    \* bound

\* openLoginPage: with a session, My page instead.
OpenLogin(u) ==
  IF login # 0 THEN ui' = u /\ goto' = "mypage"
               ELSE ui' = Open(u, "login") /\ UNCHANGED goto

\* The header's button.  Bound: one opening of a kind at a time.
ClickLogin ==
  /\ header = 0 /\ ~Covered /\ Room /\ <<"login", "css">> \notin ui.opening
  /\ OpenLogin(ui)
  /\ UNCHANGED <<rows, stored, page, reqs, sent, past>>

\* The links of the login dialog; its script may have to be loaded first.
ClickLink(k) ==
  /\ OnTop("login") /\ Room
  /\ \A s \in {"script", "css"} : <<k, s>> \notin ui.opening
  /\ ui' = IF k \in ui.loaded THEN Open(CloseLogin(ui), k)
                              ELSE [ui EXCEPT !.opening = @ \union {<<k, "script">>}]
  /\ UNCHANGED <<rows, stored, page, goto, reqs, sent, past>>

ScriptLoaded(k) ==
  /\ <<k, "script">> \in ui.opening
  /\ ui' = [Close(CloseLogin(ui)) EXCEPT !.opening = (@ \ {<<k, "script">>}) \union {<<k, "css">>}]
  /\ UNCHANGED <<rows, stored, page, goto, reqs, sent, past>>

\* A failed style sheet is logged and ignored.
StyleSettled(k) ==
  /\ <<k, "css">> \in ui.opening /\ Room
  /\ ui' = [Show(ui, k) EXCEPT !.opening = @ \ {<<k, "css">>}, !.loaded = @ \union {k}]
  /\ UNCHANGED <<rows, stored, page, goto, reqs, sent, past>>

\* The close button, or a click beside the dialog.
ClickClose ==
  /\ Covered
  /\ ui' = IF Top.kind = "login" THEN CloseLogin(ui) ELSE Close(ui)
  /\ UNCHANGED <<rows, stored, page, goto, reqs, sent, past>>

\* goToLoginPage of the other dialogs, by their cancel button.
ClickCancel ==
  /\ Covered /\ Top.kind # "login" /\ Room
  /\ OpenLogin(Close(ui))
  /\ UNCHANGED <<rows, stored, page, reqs, sent, past>>

-----------------------------------------------------------------------------
(* Requests                                                                *)

Ask(kind, user, phone, dialog) ==
  [no |-> sent + 1, kind |-> kind, user |-> user, phone |-> phone, dialog |-> dialog,
   pc |-> "sent", old |-> FALSE, lost |-> FALSE]

Send(r) == /\ sent < MaxSent
           /\ reqs' = reqs \union {r}
           /\ sent' = sent + 1

NoPhone == CHOOSE p \in Phone : TRUE

\* login.js: one flag for all its dialogs, one disabled button for each.
SubmitLogin(p) ==
  /\ OnTop("login") /\ ~ui.submitting /\ ~Top.busy
  /\ Send(Ask("login", 0, p, Top.no))
  /\ ui' = [Busy(ui, Top.no, TRUE) EXCEPT !.submitting = TRUE]
  /\ UNCHANGED <<rows, stored, page, goto, past>>

\* signup.js asks whether the number is free before it sets its flag.
SubmitSignup(p) ==
  /\ OnTop("signup") /\ ~Top.busy
  /\ Send(Ask("check", 0, p, Top.no))
  /\ UNCHANGED <<rows, stored, ui, page, goto, past>>

\* pwfind.js, the two forms.
SubmitFind(k, p) ==
  /\ OnTop(k) /\ ~Top.busy
  /\ Send(Ask(k, 0, p, Top.no))
  /\ ui' = Busy(ui, Top.no, TRUE)
  /\ UNCHANGED <<rows, stored, page, goto, past>>

SubmitVerify(p) == SubmitFind("verify", p)
SubmitReset(p)  == SubmitFind("reset", p)

\* edit.js and changepw.js post for the user_id stored now, whoever the form is about.
SubmitForm(p) ==
  /\ page.view \in {"edit", "changepw"} /\ page.form /\ ~page.busy
  /\ ~Covered /\ uid # 0
  /\ page.view = "changepw" => p = NoPhone
  /\ Send(Ask(page.view, uid, p, 0))
  /\ page' = [page EXCEPT !.busy = TRUE]
  /\ UNCHANGED <<rows, stored, ui, goto, past>>

-----------------------------------------------------------------------------
(* The servers                                                             *)

Becomes(r, s) ==
  reqs' = (reqs \ {r}) \union (IF s.lost /\ s.pc \in {"ok", "no"} THEN {} ELSE {s})

Taken(p)  == p \in Range(rows)
IdOf(p)   == CHOOSE i \in DOMAIN rows : rows[i] = p
Writes(r) == r.kind \in {"signup", "edit"}

\* What the answer of a request may be.  Reads and password changes are decided when they
\* are answered: a password may be wrong, the replica may lag behind, any of them may fail.
Outcomes(r) ==
  IF r.lost \/ r.pc = "looked" \/ (r.pc = "sent" /\ Writes(r)) THEN {}
  ELSE IF r.pc # "sent" THEN {r.pc = "ok"}
  ELSE IF r.kind \in {"login", "verify", "reset"} /\ ~Taken(r.phone) THEN {FALSE}
  ELSE BOOLEAN

\* auth_signup and auth_edit_user: the SELECT for another account with the number.
Look(r) ==
  /\ r.pc = "sent" /\ Writes(r)
  /\ Becomes(r, [r EXCEPT !.pc = IF \E i \in DOMAIN rows : rows[i] = r.phone /\ i # r.user
                                 THEN "no" ELSE "looked"])
  /\ UNCHANGED <<rows, stored, ui, page, goto, sent, past>>

\* Mutant: the table without its unique key.
WriteAnyRow(r) ==
  /\ r.pc = "looked"
  /\ rows' = IF r.kind = "signup" THEN Append(rows, r.phone) ELSE [rows EXCEPT ![r.user] = r.phone]
  /\ Becomes(r, [r EXCEPT !.pc = "ok"])
  /\ UNCHANGED <<stored, ui, page, goto, sent, past>>

\* The INSERT or UPDATE, which the unique key of phone may refuse; the answer may get lost.
WriteRow(r) ==
  /\ r.pc = "looked"
  /\ IF \E i \in DOMAIN rows : rows[i] = r.phone /\ i # r.user
       THEN /\ Becomes(r, [r EXCEPT !.pc = "no"])
            /\ UNCHANGED rows
       ELSE /\ rows' = IF r.kind = "signup" THEN Append(rows, r.phone)
                                            ELSE [rows EXCEPT ![r.user] = r.phone]
            /\ \E pc \in {"ok", "no"} : Becomes(r, [r EXCEPT !.pc = pc])
  /\ UNCHANGED <<stored, ui, page, goto, sent, past>>

-----------------------------------------------------------------------------
(* The session                                                             *)

\* Mutant: user_id is stored once.
SetLoginUserOnce(u) ==
  /\ login' = u
  /\ uid' = IF uid = 0 THEN u ELSE uid

\* setLoginUser and patchLoginUser: both keys, whatever was there.
SetLoginUser(u) ==
  /\ login' = u
  /\ uid' = u

ClearLoginUser ==
  /\ login' = 0
  /\ uid' = 0

\* What every pending request of the earlier session is from now on.
Aged(requests) == {[r EXCEPT !.old = TRUE] : r \in requests}

\* getLoginUser drops loginUser when its time is over; user_id stays.
Expire ==
  /\ login # 0
  /\ login' = 0
  /\ UNCHANGED <<rows, uid, header, ui, page, goto, reqs, sent, past>>

\* head.js.
Logout ==
  /\ header # 0 /\ ~Covered
  /\ ClearLoginUser
  /\ ui' = CloseLogin(ui)
  /\ header' = 0
  /\ goto' = "home"
  /\ reqs' = Aged(reqs)
  /\ current' = 0
  /\ late' = FALSE
  /\ UNCHANGED <<rows, page, sent, proven>>

-----------------------------------------------------------------------------
(* Answers                                                                 *)

\* Mutant: the flag is left to closeLoginPage.
FinallyIfClosed(u, r) == Busy(u, r.dialog, FALSE)

\* The finally branch of the login handler.
Finally(u, r) == [Busy(u, r.dialog, FALSE) EXCEPT !.submitting = FALSE]

\* Mutant: any answer with the user's number is taken for a success.
AnswerLoginUnread(r, ok) ==
  /\ r.kind = "login"
  /\ Taken(r.phone)
  /\ SetLoginUser(IdOf(r.phone)) /\ header' = IdOf(r.phone)
  /\ ui' = Finally(CloseLogin(ui), r)
  /\ reqs' = Aged(reqs \ {r})
  /\ current' = IdOf(r.phone) /\ late' = FALSE
  /\ proven' = IF ok THEN proven \union {IdOf(r.phone)} ELSE proven
  /\ UNCHANGED <<rows, page, goto, sent>>

\* A login that is answered counts, whether its dialog is still there or not, and the
\* dialog that is closed is the first on the page.
AnswerLogin(r, ok) ==
  /\ r.kind = "login"
  /\ IF ok
       THEN /\ SetLoginUser(IdOf(r.phone))
            /\ header' = IdOf(r.phone)
            /\ ui' = Finally(CloseLogin(ui), r)
            /\ reqs' = Aged(reqs \ {r})
            /\ proven' = proven \union {IdOf(r.phone)}
            /\ current' = IdOf(r.phone)
            /\ late' = FALSE
       ELSE /\ ui' = Finally(ui, r)
            /\ reqs' = reqs \ {r}
            /\ UNCHANGED <<stored, past>>
  /\ UNCHANGED <<rows, page, goto, sent>>

\* The number is free: only now the button is disabled, and the account is asked for.
AnswerCheck(r, ok) ==
  /\ r.kind = "check"
  /\ IF ok
       THEN /\ reqs' = (reqs \ {r}) \union {[r EXCEPT !.kind = "signup"]}
            /\ ui' = Busy(ui, r.dialog, TRUE)
       ELSE /\ reqs' = reqs \ {r}
            /\ UNCHANGED ui
  /\ UNCHANGED <<rows, stored, page, goto, sent, past>>

\* The verified user gets the reset dialog, in the place of the first overlay on the page.
AnswerVerify(r, ok) ==
  /\ r.kind = "verify"
  /\ reqs' = reqs \ {r}
  /\ ok => Room
  /\ LET done == Busy(ui, r.dialog, FALSE) IN
       ui' = IF ok THEN Show(Close(done), "reset") ELSE done
  /\ UNCHANGED <<rows, stored, page, goto, sent, past>>

\* A new account or password leads to the login dialog, in the same way.
BackToLogin(r, ok) ==
  /\ reqs' = reqs \ {r}
  /\ LET done == Busy(ui, r.dialog, FALSE) IN
       IF ok THEN Room /\ OpenLogin(Close(done)) ELSE ui' = done /\ UNCHANGED goto
  /\ UNCHANGED <<rows, stored, page, sent, past>>

AnswerSignup(r, ok) == r.kind = "signup" /\ BackToLogin(r, ok)
AnswerReset(r, ok)  == r.kind = "reset"  /\ BackToLogin(r, ok)

\* loadMyPageUser: the answer is written into the session there is by now.
AnswerProfile(r, ok) ==
  /\ r.kind = "profile"
  /\ reqs' = reqs \ {r}
  /\ page' = [page EXCEPT !.loading = FALSE]
  /\ IF ok
       THEN SetLoginUser(r.user) /\ late' = (late \/ r.old)
       ELSE UNCHANGED <<login, uid, late>>
  /\ UNCHANGED <<rows, header, ui, goto, sent, proven, current>>

\* initUserEditPage: the form, or an error in its place.
AnswerForm(r, ok) ==
  /\ r.kind = "form"
  /\ reqs' = reqs \ {r}
  /\ page' = [page EXCEPT !.loading = FALSE, !.form = ok]
  /\ UNCHANGED <<rows, stored, ui, goto, sent, past>>

\* window.location.href: nothing of the page survives but the two keys and what the
\* servers are doing.
Reload(requests) ==
  /\ ui' = [NoUi EXCEPT !.made = ui.made]
  /\ page' = Unfilled("none")
  /\ goto' = "mypage"
  /\ header' = login'
  /\ reqs' = {[r EXCEPT !.lost = TRUE] : r \in {q \in requests : Writes(q) /\ q.pc \in {"sent", "looked"}}}

\* An edit writes its answer into the session, and both forms load My page anew.
AnswerEdit(r, ok) ==
  /\ r.kind \in {"edit", "changepw"}
  /\ IF ok
       THEN /\ IF r.kind = "edit" THEN SetLoginUser(r.user) /\ late' = (late \/ r.old)
                                  ELSE UNCHANGED <<login, uid, late>>
            /\ Reload(reqs \ {r})
       ELSE /\ page' = IF page.view = r.kind THEN [page EXCEPT !.busy = FALSE] ELSE page
            /\ reqs' = reqs \ {r}
            /\ UNCHANGED <<stored, ui, goto, late>>
  /\ UNCHANGED <<rows, sent, proven, current>>

-----------------------------------------------------------------------------
(* Pages                                                                   *)

\* The header's name, the buttons of My page, the cancel buttons.
Navigate(v) ==
  /\ ~Covered
  /\ v = "mypage" => header # 0 \/ page.view \in {"edit", "changepw"}
  /\ v \in {"edit", "changepw"} => page.view = "mypage"
  /\ goto' = v
  /\ UNCHANGED <<rows, stored, ui, page, reqs, sent, past>>

\* The router renders one page after the other; each clears the overlays first.  The
\* flags of edit.js and changepw.js outlive the page.
Render ==
  /\ goto # "none" /\ ~page.loading
  /\ goto' = "none"
  /\ ui' = Close(ui)
  /\ LET asks == goto \in {"mypage", "edit"} /\ uid # 0
         busy == \E r \in reqs : r.kind = goto /\ ~r.lost IN
       /\ page' = [view |-> goto, loading |-> asks, form |-> goto = "changepw", busy |-> busy]
       /\ IF asks THEN Send(Ask(IF goto = "edit" THEN "form" ELSE "profile", uid, NoPhone, 0))
                  ELSE UNCHANGED <<reqs, sent>>
  /\ UNCHANGED <<rows, stored, past>>

-----------------------------------------------------------------------------
Next ==
  \/ ClickLogin \/ ClickClose \/ ClickCancel
  \/ \E k \in {"signup", "verify"} : ClickLink(k)
  \/ \E k \in Kinds : ScriptLoaded(k) \/ StyleSettled(k)
  \/ \E p \in Phone : SubmitLogin(p) \/ SubmitSignup(p) \/ SubmitForm(p)
  \/ \E p \in Phone : SubmitVerify(p) \/ SubmitReset(p)
  \/ \E r \in reqs : Look(r) \/ WriteRow(r)
  \/ \E r \in reqs : \E ok \in Outcomes(r) :
       \/ AnswerLogin(r, ok) \/ AnswerCheck(r, ok) \/ AnswerVerify(r, ok)
       \/ AnswerSignup(r, ok) \/ AnswerReset(r, ok)
       \/ AnswerProfile(r, ok) \/ AnswerForm(r, ok) \/ AnswerEdit(r, ok)
  \/ Expire \/ Logout
  \/ \E v \in Views : Navigate(v)
  \/ Render

Spec == Init /\ [][Next]_vars

-----------------------------------------------------------------------------
(* Properties                                                              *)

\* Whoever the page acts for or greets is the user of the last login, and nobody after
\* a logout, unless a request of an earlier session was answered afterwards: an expired
\* session, an abandoned dialog or a slow page alone do not change the user.
SessionFollowsLogin ==
  late \/ (login \in {0, current} /\ uid \in {0, current} /\ header \in {0, current})

\* Nobody is acted for whose password the server has not accepted for this browser.
OnlyProvenUsers == {login, uid, header} \ {0} \subseteq proven

\* No phone number gets a second account, however sign-ups and edits interleave between
\* their check and their write.
AccountsAreUnique == IsInjective(rows)

\* A form that refuses to be submitted is waiting for an answer: no flag or disabled
\* button outlives its request.
NoDeadButton ==
  /\ ui.submitting => \E r \in reqs : r.kind = "login"
  /\ \A i \in DOMAIN ui.dialogs : ui.dialogs[i].busy => \E r \in reqs : r.dialog = ui.dialogs[i].no
  /\ page.busy => \E r \in reqs : r.kind = page.view

=============================================================================
