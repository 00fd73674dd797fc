--------------------------- MODULE UserSessionProofs ---------------------------
(***************************************************************************)
(* Proofs about UserSession for any phone numbers and accounts and any     *)
(* number of requests and dialogs: the bounds of the model are not used.   *)
(***************************************************************************)
EXTENDS UserSession, TLAPS

\* The fields every request has; EXCEPT keeps them.
IsRequest(r) ==
  /\ DOMAIN r = {"no", "kind", "user", "phone", "dialog", "pc", "old", "lost"}
  /\ r.phone \in Phone
  /\ r.old \in BOOLEAN

\* A request acts for nobody or for a user who has proven himself, for the present user
\* unless it is of an earlier session or a late answer has changed the session since;
\* and a sign-up is about no account that exists, so that every row can be in its way.
Sound(r) ==
  /\ IsRequest(r)
  /\ r.user \in proven \union {0}
  /\ late \/ r.old \/ r.user \in {0, current}
  /\ r.kind \in {"check", "signup"} => r.user = 0

SessionInv ==
  /\ rows \in Seq(Phone)
  /\ late \in BOOLEAN
  /\ \A r \in reqs : Sound(r)
  /\ OnlyProvenUsers
  /\ SessionFollowsLogin
  /\ AccountsAreUnique

USE DEF stored, past, vars

LEMMA SessionInit == Init => SessionInv
<1> SUFFICES ASSUME Init PROVE SessionInv
  OBVIOUS
<1>1. rows \in Seq(Phone) /\ AccountsAreUnique
  BY RegisteredAssumption DEF Init, AccountsAreUnique
<1>2. late \in BOOLEAN /\ reqs = {}
  BY DEF Init
<1>3. OnlyProvenUsers
  BY DEF Init, OnlyProvenUsers
<1>4. SessionFollowsLogin
  BY DEF Init, SessionFollowsLogin
<1> QED
  BY <1>1, <1>2, <1>3, <1>4 DEF SessionInv

\* A step that changes neither the table nor the session keeps the invariant if the
\* requests it makes or changes are sound.
LEMMA SessionUntouched ==
  ASSUME SessionInv, UNCHANGED <<rows, stored, past>>,
         \A r \in reqs' : r \in reqs \/ Sound(r)
  PROVE  SessionInv'
<1>1. \A r \in reqs' : Sound(r)
  BY DEF SessionInv
<1>2. \A r \in reqs' : Sound(r)'
  BY <1>1 DEF Sound, IsRequest
<1>3. OnlyProvenUsers' /\ SessionFollowsLogin' /\ AccountsAreUnique'
  BY DEF SessionInv, OnlyProvenUsers, SessionFollowsLogin, AccountsAreUnique
<1> QED
  BY <1>2, <1>3 DEF SessionInv

\* What the client sends is sound, for nobody or for the user_id of now.
LEMMA AskIsSound ==
  ASSUME SessionInv, NEW kind, NEW user \in {0, uid}, NEW phone \in Phone, NEW dialog,
         kind \in {"check", "signup"} => user = 0
  PROVE  Sound(Ask(kind, user, phone, dialog))
<1>1. user \in proven \union {0}
  BY DEF SessionInv, OnlyProvenUsers
<1>2. late \/ user \in {0, current}
  BY DEF SessionInv, SessionFollowsLogin
<1> QED
  BY <1>1, <1>2 DEF Ask, Sound, IsRequest

LEMMA NoPhoneIsPhone == NoPhone \in Phone
  BY PhoneAssumption DEF NoPhone

\* The steps of the servers and of the sign-up that change a request keep what Sound says.
LEMMA ChangedIsSound ==
  ASSUME NEW r, Sound(r)
  PROVE  /\ \A p : Sound([r EXCEPT !.pc = p])
         /\ Sound([r EXCEPT !.lost = TRUE])
         /\ r.kind = "check" => Sound([r EXCEPT !.kind = "signup"])
<1>1. ASSUME NEW p PROVE Sound([r EXCEPT !.pc = p])
  BY DEF Sound, IsRequest
<1>2. Sound([r EXCEPT !.lost = TRUE])
  BY DEF Sound, IsRequest
<1>3. r.kind = "check" => Sound([r EXCEPT !.kind = "signup"])
  BY DEF Sound, IsRequest
<1> QED
  BY <1>1, <1>2, <1>3

\* Requests of an earlier session are sound in any later one.
LEMMA AgedIsSound ==
  ASSUME NEW r, Sound(r), proven \subseteq proven'
  PROVE  Sound([r EXCEPT !.old = TRUE])'
  BY DEF Sound, IsRequest

-----------------------------------------------------------------------------
(* The steps that change the session                                       *)

LEMMA LogoutStep == ASSUME SessionInv, Logout PROVE SessionInv'
<1> USE DEF Logout
<1>1. \A r \in reqs' : Sound(r)'
  BY AgedIsSound DEF SessionInv, Aged
<1>2. OnlyProvenUsers' /\ SessionFollowsLogin'
  BY DEF SessionInv, OnlyProvenUsers, SessionFollowsLogin, ClearLoginUser
<1> QED
  BY <1>1, <1>2 DEF SessionInv, AccountsAreUnique

LEMMA ExpireStep == ASSUME SessionInv, Expire PROVE SessionInv'
<1> USE DEF Expire
<1>1. \A r \in reqs' : Sound(r)'
  BY DEF SessionInv, Sound, IsRequest
<1>2. OnlyProvenUsers' /\ SessionFollowsLogin'
  BY DEF SessionInv, OnlyProvenUsers, SessionFollowsLogin
<1> QED
  BY <1>1, <1>2 DEF SessionInv, AccountsAreUnique

\* A login ages every request there is; its user becomes the current and a proven one.
LEMMA AnswerLoginStep ==
  ASSUME SessionInv, NEW r \in reqs, NEW ok, AnswerLogin(r, ok)
  PROVE  SessionInv'
<1> USE DEF AnswerLogin
<1>1. CASE ok
  <2>1. \A q \in reqs' : Sound(q)'
    BY <1>1, AgedIsSound DEF SessionInv, Aged
  <2>2. OnlyProvenUsers' /\ SessionFollowsLogin'
    BY <1>1 DEF SessionInv, OnlyProvenUsers, SessionFollowsLogin, SetLoginUser
  <2> QED
    BY <1>1, <2>1, <2>2 DEF SessionInv, AccountsAreUnique
<1>2. CASE ~ok
  BY <1>2, SessionUntouched
<1> QED
  BY <1>1, <1>2

\* An answer is written into the session: its user is proven, and another than the
\* current one only if the answer is late.
LEMMA PatchedSession ==
  ASSUME SessionInv, NEW r \in reqs, SetLoginUser(r.user), late' = (late \/ r.old),
         header' \in {header, login'},
         UNCHANGED <<rows, proven, current>>,
         \A q \in reqs' : q \in reqs \/ Sound(q)
  PROVE  SessionInv'
<1>1. Sound(r) /\ r.old \in BOOLEAN /\ late \in BOOLEAN
  BY DEF SessionInv, Sound, IsRequest
<1>2. \A q \in reqs' : Sound(q)'
  <2> SUFFICES ASSUME NEW q \in reqs' PROVE Sound(q)'
    OBVIOUS
  <2>1. Sound(q)
    BY DEF SessionInv
  <2> QED
    BY <1>1, <2>1 DEF Sound, IsRequest
<1>3. OnlyProvenUsers'
  BY <1>1 DEF SessionInv, OnlyProvenUsers, Sound, SetLoginUser
<1>4. SessionFollowsLogin'
  BY <1>1 DEF SessionInv, SessionFollowsLogin, Sound, SetLoginUser
<1> QED
  BY <1>1, <1>2, <1>3, <1>4 DEF SessionInv, AccountsAreUnique

LEMMA AnswerProfileStep ==
  ASSUME SessionInv, NEW r \in reqs, NEW ok, AnswerProfile(r, ok)
  PROVE  SessionInv'
<1> USE DEF AnswerProfile
<1>1. CASE ok
  BY <1>1, PatchedSession
<1>2. CASE ~ok
  BY <1>2, SessionUntouched
<1> QED
  BY <1>1, <1>2

\* My page is loaded anew: what the servers still do is not lost, its answers are.
LEMMA AnswerEditStep ==
  ASSUME SessionInv, NEW r \in reqs, NEW ok, AnswerEdit(r, ok)
  PROVE  SessionInv'
<1> USE DEF AnswerEdit
<1>1. CASE ok
  <2>1. \A q \in reqs' : q \in reqs \/ Sound(q)
    <3> SUFFICES ASSUME NEW q \in reqs' PROVE Sound(q)
      OBVIOUS
    <3>1. PICK p \in reqs : q = [p EXCEPT !.lost = TRUE]
      BY <1>1 DEF Reload
    <3>2. Sound(p)
      BY DEF SessionInv
    <3> QED
      BY <3>1, <3>2, ChangedIsSound
  <2>2. header' = login'
    BY <1>1 DEF Reload
  <2>3. CASE r.kind = "edit"
    BY <1>1, <2>1, <2>2, <2>3, PatchedSession
  <2>4. CASE r.kind # "edit"
    <3>1. UNCHANGED <<rows, login, uid, proven, current, late>>
      BY <1>1, <2>4
    <3>2. \A q \in reqs' : Sound(q)'
      BY <2>1, <3>1 DEF SessionInv, Sound, IsRequest
    <3>3. OnlyProvenUsers' /\ SessionFollowsLogin'
      BY <2>2, <3>1 DEF SessionInv, OnlyProvenUsers, SessionFollowsLogin
    <3> QED
      BY <3>1, <3>2, <3>3 DEF SessionInv, AccountsAreUnique
  <2> QED
    BY <2>3, <2>4
<1>2. CASE ~ok
  BY <1>2, SessionUntouched
<1> QED
  BY <1>1, <1>2

-----------------------------------------------------------------------------
(* The table                                                               *)

\* A new number at the end, or in the place of an old one, keeps the numbers distinct.
LEMMA AppendKeepsUnique ==
  ASSUME NEW s \in Seq(Phone), IsInjective(s), NEW p \in Phone,
         \A i \in DOMAIN s : s[i] # p
  PROVE  Append(s, p) \in Seq(Phone) /\ IsInjective(Append(s, p))
<1> DEFINE t == Append(s, p)
<1>1. /\ t \in Seq(Phone)
      /\ Len(s) \in Nat /\ DOMAIN s = 1..Len(s)
      /\ DOMAIN t = 1..(Len(s) + 1)
  OBVIOUS
<1>2. t[Len(s) + 1] = p /\ \A i \in 1..Len(s) : t[i] = s[i]
  BY <1>1
<1> HIDE DEF t
<1>3. ASSUME NEW i \in DOMAIN t, NEW j \in DOMAIN t, t[i] = t[j] PROVE i = j
  <2>1. (i \in 1..Len(s) \/ i = Len(s) + 1) /\ (j \in 1..Len(s) \/ j = Len(s) + 1)
    BY <1>1
  <2> QED
    BY <1>1, <1>2, <1>3, <2>1 DEF IsInjective
<1>4. IsInjective(t)
  BY <1>3 DEF IsInjective
<1> QED
  BY <1>1, <1>4 DEF t

LEMMA ReplaceKeepsUnique ==
  ASSUME NEW s \in Seq(Phone), IsInjective(s), NEW p \in Phone, NEW n,
         \A i \in DOMAIN s : s[i] = p => i = n
  PROVE  [s EXCEPT ![n] = p] \in Seq(Phone) /\ IsInjective([s EXCEPT ![n] = p])
<1> DEFINE t == [s EXCEPT ![n] = p]
<1>1. DOMAIN s = 1..Len(s) /\ Len(s) \in Nat /\ \A i \in 1..Len(s) : s[i] \in Phone
  OBVIOUS
<1>2. DOMAIN t = 1..Len(s) /\ \A i \in 1..Len(s) : t[i] = IF i = n THEN p ELSE s[i]
  BY <1>1
<1>3. t \in [1..Len(s) -> Phone]
  BY <1>1
<1>4. t \in Seq(Phone)
  BY <1>1, <1>3
<1> HIDE DEF t
<1>5. IsInjective(t)
  BY <1>1, <1>2 DEF IsInjective
<1> QED
  BY <1>4, <1>5 DEF t

\* The unique key of phone refuses a number that another row has, so a table without
\* doubles stays one.
LEMMA WriteRowStep == ASSUME SessionInv, NEW r \in reqs, WriteRow(r) PROVE SessionInv'
<1> USE DEF WriteRow
<1>1. Sound(r) /\ r.phone \in Phone
  BY DEF SessionInv, Sound, IsRequest
<1>2. \A q \in reqs' : q \in reqs \/ Sound(q)
  <2>1. PICK pc \in {"ok", "no"} : Becomes(r, [r EXCEPT !.pc = pc])
    OBVIOUS
  <2>2. reqs' \subseteq reqs \union {[r EXCEPT !.pc = pc]}
    BY <2>1 DEF Becomes
  <2>3. Sound([r EXCEPT !.pc = pc])
    BY <1>1, ChangedIsSound
  <2> QED
    BY <2>2, <2>3
<1>3. UNCHANGED <<stored, past>>
  OBVIOUS
<1>4. CASE \E i \in DOMAIN rows : rows[i] = r.phone /\ i # r.user
  BY <1>2, <1>3, <1>4, SessionUntouched
<1>5. CASE ~ \E i \in DOMAIN rows : rows[i] = r.phone /\ i # r.user
  <2>1. rows \in Seq(Phone) /\ IsInjective(rows)
    BY DEF SessionInv, AccountsAreUnique
  <2>2. rows' = IF r.kind = "signup" THEN Append(rows, r.phone) ELSE [rows EXCEPT ![r.user] = r.phone]
    BY <1>5
  <2>3. rows' \in Seq(Phone) /\ AccountsAreUnique'
    <3>1. CASE r.kind = "signup"
      <4>1. \A i \in DOMAIN rows : rows[i] # r.phone
        <5>1. r.user = 0 /\ 0 \notin DOMAIN rows
          BY <1>1, <2>1, <3>1 DEF Sound
        <5> QED
          BY <1>5, <5>1
      <4> QED
        BY <1>1, <2>1, <2>2, <3>1, <4>1, AppendKeepsUnique DEF AccountsAreUnique
    <3>2. CASE r.kind # "signup"
      <4>1. \A i \in DOMAIN rows : rows[i] = r.phone => i = r.user
        BY <1>5
      <4> QED
        BY <1>1, <2>1, <2>2, <3>2, <4>1, ReplaceKeepsUnique DEF AccountsAreUnique
    <3> QED
      BY <3>1, <3>2
  <2>4. \A q \in reqs' : Sound(q)'
    BY <1>2, <1>3 DEF SessionInv, Sound, IsRequest
  <2>5. OnlyProvenUsers' /\ SessionFollowsLogin'
    BY <1>3 DEF SessionInv, OnlyProvenUsers, SessionFollowsLogin
  <2> QED
    BY <1>3, <2>3, <2>4, <2>5 DEF SessionInv
<1> QED
  BY <1>4, <1>5

-----------------------------------------------------------------------------
(* The other steps                                                         *)

\* Requests are sent for nobody, or for the stored user_id.
LEMMA SendStep ==
  ASSUME SessionInv,
         \/ \E p \in Phone : SubmitLogin(p) \/ SubmitSignup(p) \/ SubmitForm(p)
         \/ \E p \in Phone : SubmitVerify(p) \/ SubmitReset(p)
         \/ Render
  PROVE  SessionInv'
<1>1. ASSUME NEW p \in Phone, SubmitLogin(p) PROVE SessionInv'
  BY <1>1, AskIsSound, SessionUntouched DEF SubmitLogin, Send
<1>2. ASSUME NEW p \in Phone, SubmitSignup(p) PROVE SessionInv'
  BY <1>2, AskIsSound, SessionUntouched DEF SubmitSignup, Send
<1>3. ASSUME NEW p \in Phone, SubmitForm(p) PROVE SessionInv'
  BY <1>3, AskIsSound, SessionUntouched DEF SubmitForm, Send
<1>4. ASSUME NEW p \in Phone, SubmitVerify(p) \/ SubmitReset(p) PROVE SessionInv'
  <2>1. PICK k \in {"verify", "reset"} : SubmitFind(k, p)
    BY <1>4 DEF SubmitVerify, SubmitReset
  <2> QED
    BY <2>1, AskIsSound, SessionUntouched DEF SubmitFind, Send
<1>5. CASE Render
  <2>1. UNCHANGED <<rows, stored, past>>
    BY <1>5 DEF Render
  <2>2. \A r \in reqs' : r \in reqs \/ Sound(r)
    BY <1>5, AskIsSound, NoPhoneIsPhone DEF Render, Send
  <2> QED
    BY <2>1, <2>2, SessionUntouched
<1> QED
  BY <1>1, <1>2, <1>3, <1>4, <1>5

\* The servers' SELECT, and the answers that leave the session alone.
LEMMA AnswerStep ==
  ASSUME SessionInv, NEW r \in reqs, NEW ok,
         Look(r) \/ AnswerCheck(r, ok) \/ AnswerVerify(r, ok) \/ AnswerSignup(r, ok) \/ AnswerReset(r, ok) \/ AnswerForm(r, ok)
  PROVE  SessionInv'
<1>1. Sound(r)
  BY DEF SessionInv
<1>2. CASE Look(r)
  <2>1. PICK pc : Becomes(r, [r EXCEPT !.pc = pc])
    BY <1>2 DEF Look
  <2>2. reqs' \subseteq reqs \union {[r EXCEPT !.pc = pc]}
    BY <2>1 DEF Becomes
  <2>3. Sound([r EXCEPT !.pc = pc])
    BY <1>1, ChangedIsSound
  <2> QED
    BY <1>2, <2>2, <2>3, SessionUntouched DEF Look
<1>3. CASE AnswerCheck(r, ok)
  <2>1. \A q \in reqs' : q \in reqs \/ Sound(q)
    BY <1>1, <1>3, ChangedIsSound DEF AnswerCheck
  <2> QED
    BY <1>3, <2>1, SessionUntouched DEF AnswerCheck
<1>4. CASE AnswerVerify(r, ok) \/ AnswerSignup(r, ok) \/ AnswerReset(r, ok)
  BY <1>4, SessionUntouched DEF AnswerVerify, AnswerSignup, AnswerReset, BackToLogin
<1>5. CASE AnswerForm(r, ok)
  BY <1>5, SessionUntouched DEF AnswerForm
<1> QED
  BY <1>2, <1>3, <1>4, <1>5

\* What is clicked, opened and loaded changes overlays and the next page only.
LEMMA PageStep ==
  ASSUME SessionInv,
         \/ ClickLogin \/ ClickClose \/ ClickCancel
         \/ \E k \in {"signup", "verify"} : ClickLink(k)
         \/ \E k \in Kinds : ScriptLoaded(k) \/ StyleSettled(k)
         \/ \E v \in Views : Navigate(v)
  PROVE  SessionInv'
<1>1. UNCHANGED <<rows, stored, past, reqs>>
  BY DEF ClickLogin, ClickClose, ClickCancel, ClickLink, ScriptLoaded, StyleSettled, Navigate
<1> QED
  BY <1>1, SessionUntouched

LEMMA SessionStep == SessionInv /\ [Next]_vars => SessionInv'
<1> SUFFICES ASSUME SessionInv, [Next]_vars PROVE SessionInv'
  OBVIOUS
<1>1. ASSUME NEW r \in reqs, Look(r) PROVE SessionInv'
  BY <1>1, AnswerStep
<1>2. ASSUME NEW r \in reqs, WriteRow(r) PROVE SessionInv'
  BY <1>2, WriteRowStep
<1>3. ASSUME NEW r \in reqs, NEW ok \in Outcomes(r),
             \/ AnswerLogin(r, ok) \/ AnswerCheck(r, ok) \/ AnswerVerify(r, ok) \/ AnswerSignup(r, ok) \/ AnswerReset(r, ok)
             \/ AnswerProfile(r, ok) \/ AnswerForm(r, ok) \/ AnswerEdit(r, ok)
      PROVE  SessionInv'
  <2>1. CASE AnswerLogin(r, ok)
    BY <2>1, AnswerLoginStep
  <2>2. CASE AnswerProfile(r, ok)
    BY <2>2, AnswerProfileStep
  <2>3. CASE AnswerEdit(r, ok)
    BY <2>3, AnswerEditStep
  <2>4. CASE AnswerCheck(r, ok) \/ AnswerVerify(r, ok) \/ AnswerSignup(r, ok) \/ AnswerReset(r, ok) \/ AnswerForm(r, ok)
    BY <2>4, AnswerStep
  <2> QED
    BY <1>3, <2>1, <2>2, <2>3, <2>4
<1>4. CASE UNCHANGED vars
  BY <1>4, SessionUntouched
<1> QED
  BY <1>1, <1>2, <1>3, <1>4, PageStep, SendStep, ExpireStep, LogoutStep DEF Next

LEMMA SessionInvariant == Spec => []SessionInv
  BY SessionInit, SessionStep, PTL DEF Spec

-----------------------------------------------------------------------------
(* Buttons that wait                                                       *)

\* The variables of the client that its buttons depend on, without the model's bounds.
DialogRecord == [no : Nat, kind : Kinds, busy : BOOLEAN]
Ui == [dialogs : Seq(DialogRecord), submitting : BOOLEAN,
       opening : SUBSET (Kinds \X {"script", "css"}), loaded : SUBSET Kinds, made : Nat]
View == Views \union {"none"}
Page == [view : View, loading : BOOLEAN, form : BOOLEAN, busy : BOOLEAN]

Dialogs(u) == {u.dialogs[i] : i \in DOMAIN u.dialogs}

\* A request that will be answered, and one that a button of a dialog is waiting for.
Awaited(r) == ~r.lost
OfDialog(r) == r.kind \in Kinds /\ Awaited(r)

\* Whoever waits has someone to wait for, among the requests R.
FlagIsWaiting(u, R)    == u.submitting => \E r \in R : r.kind = "login" /\ Awaited(r)
DialogsAreWaiting(u, R) == \A d \in Dialogs(u) : d.busy => \E r \in R : OfDialog(r) /\ r.dialog = d.no
PageIsWaiting(p, R) ==
  p.busy => p.view \in View /\ \E r \in R : r.kind = p.view /\ Awaited(r)

ButtonInv ==
  /\ ui \in Ui /\ page \in Page /\ goto \in View
  /\ FlagIsWaiting(ui, reqs) /\ DialogsAreWaiting(ui, reqs) /\ PageIsWaiting(page, reqs)

\* Checks and reads disable no button; of the others, those of R are still awaited in S.
Keeps(R, S) ==
  \A r \in R : Awaited(r) /\ r.kind \notin {"check", "profile", "form"} =>
    \E s \in S : s.kind = r.kind /\ s.dialog = r.dialog /\ Awaited(s)

LEMMA KeptAreAwaited ==
  ASSUME NEW R, NEW S, Keeps(R, S)
  PROVE  /\ \A u : FlagIsWaiting(u, R) => FlagIsWaiting(u, S)
         /\ \A u : DialogsAreWaiting(u, R) => DialogsAreWaiting(u, S)
         /\ \A p : PageIsWaiting(p, R) => PageIsWaiting(p, S)
<1>1. ASSUME NEW u, FlagIsWaiting(u, R) PROVE FlagIsWaiting(u, S)
  BY <1>1 DEF FlagIsWaiting, Keeps
<1>2. ASSUME NEW u, DialogsAreWaiting(u, R) PROVE DialogsAreWaiting(u, S)
  BY <1>2 DEF DialogsAreWaiting, OfDialog, Keeps, Kinds
<1>3. ASSUME NEW p, PageIsWaiting(p, R) PROVE PageIsWaiting(p, S)
  BY <1>3 DEF PageIsWaiting, Keeps, View, Views
<1> QED
  BY <1>1, <1>2, <1>3

-----------------------------------------------------------------------------
(* What the overlays' operators do to the dialogs                          *)

LEMMA CloseDialogs ==
  ASSUME NEW u \in Ui
  PROVE  /\ Close(u) \in Ui /\ Dialogs(Close(u)) \subseteq Dialogs(u)
         /\ Close(u).submitting = u.submitting
         /\ CloseLogin(u) \in Ui /\ Dialogs(CloseLogin(u)) \subseteq Dialogs(u)
         /\ CloseLogin(u).submitting = FALSE
<1>1. u.dialogs \in Seq(DialogRecord)
  BY DEF Ui
<1>2. CASE u.dialogs = <<>>
  BY <1>2 DEF Close, CloseLogin, Ui, Dialogs
<1>3. CASE u.dialogs # <<>>
  <2>1. /\ Tail(u.dialogs) \in Seq(DialogRecord)
        /\ \A i \in DOMAIN Tail(u.dialogs) : i + 1 \in DOMAIN u.dialogs /\ Tail(u.dialogs)[i] = u.dialogs[i + 1]
    BY <1>1, <1>3
  <2>2. Close(u) = [u EXCEPT !.dialogs = Tail(u.dialogs)]
    BY <1>3 DEF Close, Ui
  <2>3. Close(u) \in Ui /\ Close(u).dialogs = Tail(u.dialogs) /\ Close(u).submitting = u.submitting
    BY <2>1, <2>2 DEF Ui
  <2>4. Dialogs(Close(u)) \subseteq Dialogs(u)
    BY <2>1, <2>3 DEF Dialogs
  <2>5. CloseLogin(u) \in Ui /\ CloseLogin(u).dialogs = Close(u).dialogs /\ CloseLogin(u).submitting = FALSE
    BY <2>3 DEF CloseLogin, Ui
  <2> QED
    BY <2>3, <2>4, <2>5 DEF Dialogs
<1> QED
  BY <1>2, <1>3

LEMMA ShowDialogs ==
  ASSUME NEW u \in Ui, NEW k \in Kinds
  PROVE  /\ Show(u, k) \in Ui /\ Show(u, k).submitting = u.submitting
         /\ \A d \in Dialogs(Show(u, k)) : d \in Dialogs(u) \/ d.busy = FALSE
<1> DEFINE new == [no |-> u.made + 1, kind |-> k, busy |-> FALSE]
<1>1. u.dialogs \in Seq(DialogRecord) /\ new \in DialogRecord
  BY DEF Ui, DialogRecord
<1>2. /\ Append(u.dialogs, new) \in Seq(DialogRecord)
      /\ \A i \in DOMAIN Append(u.dialogs, new) :
            \/ i \in DOMAIN u.dialogs /\ Append(u.dialogs, new)[i] = u.dialogs[i]
            \/ Append(u.dialogs, new)[i] = new
  BY <1>1
<1>3. Show(u, k) = [u EXCEPT !.dialogs = Append(u.dialogs, new), !.made = u.made + 1]
  BY DEF Show, Ui
<1>4. new.busy = FALSE
  OBVIOUS
<1> HIDE DEF new
<1>5. Show(u, k) \in Ui /\ Show(u, k).dialogs = Append(u.dialogs, new) /\ Show(u, k).submitting = u.submitting
  <2> DEFINE D == Append(u.dialogs, new)
             m == u.made + 1
  <2>1. D \in Seq(DialogRecord) /\ m \in Nat /\ Show(u, k) = [u EXCEPT !.dialogs = D, !.made = m]
    BY <1>2, <1>3 DEF Ui
  <2> HIDE DEF D, m
  <2>2. Show(u, k) \in Ui /\ Show(u, k).dialogs = D /\ Show(u, k).submitting = u.submitting
    BY <2>1 DEF Ui
  <2> QED
    BY <2>2 DEF D
<1> QED
  BY <1>2, <1>4, <1>5 DEF Dialogs

LEMMA OpenDialogs ==
  ASSUME NEW u \in Ui, NEW k \in Kinds
  PROVE  /\ Open(u, k) \in Ui /\ Open(u, k).submitting = u.submitting
         /\ \A d \in Dialogs(Open(u, k)) : d \in Dialogs(u) \/ d.busy = FALSE
<1>1. Close(u) \in Ui /\ Dialogs(Close(u)) \subseteq Dialogs(u) /\ Close(u).submitting = u.submitting
  BY CloseDialogs
<1>2. CASE k \in u.loaded
  BY <1>1, <1>2, ShowDialogs DEF Open
<1>3. CASE k \notin u.loaded
  <2> DEFINE v == [Close(u) EXCEPT !.opening = @ \union {<<k, "css">>}]
  <2>1. v \in Ui /\ v.dialogs = Close(u).dialogs /\ v.submitting = Close(u).submitting
    BY <1>1 DEF Ui
  <2> QED
    BY <1>1, <1>3, <2>1 DEF Open, Dialogs
<1> QED
  BY <1>2, <1>3

LEMMA BusyDialogs ==
  ASSUME NEW u \in Ui, NEW no, NEW b \in BOOLEAN
  PROVE  /\ Busy(u, no, b) \in Ui /\ Busy(u, no, b).submitting = u.submitting
         /\ \A d \in Dialogs(Busy(u, no, b)) :
              \/ d \in Dialogs(u) /\ d.no # no
              \/ d.no = no /\ d.busy = b
<1> DEFINE D == u.dialogs
           E == [i \in DOMAIN D |-> IF D[i].no = no THEN [D[i] EXCEPT !.busy = b] ELSE D[i]]
<1>1. D \in Seq(DialogRecord) /\ DOMAIN D = 1..Len(D) /\ Len(D) \in Nat
  BY DEF Ui
<1>2. \A i \in DOMAIN D : D[i] \in DialogRecord
  BY <1>1
<1>3. Busy(u, no, b) = [u EXCEPT !.dialogs = E]
  BY DEF Busy, Ui
<1>4. \A i \in DOMAIN D : /\ E[i] \in DialogRecord
                          /\ \/ E[i] = D[i] /\ D[i].no # no
                             \/ E[i].no = no /\ E[i].busy = b
  BY <1>2 DEF DialogRecord
<1>5. DOMAIN E = DOMAIN D
  OBVIOUS
<1>6. E \in Seq(DialogRecord)
  <2>1. E \in [1..Len(D) -> DialogRecord]
    BY <1>1, <1>4
  <2> QED
    BY <1>1, <2>1
<1> HIDE DEF E, D
<1>7. Busy(u, no, b) \in Ui /\ Busy(u, no, b).dialogs = E /\ Busy(u, no, b).submitting = u.submitting
  BY <1>3, <1>6 DEF Ui
<1> QED
  BY <1>4, <1>5, <1>7 DEF Dialogs, D

-----------------------------------------------------------------------------
(* Steps                                                                   *)

\* No dialog and no flag of v waits that does not in u.
Calmer(v, u) ==
  /\ v \in Ui
  /\ v.submitting => u.submitting
  /\ \A d \in Dialogs(v) : d.busy => d \in Dialogs(u)

LEMMA CalmerIsWaiting ==
  ASSUME NEW u, NEW v, NEW R, Calmer(v, u), FlagIsWaiting(u, R), DialogsAreWaiting(u, R)
  PROVE  FlagIsWaiting(v, R) /\ DialogsAreWaiting(v, R)
BY DEF Calmer, FlagIsWaiting, DialogsAreWaiting

LEMMA ButtonsKept ==
  ASSUME ButtonInv, Calmer(ui', ui), Keeps(reqs, reqs'),
         page' \in Page, PageIsWaiting(page', reqs'), goto' \in View
  PROVE  ButtonInv'
<1>1. FlagIsWaiting(ui', reqs) /\ DialogsAreWaiting(ui', reqs)
  BY CalmerIsWaiting DEF ButtonInv
<1>2. FlagIsWaiting(ui', reqs') /\ DialogsAreWaiting(ui', reqs')
  BY <1>1, KeptAreAwaited
<1> QED
  BY <1>2 DEF ButtonInv, Calmer

LEMMA KeepsMore ==
  ASSUME NEW R, NEW S, R \subseteq S
  PROVE  Keeps(R, S)
BY DEF Keeps

LEMMA KeepsAged ==
  ASSUME SessionInv, NEW R, R \subseteq reqs
  PROVE  Keeps(R, Aged(R))
<1>1. ASSUME NEW r \in R PROVE /\ [r EXCEPT !.old = TRUE] \in Aged(R)
                               /\ [r EXCEPT !.old = TRUE].kind = r.kind
                               /\ [r EXCEPT !.old = TRUE].dialog = r.dialog
                               /\ [r EXCEPT !.old = TRUE].lost = r.lost
  BY DEF Aged, SessionInv, Sound, IsRequest
<1> QED
  BY <1>1 DEF Keeps, Awaited

LEMMA Calm ==
  ASSUME NEW u \in Ui
  PROVE  /\ Calmer(u, u) /\ Calmer(Close(u), u) /\ Calmer(CloseLogin(u), u)
         /\ \A k \in Kinds : Calmer(Show(u, k), u) /\ Calmer(Open(u, k), u)
         /\ \A o \in SUBSET (Kinds \X {"script", "css"}) : Calmer([u EXCEPT !.opening = o], u)
<1>1. Calmer(u, u) /\ Calmer(Close(u), u) /\ Calmer(CloseLogin(u), u)
  BY CloseDialogs DEF Calmer
<1>2. ASSUME NEW k \in Kinds PROVE Calmer(Show(u, k), u) /\ Calmer(Open(u, k), u)
  BY ShowDialogs, OpenDialogs DEF Calmer
<1>3. ASSUME NEW o \in SUBSET (Kinds \X {"script", "css"}) PROVE Calmer([u EXCEPT !.opening = o], u)
  <2> DEFINE v == [u EXCEPT !.opening = o]
  <2>1. v \in Ui /\ v.dialogs = u.dialogs /\ v.submitting = u.submitting
    BY DEF Ui
  <2> QED
    BY <2>1 DEF Calmer, Dialogs
<1> QED
  BY <1>1, <1>2, <1>3

LEMMA CalmerTwice ==
  ASSUME NEW u, NEW v, NEW w, Calmer(w, v), Calmer(v, u)
  PROVE  Calmer(w, u)
BY DEF Calmer

\* openLoginPage, from what is left of the overlays.
LEMMA OpenLoginStep ==
  ASSUME ButtonInv, NEW v \in Ui, Calmer(v, ui), OpenLogin(v)
  PROVE  Calmer(ui', ui) /\ goto' \in View
<1>1. Calmer(v, v) /\ Calmer(Open(v, "login"), v)
  BY Calm DEF Kinds
<1> QED
  BY <1>1, CalmerTwice DEF OpenLogin, ButtonInv, View, Views

\* Clicks, loaded scripts and style sheets, and the expiry of the session.
LEMMA OverlayStep ==
  ASSUME ButtonInv,
         \/ ClickLogin \/ ClickClose \/ ClickCancel \/ Expire
         \/ \E k \in {"signup", "verify"} : ClickLink(k)
         \/ \E k \in Kinds : ScriptLoaded(k) \/ StyleSettled(k)
         \/ \E v \in Views : Navigate(v)
  PROVE  ButtonInv'
<1>1. /\ UNCHANGED <<page, reqs>>
      /\ ui \in Ui /\ goto \in View
  BY DEF ClickLogin, ClickClose, ClickCancel, ClickLink, ScriptLoaded, StyleSettled, Expire, Navigate, ButtonInv
<1>2. Keeps(reqs, reqs') /\ page' \in Page /\ PageIsWaiting(page', reqs')
  BY <1>1, KeepsMore DEF ButtonInv
<1>3. Calmer(ui, ui) /\ Calmer(Close(ui), ui) /\ Calmer(CloseLogin(ui), ui)
  BY <1>1, Calm
<1>4. Close(ui) \in Ui /\ CloseLogin(ui) \in Ui /\ Close(CloseLogin(ui)) \in Ui
  BY <1>1, CloseDialogs
<1>5. CASE ClickLogin \/ ClickCancel
  <2>1. Calmer(ui', ui) /\ goto' \in View
    BY <1>1, <1>3, <1>4, <1>5, OpenLoginStep DEF ClickLogin, ClickCancel
  <2> QED
    BY <1>2, <2>1, ButtonsKept
<1>6. CASE ClickClose \/ Expire \/ \E v \in Views : Navigate(v)
  <2>1. Calmer(ui', ui) /\ goto' \in View
    BY <1>1, <1>3, <1>6 DEF ClickClose, Expire, Navigate, View
  <2> QED
    BY <1>2, <2>1, ButtonsKept
<1>7. ASSUME NEW k \in {"signup", "verify"}, ClickLink(k) PROVE ButtonInv'
  <2>1. k \in Kinds
    BY DEF Kinds
  <2>2. CASE ui' = Open(CloseLogin(ui), k)
    <3>1. Calmer(Open(CloseLogin(ui), k), CloseLogin(ui))
      BY <1>4, <2>1, Calm
    <3> QED
      BY <1>1, <1>2, <1>3, <1>7, <2>2, <3>1, CalmerTwice, ButtonsKept DEF ClickLink
  <2>3. CASE ui' = [ui EXCEPT !.opening = @ \union {<<k, "script">>}]
    <3>1. ui.opening \union {<<k, "script">>} \in SUBSET (Kinds \X {"script", "css"})
      BY <1>1, <2>1 DEF Ui
    <3>2. Calmer(ui', ui)
      BY <1>1, <2>3, <3>1, Calm
    <3> QED
      BY <1>1, <1>2, <1>7, <3>2, ButtonsKept DEF ClickLink
  <2> QED
    BY <1>7, <2>2, <2>3 DEF ClickLink
<1>8. ASSUME NEW k \in Kinds, ScriptLoaded(k) PROVE ButtonInv'
  <2> DEFINE v == Close(CloseLogin(ui))
  <2>1. Calmer(v, ui) /\ v \in Ui
    BY <1>3, <1>4, Calm, CalmerTwice
  <2>2. ui' = [v EXCEPT !.opening = (@ \ {<<k, "script">>}) \union {<<k, "css">>}]
    BY <1>8 DEF ScriptLoaded
  <2> HIDE DEF v
  <2>3. (v.opening \ {<<k, "script">>}) \union {<<k, "css">>} \in SUBSET (Kinds \X {"script", "css"})
    BY <2>1 DEF Ui
  <2>4. Calmer(ui', v)
    BY <2>1, <2>2, <2>3, Calm
  <2> QED
    BY <1>1, <1>2, <1>8, <2>1, <2>4, CalmerTwice, ButtonsKept DEF ScriptLoaded
<1>9. ASSUME NEW k \in Kinds, StyleSettled(k) PROVE ButtonInv'
  <2> DEFINE v == Show(ui, k)
  <2>1. Calmer(v, ui) /\ v \in Ui
    BY <1>1, Calm DEF Calmer
  <2>2. ui' = [v EXCEPT !.opening = @ \ {<<k, "css">>}, !.loaded = @ \union {k}]
    BY <1>9 DEF StyleSettled
  <2> HIDE DEF v
  <2>3. ui' \in Ui /\ ui'.dialogs = v.dialogs /\ ui'.submitting = v.submitting
    BY <2>1, <2>2 DEF Ui
  <2>4. Calmer(ui', v)
    BY <2>3 DEF Calmer, Dialogs
  <2> QED
    BY <1>1, <1>2, <1>9, <2>1, <2>4, CalmerTwice, ButtonsKept DEF StyleSettled
<1> QED
  BY <1>5, <1>6, <1>7, <1>8, <1>9

\* A logout closes an overlay and ages the requests; a new page closes one, too, and is
\* busy if a form of its kind is still awaited.
LEMMA LeaveStep ==
  ASSUME SessionInv, ButtonInv, Logout \/ Render
  PROVE  ButtonInv'
<1>1. ui \in Ui /\ page \in Page /\ goto \in View
  BY DEF ButtonInv
<1>2. CASE Logout
  <2>1. Calmer(ui', ui) /\ goto' \in View
    BY <1>1, <1>2, Calm DEF Logout, View, Views
  <2>2. Keeps(reqs, reqs')
    BY <1>2, KeepsAged DEF Logout
  <2>3. page' \in Page /\ PageIsWaiting(page', reqs')
    BY <1>1, <1>2, <2>2, KeptAreAwaited DEF Logout, ButtonInv
  <2> QED
    BY <2>1, <2>2, <2>3, ButtonsKept
<1>3. CASE Render
  <2>1. Calmer(ui', ui) /\ goto' \in View
    BY <1>1, <1>3, Calm DEF Render, View
  <2>2. reqs \subseteq reqs'
    BY <1>3 DEF Render, Send
  <2>3. page' = [view |-> goto, loading |-> goto \in {"mypage", "edit"} /\ uid # 0,
                 form |-> goto = "changepw", busy |-> \E r \in reqs : r.kind = goto /\ ~r.lost]
    BY <1>3 DEF Render
  <2>4. page' \in Page
    BY <1>1, <2>3 DEF Page, View
  <2>5. PageIsWaiting(page', reqs')
    BY <1>1, <2>2, <2>3 DEF PageIsWaiting, Awaited
  <2> QED
    BY <2>1, <2>2, <2>4, <2>5, KeepsMore, ButtonsKept
<1> QED
  BY <1>2, <1>3

-----------------------------------------------------------------------------

\* What the client sends is awaited; what disables a button names its dialog.
LEMMA SentIsAwaited ==
  ASSUME NEW kind, NEW user, NEW phone, NEW dialog
  PROVE  LET r == Ask(kind, user, phone, dialog)
         IN  Awaited(r) /\ r.kind = kind /\ r.dialog = dialog
BY DEF Ask, Awaited

LEMMA DisabledIsWaiting ==
  ASSUME NEW u \in Ui, NEW no, NEW R, NEW S, DialogsAreWaiting(u, R), Keeps(R, S),
         NEW r \in S, OfDialog(r), r.dialog = no
  PROVE  DialogsAreWaiting(Busy(u, no, TRUE), S)
<1>1. DialogsAreWaiting(u, S)
  BY KeptAreAwaited
<1>2. \A d \in Dialogs(Busy(u, no, TRUE)) : d \in Dialogs(u) \/ d.no = no
  BY BusyDialogs
<1> QED
  BY <1>1, <1>2 DEF DialogsAreWaiting

LEMMA SubmitStep ==
  ASSUME ButtonInv, NEW p \in Phone,
         SubmitLogin(p) \/ SubmitSignup(p) \/ SubmitVerify(p) \/ SubmitReset(p) \/ SubmitForm(p)
  PROVE  ButtonInv'
<1>1. ui \in Ui /\ page \in Page /\ goto \in View /\ DialogsAreWaiting(ui, reqs)
  BY DEF ButtonInv
<1>2. reqs \subseteq reqs' /\ goto' = goto
  BY DEF SubmitLogin, SubmitSignup, SubmitVerify, SubmitReset, SubmitFind, SubmitForm, Send
<1>3. Keeps(reqs, reqs')
  BY <1>2, KeepsMore
<1>4. FlagIsWaiting(ui, reqs') /\ DialogsAreWaiting(ui, reqs') /\ PageIsWaiting(page, reqs')
  BY <1>3, KeptAreAwaited DEF ButtonInv
<1>5. CASE SubmitLogin(p)
  <2> DEFINE r == Ask("login", 0, p, Top.no)
             v == Busy(ui, Top.no, TRUE)
  <2>1. r \in reqs' /\ ui' = [v EXCEPT !.submitting = TRUE] /\ page' = page
    BY <1>5 DEF SubmitLogin, Send
  <2>2. Awaited(r) /\ r.kind = "login" /\ r.dialog = Top.no
    BY SentIsAwaited
  <2> HIDE DEF r
  <2>3. OfDialog(r)
    BY <2>2 DEF OfDialog, Kinds
  <2>4. DialogsAreWaiting(v, reqs') /\ v \in Ui
    BY <1>1, <1>3, <2>1, <2>2, <2>3, DisabledIsWaiting, BusyDialogs
  <2> HIDE DEF v
  <2>5. ui' \in Ui /\ ui'.dialogs = v.dialogs
    BY <2>1, <2>4 DEF Ui
  <2>6. DialogsAreWaiting(ui', reqs')
    BY <2>4, <2>5 DEF DialogsAreWaiting, Dialogs
  <2>7. FlagIsWaiting(ui', reqs')
    BY <2>1, <2>2 DEF FlagIsWaiting
  <2> QED
    BY <1>1, <1>2, <1>4, <2>1, <2>5, <2>6, <2>7 DEF ButtonInv
<1>6. CASE SubmitSignup(p)
  BY <1>1, <1>2, <1>4, <1>6 DEF SubmitSignup, ButtonInv
<1>7. CASE SubmitVerify(p) \/ SubmitReset(p)
  <2>1. PICK k \in {"verify", "reset"} : SubmitFind(k, p)
    BY <1>7 DEF SubmitVerify, SubmitReset
  <2> DEFINE r == Ask(k, 0, p, Top.no)
  <2>2. r \in reqs' /\ ui' = Busy(ui, Top.no, TRUE) /\ page' = page
    BY <2>1 DEF SubmitFind, Send
  <2>3. Awaited(r) /\ r.kind = k /\ r.dialog = Top.no
    BY SentIsAwaited
  <2> HIDE DEF r
  <2>4. OfDialog(r)
    BY <2>3 DEF OfDialog, Kinds
  <2>5. DialogsAreWaiting(ui', reqs') /\ ui' \in Ui /\ ui'.submitting = ui.submitting
    BY <1>1, <1>3, <2>2, <2>3, <2>4, DisabledIsWaiting, BusyDialogs
  <2>6. FlagIsWaiting(ui', reqs')
    BY <1>4, <2>5 DEF FlagIsWaiting
  <2> QED
    BY <1>1, <1>2, <1>4, <2>2, <2>5, <2>6 DEF ButtonInv
<1>8. CASE SubmitForm(p)
  <2> DEFINE r == Ask(page.view, uid, p, 0)
  <2>1. r \in reqs' /\ ui' = ui /\ page' = [page EXCEPT !.busy = TRUE]
    BY <1>8 DEF SubmitForm, Send
  <2>2. Awaited(r) /\ r.kind = page.view
    BY SentIsAwaited
  <2> HIDE DEF r
  <2>3. page' \in Page /\ page'.view = page.view /\ page.view \in View
    BY <1>1, <2>1 DEF Page
  <2>4. PageIsWaiting(page', reqs')
    BY <2>1, <2>2, <2>3 DEF PageIsWaiting
  <2> QED
    BY <1>1, <1>2, <1>4, <2>1, <2>3, <2>4 DEF ButtonInv
<1> QED
  BY <1>5, <1>6, <1>7, <1>8

\* The servers change or drop what is lost already, and keep what is awaited.
LEMMA ServerStep ==
  ASSUME SessionInv, ButtonInv, NEW r \in reqs, Look(r) \/ WriteRow(r)
  PROVE  ButtonInv'
<1>1. PICK pc : Becomes(r, [r EXCEPT !.pc = pc])
  BY DEF Look, WriteRow
<1>2. DOMAIN r = {"no", "kind", "user", "phone", "dialog", "pc", "old", "lost"}
  BY DEF SessionInv, Sound, IsRequest
<1> DEFINE s == [r EXCEPT !.pc = pc]
<1>3. s.kind = r.kind /\ s.dialog = r.dialog /\ s.lost = r.lost
  BY <1>2
<1>4. reqs' = (reqs \ {r}) \union (IF s.lost /\ s.pc \in {"ok", "no"} THEN {} ELSE {s})
  BY <1>1 DEF Becomes
<1> HIDE DEF s
<1>5. Keeps(reqs, reqs')
  <2> SUFFICES ASSUME NEW q \in reqs, Awaited(q)
               PROVE  \E t \in reqs' : t.kind = q.kind /\ t.dialog = q.dialog /\ Awaited(t)
    BY DEF Keeps
  <2>1. CASE q # r
    BY <1>4, <2>1
  <2>2. CASE q = r
    <3>1. s \in reqs' /\ Awaited(s)
      BY <1>3, <1>4, <2>2 DEF Awaited
    <3> QED
      BY <1>3, <2>2, <3>1
  <2> QED
    BY <2>1, <2>2
<1>6. UNCHANGED <<ui, page, goto>>
  BY DEF Look, WriteRow
<1>7. Calmer(ui', ui)
  BY <1>6, Calm DEF ButtonInv
<1>8. page' \in Page /\ PageIsWaiting(page', reqs') /\ goto' \in View
  BY <1>5, <1>6, KeptAreAwaited DEF ButtonInv
<1> QED
  BY <1>5, <1>7, <1>8, ButtonsKept

-----------------------------------------------------------------------------
(* Answers                                                                 *)

\* The finally branch enables the button again, so no button waits for the answer.
LEMMA EnabledIsWaiting ==
  ASSUME ButtonInv, NEW r \in reqs, NEW u \in Ui, Calmer(u, ui)
  PROVE  LET v == Busy(u, r.dialog, FALSE)
         IN  /\ v \in Ui /\ v.submitting = u.submitting
             /\ DialogsAreWaiting(v, reqs \ {r})
             /\ r.kind # "login" => FlagIsWaiting(v, reqs \ {r})
<1> DEFINE v == Busy(u, r.dialog, FALSE)
<1>1. /\ v \in Ui /\ v.submitting = u.submitting
      /\ \A d \in Dialogs(v) : d.busy => d \in Dialogs(u) /\ d.no # r.dialog
  BY BusyDialogs
<1> HIDE DEF v
<1>2. FlagIsWaiting(u, reqs) /\ DialogsAreWaiting(u, reqs)
  BY CalmerIsWaiting DEF ButtonInv
<1>3. DialogsAreWaiting(v, reqs \ {r})
  BY <1>1, <1>2 DEF DialogsAreWaiting
<1>4. r.kind # "login" => FlagIsWaiting(v, reqs \ {r})
  BY <1>1, <1>2 DEF FlagIsWaiting
<1> QED
  BY <1>1, <1>3, <1>4 DEF v

\* The account page does not wait for what the dialogs ask.
LEMMA OtherAnswer ==
  ASSUME ButtonInv, NEW r, r.kind \notin View
  PROVE  PageIsWaiting(page, reqs \ {r})
BY DEF ButtonInv, PageIsWaiting

LEMMA AnswerLoginButtons ==
  ASSUME SessionInv, ButtonInv, NEW r \in reqs, NEW ok, AnswerLogin(r, ok)
  PROVE  ButtonInv'
<1>1. ui \in Ui /\ page \in Page /\ goto \in View /\ UNCHANGED <<page, goto>> /\ r.kind = "login"
  BY DEF ButtonInv, AnswerLogin
<1> DEFINE u == IF ok THEN CloseLogin(ui) ELSE ui
           v == Busy(u, r.dialog, FALSE)
<1>2. u \in Ui /\ Calmer(u, ui)
  BY <1>1, Calm DEF Calmer
<1>3. ui' = [v EXCEPT !.submitting = FALSE] /\ (reqs' = reqs \ {r} \/ reqs' = Aged(reqs \ {r}))
  BY DEF AnswerLogin, Finally
<1> HIDE DEF u
<1>4. v \in Ui /\ DialogsAreWaiting(v, reqs \ {r})
  BY <1>2, EnabledIsWaiting
<1> HIDE DEF v
<1>5. ui' \in Ui /\ ui'.dialogs = v.dialogs /\ ui'.submitting = FALSE
  BY <1>3, <1>4 DEF Ui
<1>6. Keeps(reqs \ {r}, reqs')
  BY <1>3, KeepsMore, KeepsAged
<1>7. DialogsAreWaiting(ui', reqs')
  <2>1. DialogsAreWaiting(ui', reqs \ {r})
    BY <1>4, <1>5 DEF DialogsAreWaiting, Dialogs
  <2> QED
    BY <1>6, <2>1, KeptAreAwaited
<1>8. PageIsWaiting(page, reqs')
  BY <1>1, <1>6, OtherAnswer, KeptAreAwaited DEF View, Views
<1>9. FlagIsWaiting(ui', reqs')
  BY <1>5 DEF FlagIsWaiting
<1> QED
  BY <1>1, <1>5, <1>7, <1>8, <1>9 DEF ButtonInv

LEMMA AnswerCheckButtons ==
  ASSUME SessionInv, ButtonInv, NEW r \in reqs, NEW ok, AnswerCheck(r, ok), ~r.lost
  PROVE  ButtonInv'
<1>1. ui \in Ui /\ page \in Page /\ goto \in View /\ UNCHANGED <<page, goto>> /\ r.kind = "check"
  BY DEF ButtonInv, AnswerCheck
<1>2. Keeps(reqs, reqs')
  BY <1>1 DEF AnswerCheck, Keeps
<1>3. FlagIsWaiting(ui, reqs') /\ PageIsWaiting(page, reqs')
  BY <1>2, KeptAreAwaited DEF ButtonInv
<1>4. CASE ok
  <2> DEFINE s == [r EXCEPT !.kind = "signup"]
  <2>1. s \in reqs' /\ ui' = Busy(ui, r.dialog, TRUE)
    BY <1>4 DEF AnswerCheck
  <2>2. s.kind = "signup" /\ s.dialog = r.dialog /\ ~s.lost
    BY DEF SessionInv, Sound, IsRequest
  <2> HIDE DEF s
  <2>3. OfDialog(s)
    BY <2>2 DEF OfDialog, Awaited, Kinds
  <2>4. DialogsAreWaiting(ui', reqs') /\ ui' \in Ui /\ ui'.submitting = ui.submitting
    BY <1>1, <1>2, <2>1, <2>2, <2>3, DisabledIsWaiting, BusyDialogs DEF ButtonInv
  <2>5. FlagIsWaiting(ui', reqs')
    BY <1>3, <2>4 DEF FlagIsWaiting
  <2> QED
    BY <1>1, <1>3, <2>4, <2>5 DEF ButtonInv
<1>5. CASE ~ok
  <2>1. ui' = ui
    BY <1>5 DEF AnswerCheck
  <2> QED
    BY <1>1, <1>2, <1>3, <2>1, KeptAreAwaited DEF ButtonInv
<1> QED
  BY <1>4, <1>5

\* The answers that open another dialog, or lead back to the login.
LEMMA AnswerDialogButtons ==
  ASSUME ButtonInv, NEW r \in reqs, NEW ok,
         AnswerVerify(r, ok) \/ AnswerSignup(r, ok) \/ AnswerReset(r, ok)
  PROVE  ButtonInv'
<1>1. /\ ui \in Ui /\ page \in Page /\ goto \in View /\ page' = page /\ reqs' = reqs \ {r}
      /\ r.kind \in {"verify", "signup", "reset"}
  BY DEF ButtonInv, AnswerVerify, AnswerSignup, AnswerReset, BackToLogin
<1> DEFINE v == Busy(ui, r.dialog, FALSE)
<1>2. /\ v \in Ui /\ DialogsAreWaiting(v, reqs') /\ FlagIsWaiting(v, reqs')
  BY <1>1, EnabledIsWaiting, Calm
<1>3. Calmer(ui', v) /\ goto' \in View
  <2>1. \/ ui' = v /\ goto' = goto
        \/ ui' = Show(Close(v), "reset") /\ goto' = goto
        \/ OpenLogin(Close(v))
    BY DEF AnswerVerify, AnswerSignup, AnswerReset, BackToLogin
  <2> HIDE DEF v
  <2>2. Calmer(v, v) /\ Calmer(Close(v), v) /\ Close(v) \in Ui
    BY <1>2, Calm DEF Calmer
  <2>3. \A k \in Kinds : Calmer(Show(Close(v), k), v) /\ Calmer(Open(Close(v), k), v)
    BY <2>2, Calm, CalmerTwice
  <2> QED
    BY <1>1, <2>1, <2>2, <2>3 DEF OpenLogin, View, Views, Kinds
<1> HIDE DEF v
<1>4. FlagIsWaiting(ui', reqs') /\ DialogsAreWaiting(ui', reqs')
  BY <1>2, <1>3, CalmerIsWaiting
<1>5. PageIsWaiting(page, reqs')
  BY <1>1, OtherAnswer DEF View, Views
<1> QED
  BY <1>1, <1>3, <1>4, <1>5 DEF ButtonInv, Calmer

\* No button waits for what My page and the edit form read.
LEMMA AnswerReadButtons ==
  ASSUME ButtonInv, NEW r \in reqs, NEW ok \in BOOLEAN, AnswerProfile(r, ok) \/ AnswerForm(r, ok)
  PROVE  ButtonInv'
<1>1. /\ ui \in Ui /\ page \in Page /\ goto \in View /\ UNCHANGED <<ui, goto>> /\ reqs' = reqs \ {r}
      /\ r.kind \in {"profile", "form"}
  BY DEF ButtonInv, AnswerProfile, AnswerForm
<1>2. Keeps(reqs, reqs')
  BY <1>1 DEF Keeps
<1>3. page' \in Page /\ page'.busy = page.busy /\ page'.view = page.view
  BY <1>1 DEF AnswerProfile, AnswerForm, Page
<1>4. PageIsWaiting(page', reqs')
  <2>1. PageIsWaiting(page, reqs')
    BY <1>2, KeptAreAwaited DEF ButtonInv
  <2> QED
    BY <1>3, <2>1 DEF PageIsWaiting
<1> QED
  BY <1>1, <1>2, <1>3, <1>4, Calm, ButtonsKept

\* A form of the page shown is enabled by its answer or goes with the page.
LEMMA AnswerEditButtons ==
  ASSUME ButtonInv, NEW r \in reqs, NEW ok, AnswerEdit(r, ok)
  PROVE  ButtonInv'
<1>1. ui \in Ui /\ page \in Page /\ goto \in View /\ r.kind \in {"edit", "changepw"}
  BY DEF ButtonInv, AnswerEdit
<1>2. CASE ok
  <2>1. ui' = [NoUi EXCEPT !.made = ui.made] /\ page' = Unfilled("none") /\ goto' = "mypage"
    BY <1>2 DEF AnswerEdit, Reload
  <2>2. ui' \in Ui /\ ui'.dialogs = <<>> /\ ui'.submitting = FALSE
    <3>1. ui' = [dialogs |-> <<>>, submitting |-> FALSE, opening |-> {}, loaded |-> {}, made |-> ui.made]
      BY <2>1 DEF NoUi
    <3>2. ui.made \in Nat /\ <<>> \in Seq(DialogRecord)
      BY <1>1 DEF Ui
    <3> QED
      BY <3>1, <3>2 DEF Ui
  <2>3. page' \in Page /\ page'.busy = FALSE /\ goto' \in View
    BY <2>1 DEF Page, Unfilled, View, Views
  <2> QED
    BY <2>2, <2>3 DEF ButtonInv, FlagIsWaiting, DialogsAreWaiting, PageIsWaiting, Dialogs
<1>3. CASE ~ok
  <2>1. UNCHANGED <<ui, goto>> /\ reqs' = reqs \ {r}
        /\ page' = IF page.view = r.kind THEN [page EXCEPT !.busy = FALSE] ELSE page
    BY <1>3 DEF AnswerEdit
  <2>2. FlagIsWaiting(ui', reqs') /\ DialogsAreWaiting(ui', reqs')
    BY <1>1, <2>1 DEF ButtonInv, FlagIsWaiting, DialogsAreWaiting, OfDialog, Kinds
  <2>3. page' \in Page /\ PageIsWaiting(page', reqs')
    BY <1>1, <2>1 DEF ButtonInv, PageIsWaiting, Page
  <2> QED
    BY <1>1, <2>1, <2>2, <2>3 DEF ButtonInv
<1> QED
  BY <1>2, <1>3

LEMMA OutcomeIsBoolean ==
  ASSUME NEW r, NEW ok \in Outcomes(r)
  PROVE  ok \in BOOLEAN /\ ~r.lost
BY DEF Outcomes

LEMMA ButtonsInit == Init => ButtonInv
<1> SUFFICES ASSUME Init PROVE ButtonInv
  OBVIOUS
<1>1. ui \in Ui /\ page \in Page /\ goto \in View
  BY DEF Init, Ui, NoUi, Page, Unfilled, View, Views
<1> QED
  BY <1>1 DEF Init, NoUi, Unfilled, ButtonInv, FlagIsWaiting, DialogsAreWaiting, PageIsWaiting, Dialogs

LEMMA ButtonsStep == SessionInv /\ ButtonInv /\ [Next]_vars => ButtonInv'
<1> SUFFICES ASSUME SessionInv, ButtonInv, [Next]_vars PROVE ButtonInv'
  OBVIOUS
<1>1. ASSUME NEW r \in reqs, Look(r) \/ WriteRow(r) PROVE ButtonInv'
  BY <1>1, ServerStep
<1>2. ASSUME NEW r \in reqs, NEW ok \in Outcomes(r),
             \/ AnswerLogin(r, ok) \/ AnswerCheck(r, ok) \/ AnswerVerify(r, ok) \/ AnswerSignup(r, ok) \/ AnswerReset(r, ok)
             \/ AnswerProfile(r, ok) \/ AnswerForm(r, ok) \/ AnswerEdit(r, ok)
      PROVE  ButtonInv'
  <2>1. ok \in BOOLEAN /\ ~r.lost
    BY OutcomeIsBoolean
  <2> QED
    BY <1>2, <2>1, AnswerLoginButtons, AnswerCheckButtons, AnswerDialogButtons,
       AnswerReadButtons, AnswerEditButtons
<1>3. CASE UNCHANGED vars
  <2>1. UNCHANGED <<ui, page, goto, reqs>>
    BY <1>3
  <2>2. ui \in Ui /\ page \in Page /\ goto \in View /\ PageIsWaiting(page, reqs)
    BY DEF ButtonInv
  <2> QED
    BY <2>1, <2>2, Calm, KeepsMore, ButtonsKept
<1> QED
  BY <1>1, <1>2, <1>3, OverlayStep, LeaveStep, SubmitStep DEF Next

LEMMA ButtonInvariant == Spec => []ButtonInv
  BY SessionInvariant, ButtonsInit, ButtonsStep, PTL DEF Spec

-----------------------------------------------------------------------------
(* Theorems                                                                *)

\* The page acts for the user of the last login and for nobody else, until a request of
\* an earlier session is answered: SetLoginUser is reached with an older user only by
\* the answers of My page and of the edit form.
THEOREM TheSessionFollowsLogin == Spec => []SessionFollowsLogin
<1>1. SessionInv => SessionFollowsLogin
  BY DEF SessionInv
<1> QED
  BY <1>1, SessionInvariant, PTL

\* No interleaving of dialogs, pages, expiry and late answers makes the page act for a
\* user whose password was not accepted for this browser.
THEOREM TheUsersAreProven == Spec => []OnlyProvenUsers
<1>1. SessionInv => OnlyProvenUsers
  BY DEF SessionInv
<1> QED
  BY <1>1, SessionInvariant, PTL

\* The check for another account and the write are two statements, and any number of
\* sign-ups and edits lie between them; the unique key keeps the phone numbers distinct.
THEOREM TheAccountsAreUnique == Spec => []AccountsAreUnique
<1>1. SessionInv => AccountsAreUnique
  BY DEF SessionInv
<1> QED
  BY <1>1, SessionInvariant, PTL

\* No button or flag of the dialogs and forms outlives the request it waits for, for any
\* number of dialogs that are closed, replaced or covered meanwhile: one flag serves all
\* login dialogs, answers enable by the number of a dialog that may be gone, and the
\* flags of the account forms outlive their pages.
THEOREM NoButtonStaysDead == Spec => []NoDeadButton
<1>1. ButtonInv => NoDeadButton
  <2> SUFFICES ASSUME ButtonInv PROVE NoDeadButton
    OBVIOUS
  <2>1. ui.submitting => \E r \in reqs : r.kind = "login"
    BY DEF ButtonInv, FlagIsWaiting
  <2>2. \A i \in DOMAIN ui.dialogs : ui.dialogs[i].busy => \E r \in reqs : r.dialog = ui.dialogs[i].no
    BY DEF ButtonInv, DialogsAreWaiting, Dialogs
  <2>3. page.busy => \E r \in reqs : r.kind = page.view
    BY DEF ButtonInv, PageIsWaiting
  <2> QED
    BY <2>1, <2>2, <2>3 DEF NoDeadButton
<1> QED
  BY <1>1, ButtonInvariant, PTL

=============================================================================
