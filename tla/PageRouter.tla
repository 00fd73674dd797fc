------------------------------- MODULE PageRouter -------------------------------
(***************************************************************************)
(* The single-page client between a click and the drawn page: router.js    *)
(* with its chain of render jobs, the script and style loading of          *)
(* app-config.js, what the pages do when they are rendered (home, lists,   *)
(* details, booking, account), and the refetches some of them start, on    *)
(* their own, when they hear that something was written.                   *)
(*                                                                         *)
(* The URL changes at the click; the job reads it when its turn comes,     *)
(* and some pages read it again after an await.                            *)
(***************************************************************************)
EXTENDS Naturals, Sequences, FiniteSets

CONSTANTS PageKinds,    \* kinds of pages of this instance
          MaxNumber,    \* bound: list pages, or ids, told apart
          MaxNavs,      \* bound: navigations
          MaxNotices,   \* bound: announced writes
          Fragile,      \* assets that may fail to load
          RouterFaults  \* "read": a read request fails

Lists     == {"movies", "concerts"}          \* read their page number when they draw
Details   == {"movie", "concert"}            \* read their id when they are mounted
AllKinds  == {"home", "booking", "account", "unknown"} \union Lists \union Details

ASSUME PageKindsAssumption    == PageKinds \subseteq AllKinds /\ "home" \in PageKinds
ASSUME NumberAssumption       == MaxNumber \in Nat \ {0}
ASSUME BoundsAssumption       == MaxNavs \in Nat /\ MaxNotices \in Nat
ASSUME RouterFaultsAssumption == RouterFaults \subseteq {"read"}

Home  == [kind |-> "home", n |-> 1]
Route == [kind : PageKinds \intersect (Lists \union Details), n : 1..MaxNumber]
           \union [kind : PageKinds \ (Lists \union Details), n : {1}]

\* The script of each kind of page, its style sheet, and the footer's.
Parent(k) == CASE k = "movie" -> "movies" [] k = "concert" -> "concerts" [] OTHER -> k
Script(k) == <<"script", k>>
Style(k)  == <<"style", k>>
Footer    == <<"style", "footer">>
Asset     == {Script(k) : k \in AllKinds} \union {Style(k) : k \in AllKinds} \union {Footer}

ASSUME FragileAssumption == Fragile \subseteq Asset

VARIABLES
  url,          \* the route in the address bar
  queue,        \* render jobs waiting in routeJob
  job,          \* the one that runs: pc, at (its route), todo (assets to load)
  loaded,       \* assets that loaded
  broken,       \* assets whose element is in the document and failed
  body,         \* #main-body: what is drawn in it, and its state
  ranking,      \* #main-body2 is in the document
  layer,        \* #app-route-loading covers the page
  background,   \* refetches under way
  bound,        \* navigations and notices used
  strayed,      \* history: what is drawn is a refetch of a page that was left
  jobFailed     \* history: the last render job failed

routerVars == <<url, queue, job, loaded, broken, body, ranking, layer, background, bound,
                strayed, jobFailed>>

Blank       == [kind |-> "none", n |-> 0, state |-> "done"]
Idle        == [pc |-> "idle", at |-> Home, todo |-> <<>>]
Shown(k, n) == [kind |-> k, n |-> n, state |-> "done"]
Loading(k)  == [kind |-> k, n |-> 0, state |-> "loading"]
Listeners   == {"home", "ranking", "movies", "booking"}

\* A refetch of the ranking keeps writing to the element it was started in.
Detach(requests) == IF "ranking" \in requests
                    THEN (requests \ {"ranking"}) \union {"detached"} ELSE requests

RouterTypeOK ==
  /\ url        \in Route
  /\ queue      \in 0..(MaxNavs + 1)
  /\ job.pc     \in {"idle", "scripts", "style", "fetch", "rank", "footer"}
  /\ job.at     \in Route
  /\ \A i \in DOMAIN job.todo : job.todo[i] \in Asset
  /\ loaded     \subseteq Asset
  /\ broken     \subseteq Fragile
  /\ body       \in [kind : PageKinds \union {"none"}, n : 0..MaxNumber, state : {"loading", "done"}]
  /\ ranking    \in BOOLEAN
  /\ layer      \in BOOLEAN
  /\ background \subseteq Listeners \union {"detached"}
  /\ bound      \in [navs : 0..MaxNavs, notices : 0..MaxNotices]
  /\ strayed    \in BOOLEAN
  /\ jobFailed  \in BOOLEAN

\* boot: the first render is queued.
RouterInit ==
  /\ url        \in Route
  /\ queue      = 1
  /\ job        = Idle
  /\ loaded     = {}
  /\ broken     = {}
  /\ body       = Blank
  /\ ranking    = FALSE
  /\ layer      = FALSE
  /\ background = {}
  /\ bound      = [navs |-> 0, notices |-> 0]
  /\ strayed    = FALSE
  /\ jobFailed  = FALSE

-----------------------------------------------------------------------------
(* Navigation and the chain of jobs                                        *)

\* Mutant: nothing is queued while a page is being rendered.
NavigateIfIdle(r) ==
  /\ bound.navs < MaxNavs
  /\ url' = r
  /\ queue' = IF job.pc = "idle" THEN queue + 1 ELSE queue
  /\ bound' = [bound EXCEPT !.navs = @ + 1]
  /\ UNCHANGED <<job, loaded, broken, body, ranking, layer, background, strayed, jobFailed>>

\* navigate, or popstate: the URL changes now, the render is queued.
Navigate(r) ==
  /\ bound.navs < MaxNavs
  /\ url' = r
  /\ queue' = queue + 1
  /\ bound' = [bound EXCEPT !.navs = @ + 1]
  /\ UNCHANGED <<job, loaded, broken, body, ranking, layer, background, strayed, jobFailed>>

\* SCRIPT_PATHS and VIEW_ROUTES: a detail page loads its list's script first.
Scripts(k) == IF k \in Details THEN <<Script(Parent(k)), Script(k)>> ELSE <<Script(k)>>

\* Mutant: the chain of jobs is not continued after an error.
StartUnlessFailed ==
  /\ queue > 0 /\ job.pc = "idle" /\ ~jobFailed
  /\ job' = [pc |-> "scripts", at |-> url, todo |-> Scripts(url.kind)]
  /\ queue' = queue - 1
  /\ body' = Blank /\ ranking' = FALSE /\ layer' = TRUE /\ strayed' = FALSE
  /\ background' = Detach(background)
  /\ UNCHANGED <<url, loaded, broken, bound, jobFailed>>

\* queueRender: showRouteLoading and renderRoute, which reads the URL of now and turns
\* an unknown view into the home page.  resetPrimarySections empties the body and
\* removes #main-body2.
Start ==
  /\ queue > 0 /\ job.pc = "idle"
  /\ LET at == IF url.kind = "unknown" THEN Home ELSE url IN
       /\ url' = at
       /\ job' = [pc |-> "scripts", at |-> at, todo |-> Scripts(at.kind)]
  /\ queue' = queue - 1
  /\ body' = Blank
  /\ ranking' = FALSE
  /\ layer' = TRUE
  /\ background' = Detach(background)
  /\ strayed' = FALSE
  /\ jobFailed' = FALSE
  /\ UNCHANGED <<loaded, broken, bound>>

\* The promise of the job is settled: hideRouteLoading.
End ==
  /\ job' = Idle
  /\ layer' = FALSE

\* An exception of the page: finally and catch, and the next job may run.
Abandon ==
  /\ End
  /\ jobFailed' = TRUE
  /\ UNCHANGED <<url, queue, body, ranking, background, bound, strayed>>

-----------------------------------------------------------------------------
(* ensureScript and ensureStyle                                            *)

Wanted    == Head(job.todo)
Loads(pc) == job.pc = pc /\ job.todo # <<>>
Ready(pc) == job.pc = pc /\ job.todo = <<>>

\* The account pages catch the failure of their style sheet.
Caught == Wanted = Style("account")

Stuck == job.todo # <<>> /\ Wanted \in broken

\* The element fires load, now or earlier.  A broken one never fires again: the promise
\* made for it stays pending.
LoadAsset ==
  /\ job.todo # <<>> /\ Wanted \notin broken
  /\ loaded' = loaded \union {Wanted}
  /\ job' = [job EXCEPT !.todo = Tail(@)]
  /\ UNCHANGED <<url, queue, broken, body, ranking, layer, background, bound, strayed, jobFailed>>

\* The element fires error: the promise is forgotten, the element stays.
AssetFails ==
  /\ job.todo # <<>> /\ Wanted \in Fragile \ (loaded \union broken)
  /\ broken' = broken \union {Wanted}
  /\ UNCHANGED loaded
  /\ IF Caught
       THEN /\ job' = [job EXCEPT !.todo = Tail(@)]
            /\ UNCHANGED <<url, queue, body, ranking, layer, background, bound, strayed, jobFailed>>
       ELSE Abandon

-----------------------------------------------------------------------------
(* The pages                                                               *)

GoOn(pc, todo) == job' = [job EXCEPT !.pc = pc, !.todo = todo]

\* runPageAction.  A detail page takes its id from the URL of now and is "invalid"
\* when there is none, before it has loaded anything.
MountPage ==
  /\ Ready("scripts")
  /\ LET k == job.at.kind IN
     IF k \in Details /\ url.kind # k
       THEN /\ GoOn("footer", <<Footer>>)
            /\ body' = Shown(k, 0)
       ELSE /\ job' = [pc |-> "style", at |-> IF k \in Details THEN url ELSE job.at,
                       todo |-> <<Style(k)>>]
            /\ UNCHANGED body
  /\ UNCHANGED <<url, queue, loaded, broken, ranking, layer, background, bound, strayed, jobFailed>>

\* The page clears the sections, shows "loading" and asks the server.
Ask ==
  /\ Ready("style")
  /\ body' = Loading(job.at.kind)
  /\ GoOn("fetch", <<>>)
  /\ ranking' = FALSE
  /\ background' = Detach(background)
  /\ strayed' = FALSE
  /\ UNCHANGED <<url, queue, loaded, broken, layer, bound, jobFailed>>

\* The number a list is drawn with: getRoute() after the answer.
NumberNow(k) == IF url.kind = k THEN url.n ELSE 1

\* The answer, or the error, is drawn.
Drawn(k, n) ==
  /\ Ready("fetch") /\ job.at.kind = k
  /\ body' = Shown(k, n)
  /\ strayed' = FALSE
  /\ UNCHANGED <<url, queue, loaded, broken, ranking, layer, background, bound, jobFailed>>

\* mountBody.  The home page goes on with its ranking.
DrawHome == Drawn("home", 1) /\ GoOn("rank", <<>>)

\* A list reads its page from the URL of now, a detail page keeps its id.
DrawMovies   == Drawn("movies", NumberNow("movies")) /\ GoOn("footer", <<Footer>>)
DrawConcerts == Drawn("concerts", NumberNow("concerts")) /\ GoOn("footer", <<Footer>>)
DrawMovie    == Drawn("movie", job.at.n) /\ GoOn("footer", <<Footer>>)
DrawConcert  == Drawn("concert", job.at.n) /\ GoOn("footer", <<Footer>>)
DrawOther(k) == Drawn(k, 1) /\ GoOn("footer", <<Footer>>)

Draw ==
  \/ DrawHome \/ DrawMovies \/ DrawConcerts \/ DrawMovie \/ DrawConcert
  \/ \E k \in {"booking", "account"} : DrawOther(k)

\* mountBody2: its section is made when it is missing.
DrawRanking ==
  /\ Ready("rank")
  /\ ranking' = TRUE
  /\ GoOn("footer", <<Footer>>)
  /\ UNCHANGED <<url, queue, loaded, broken, body, layer, background, bound, strayed, jobFailed>>

EndJob ==
  /\ Ready("footer")
  /\ End
  /\ UNCHANGED <<url, queue, loaded, broken, body, ranking, background, bound, strayed, jobFailed>>

-----------------------------------------------------------------------------
(* Refetches after a write                                                 *)

\* The conditions the listeners look at, each once, before it asks.  The movie list
\* looks at the URL, and at a class that the concert list has too.
Listening(b) ==
  CASE b = "home"    -> body = Shown("home", 1)
    [] b = "ranking" -> ranking
    [] b = "movies"  -> url.kind = "movies" /\ body.kind \in Lists /\ body.state = "done"
    [] b = "booking" -> body.kind = "booking" /\ body.state = "done"

\* The event, or the broadcast of another tab.  mountBody shows "loading" at once.
\* Bound: one refetch of each kind at a time.
Notice ==
  /\ bound.notices < MaxNotices
  /\ bound' = [bound EXCEPT !.notices = @ + 1]
  /\ background' = background \union {b \in Listeners : Listening(b)}
  /\ body' = IF Listening("home") THEN Loading("home") ELSE body
  /\ UNCHANGED <<url, queue, job, loaded, broken, ranking, layer, strayed, jobFailed>>

\* Mutant: the section of the ranking is looked up, and made, after the answer.
RefetchedAnywhere(b) ==
  /\ b \in background
  /\ background' = background \ {b}
  /\ ranking' = (ranking \/ b \in {"ranking", "detached"})
  /\ UNCHANGED <<url, queue, job, loaded, broken, body, layer, bound, strayed, jobFailed>>

\* The answer is drawn into #main-body, whatever is there by now; the ranking into an
\* element of its own.
Refetched(b) ==
  /\ b \in background
  /\ background' = background \ {b}
  /\ IF b \in {"ranking", "detached"}
       THEN UNCHANGED <<body, strayed>>
       ELSE /\ body' = Shown(b, IF b = "movies" THEN NumberNow(b) ELSE 1)
            /\ strayed' = (url.kind # b)
  /\ UNCHANGED <<url, queue, job, loaded, broken, ranking, layer, bound, jobFailed>>

\* Lists and booking ignore the failure; the home page draws an error, as above.
RefetchFails(b) ==
  /\ "read" \in RouterFaults
  /\ b \in background \ {"home"}
  /\ background' = background \ {b}
  /\ UNCHANGED <<url, queue, job, loaded, broken, body, ranking, layer, bound, strayed, jobFailed>>

-----------------------------------------------------------------------------
Step == \/ Start \/ LoadAsset \/ AssetFails \/ MountPage \/ Ask \/ Draw \/ DrawRanking \/ EndJob

RouterNext ==
  \/ \E r \in Route : Navigate(r)
  \/ Step
  \/ Notice
  \/ \E b \in Listeners \union {"detached"} : Refetched(b) \/ RefetchFails(b)

RouterSpec == RouterInit /\ [][RouterNext]_routerVars

\* Elements load or fail, requests are answered, and the event loop runs what is ready.
FairSpec == RouterSpec /\ WF_routerVars(Step)

-----------------------------------------------------------------------------
(* Properties                                                              *)

Quiet == queue = 0 /\ job.pc = "idle" /\ background = {}

\* When everything has been rendered, the page drawn is the one the address bar names,
\* with the list page or id of the URL, although jobs run late and read the URL more
\* than once; unless a render failed or a refetch outlived its page.
ShownIsRoute ==
  Quiet /\ ~jobFailed /\ ~strayed => body = Shown(url.kind, url.n)

\* The ranking of the home page is never left below another page, not even by a refetch
\* that outlived it.
RankingAtHomeOnly ==
  Quiet /\ ranking => url.kind = "home"

\* Every navigation is rendered in the end, and the loading layer taken off, whatever
\* failed before it, unless a job waits for a script or style sheet that failed earlier.
EveryNavigationRenders ==
  queue > 0 ~> (queue = 0 /\ job.pc = "idle" /\ ~layer) \/ Stuck

=============================================================================
