------------------------------ MODULE UserPages ------------------------------
(***************************************************************************)
(* The pages of a subscriber (src/frontend/src/app.tsx): the landing page, *)
(* and behind RequireUser the dashboard with its overview, servers, plans  *)
(* and settings.                                                           *)
(*                                                                         *)
(* UserDashboardProvider keeps what the layout and the pages share; it     *)
(* lives from a login to the logout, the pages from one click in the menu  *)
(* to the next.  It loads its parts by requests that run side by side, and *)
(* again whenever a page asks for it.                                      *)
(*                                                                         *)
(* Abstractions: of an account there is a revision, which every change on  *)
(* the server raises, and the reminder it has set, one for the two.  The   *)
(* third part of the overview, the count of invited users, fails as the    *)
(* others do and shows nothing that is told apart here.  Of the session    *)
(* there is what mounts and unmounts the pages: logins and the checks of   *)
(* their tokens, an account standing for each token it is given; links,    *)
(* reloads and other tabs are in SessionProvider.                          *)
(***************************************************************************)
EXTENDS Integers, Sequences, FiniteSets

CONSTANTS
  Users, NoUser, \* accounts; nobody
  Unloaded,      \* the revision of what has not come in
  MaxClicks,     \* bound: what the user does, visits of pages included
  MaxLogins      \* bound: logins and checks of tokens under way at once

\* What Browser assumes of them.
UserPagesAssumption ==
  NoUser \notin Users /\ MaxClicks \in Nat /\ MaxLogins \in Nat /\ Unloaded = -1

VARIABLES
  auth,    \* whose token the session has, checked or not
  logins,  \* logins and checks of tokens under way: those of SessionProvider, never unmounted
  page,    \* what is mounted
  dash,    \* the state of UserDashboardProvider
  list,    \* notices, servers or plans: what the effect of the page has loaded
  form,    \* the reminder in the form of the settings page, and whether it was touched
  busy,    \* the buttons of the page that wait
  tasks,   \* the async functions of the dashboard that have not ended
  rev,     \* what the server has of each account: its revision
  remind,  \* and its reminder
  clicks,
  patient, \* history: the user has waited for every answer so far, and got it
  surprised, \* history: a reminder was changed that a patient user had not touched
  held,    \* history: whose tokens the session has had since the dashboard is mounted
  late     \* history: a session was given up while a check of a token was under way

vars == <<auth, logins, page, dash, list, form, busy, tasks, rev, remind, clicks, patient,
          surprised, held, late>>
server == <<rev, remind, surprised>>
session == <<auth, logins, held, late>>

Inside == {"overview", "servers", "plans", "settings"}
Posts == {"reset", "update", "password"}
Entries == {"login", "register"}

\* UserDashboardProvider when it is mounted, and as long as it is not.
Fresh == [loading |-> TRUE, user |-> NoUser, info |-> Unloaded, subscribe |-> Unloaded,
          remind |-> FALSE]

\* An async function: what it has left to do, and how far its first step is.
Task(todo, u, button) ==
  [todo |-> todo, user |-> u, at |-> "asked", info |-> Unloaded, subscribe |-> Unloaded,
   remind |-> form.remind, touched |-> form.touched, button |-> button, here |-> TRUE,
   id |-> clicks + 1]

Quiet == tasks = {} /\ logins = {} /\ list # "loading"
Click ==
  /\ clicks < MaxClicks /\ clicks' = clicks + 1
  /\ patient' = (patient /\ Quiet)

-----------------------------------------------------------------------------
(* Mounting and unmounting.                                                *)

\* Mutant: the form takes the reminder only when an overview comes in.
MountOff(p, d) ==
  /\ page' = p
  /\ list' = IF p = "settings" THEN "none" ELSE "loading"
  /\ form' = [remind |-> FALSE, touched |-> FALSE]
  /\ busy' = {}
\* A page: its effect loads its list; the form of the settings takes the reminder
\* from the overview, off as long as there is none.
Mount(p, d) ==
  /\ page' = p
  /\ list' = IF p = "settings" THEN "none" ELSE "loading"
  /\ form' = [remind |-> p = "settings" /\ d.remind, touched |-> FALSE]
  /\ busy' = {}

\* What goes on when the dashboard is gone: requests that were not sent through.
\* Mutant: and loads of the overview, as if their state were kept above the routes.
PendingAll == {[t EXCEPT !.here = FALSE] : t \in tasks}
Pending == {[t EXCEPT !.here = FALSE, !.todo = <<Head(t.todo)>>] :
              t \in {x \in tasks : x.at = "asked" /\ Head(x.todo) \in Posts}}

\* A login whose buttons are gone, the landing page being left or mounted anew.
Away(calls) == {[l EXCEPT !.here = FALSE] : l \in calls}

\* loadOverview, which the effect of the provider runs: without a token it returns at
\* once.
Loading(u, id) ==
  {t \in {[Task(<<"overview">>, u, "none") EXCEPT !.id = id]} : u # NoUser}

-----------------------------------------------------------------------------
(* The session (login, register, verifySession and logout of               *)
(* SessionProvider).                                                       *)

\* handleLogin and handleRegister: each button waits for itself, so that both may be
\* under way; a registration is a login to an account of its own.
Submit(u, button) ==
  /\ page = "landing" /\ button \notin busy /\ Cardinality(logins) < MaxLogins
  /\ Click
  /\ busy' = busy \cup {button}
  /\ logins' = logins \cup
       {[step |-> "login", user |-> u, button |-> button, here |-> TRUE, id |-> clicks + 1]}
  /\ UNCHANGED <<auth, page, dash, list, form, tasks, held, late, server>>

\* The token is there and is checked, by the effect of SessionProvider.
Granted(l) ==
  /\ l \in logins /\ l.step = "login"
  /\ auth' = l.user
  /\ logins' = Away(logins \ {l}) \cup {[l EXCEPT !.step = "check", !.here = FALSE]}

\* Until the check is answered RequireUser sends /dashboard back: the landing page is
\* mounted anew.
LoginGranted(l) ==
  /\ page = "landing" /\ Granted(l)
  /\ Mount("landing", dash)
  /\ UNCHANGED <<dash, tasks, clicks, patient, held, late, server>>

\* A second login is answered when the first has led to the dashboard already: the
\* provider stays, with all it shows, and loads the overview of the other account.
LoginSwaps(l) ==
  /\ page \in Inside /\ Granted(l)
  /\ held' = held \cup {l.user}
  /\ dash' = [dash EXCEPT !.loading = TRUE]
  /\ IF page = "overview"
     THEN /\ list' = "loading" /\ UNCHANGED <<page, form, busy>>
          /\ tasks' = tasks \cup Loading(l.user, l.id)
     ELSE /\ Mount("overview", dash)
          /\ tasks' = Away(tasks) \cup Loading(l.user, l.id)
  /\ UNCHANGED <<clicks, patient, late, server>>

\* A login is refused, or its answer lost.
LoginFails(l) ==
  /\ l \in logins /\ l.step = "login"
  /\ logins' = logins \ {l}
  /\ busy' = IF l.here THEN busy \ {l.button} ELSE busy
  /\ patient' = FALSE
  /\ UNCHANGED <<auth, page, dash, list, form, tasks, clicks, held, late, server>>

\* A check says yes, to whatever token: the session is there and the dashboard is
\* mounted.  The effect of the provider loads the overview, and returns at once if the
\* token has been given up meanwhile.
CheckPasses(l) ==
  /\ l \in logins /\ l.step = "check"
  /\ logins' = Away(logins \ {l})
  /\ IF page = "landing"
     THEN /\ Mount("overview", Fresh) /\ dash' = Fresh /\ held' = {auth} \ {NoUser}
          /\ tasks' = tasks \cup Loading(auth, l.id)
          /\ patient' = (tasks = {} /\ logins = {l})
     ELSE UNCHANGED <<page, list, form, busy, dash, held, tasks, patient>>
  /\ UNCHANGED <<auth, clicks, late, server>>

\* The token of the session is given up, and RequireUser unmounts the dashboard.
GiveUp(calls) ==
  /\ auth' = NoUser
  /\ logins' = calls
  /\ late' = (late \/ \E c \in calls : c.step = "check")
  /\ IF page \in Inside
     THEN Mount("landing", Fresh) /\ dash' = Fresh /\ tasks' = Pending /\ held' = {}
     ELSE UNCHANGED <<page, list, form, busy, dash, tasks, held>>

\* A check says no, to whatever token, or its answer is lost.
CheckFails(l) ==
  /\ l \in logins /\ l.step = "check"
  /\ GiveUp(logins \ {l})
  /\ UNCHANGED <<clicks, patient, server>>

Logout ==
  /\ page \in Inside
  /\ GiveUp(logins)
  /\ UNCHANGED <<clicks, patient, server>>

-----------------------------------------------------------------------------
(* What the user does in the dashboard.                                    *)

\* The menu of UserLayout.  What the old page runs goes on and refreshes the overview,
\* but no button waits for it.
Visit(p) ==
  /\ page \in Inside /\ p \in Inside \ {page}
  /\ Click
  /\ Mount(p, dash)
  /\ tasks' = Away(tasks)
  /\ UNCHANGED <<session, dash, server>>

Begun(d, step) == [d EXCEPT !.loading = @ \/ (step = "overview" /\ auth # NoUser)]

\* refreshOverview of the layout and of the overview page.  Without a token there is
\* nothing to ask for.
Refresh ==
  /\ page \in Inside /\ ~dash.loading
  /\ Click
  /\ tasks' = tasks \cup {Task(<<"overview">>, auth, "none")}
  /\ dash' = Begun(dash, "overview")
  /\ UNCHANGED <<session, page, list, form, busy, server>>

\* A button of a page that starts a request, and the overview after it.
Press(p, button, todo) ==
  /\ page = p /\ button \notin busy
  /\ Click
  /\ busy' = busy \cup {button}
  /\ tasks' = tasks \cup {Task(todo, auth, button)}
  /\ UNCHANGED <<session, page, dash, list, form, server>>

\* Mutant: the overview is not loaded again.
handleResetOnly == Press("overview", "reset", <<"reset">>)
handleReset == Press("overview", "reset", <<"reset", "overview">>)
savePreferences == Press("settings", "update", <<"update", "overview">>)
savePassword == Press("settings", "password", <<"password">>)

\* The switch of the reminder.
Toggle ==
  /\ page = "settings"
  /\ form' = [remind |-> ~form.remind, touched |-> TRUE]
  /\ patient' = (patient /\ Quiet)
  /\ UNCHANGED <<session, page, dash, list, busy, tasks, clicks, server>>

-----------------------------------------------------------------------------
(* Answers come in.                                                        *)

\* The effect of a page: its list, or an empty one.  Those of pages that are gone
\* have been cancelled.
ListIn ==
  /\ list = "loading"
  /\ \E l \in {"shown", "empty"} :
       /\ list' = l
       /\ patient' = (patient /\ l = "shown")
  /\ UNCHANGED <<session, page, dash, form, busy, tasks, clicks, server>>

\* The effect of UserSettingsPage after a new info.
Taken(d) ==
  form' = IF page = "settings" THEN [remind |-> d.remind, touched |-> FALSE] ELSE form

\* loadOverview: all parts are there, or one is not, and what was shown stays.
\* Mutant: then the flag stays, too.
OverviewFailsLoading(t) ==
  IF t.at = "failed" THEN UNCHANGED <<dash, form>>
  ELSE /\ dash' = [loading |-> FALSE, user |-> t.user, info |-> t.info,
                   subscribe |-> t.subscribe, remind |-> t.remind]
       /\ Taken(dash')
Overview(t) ==
  IF t.at = "failed"
  THEN dash' = [dash EXCEPT !.loading = FALSE] /\ UNCHANGED form
  ELSE /\ dash' = [loading |-> FALSE, user |-> t.user, info |-> t.info,
                   subscribe |-> t.subscribe, remind |-> t.remind]
       /\ Taken(dash')

\* Whether a function goes on when a request of it is answered.
\* Mutant: and it does after the last.
GoesOnAlways(t) == t.at = "served" /\ Len(t.todo) > 0
GoesOn(t) == t.at = "served" /\ Len(t.todo) > 1

\* The next step of a function, with the token the session has by then.  A request that
\* failed ends it, and so does the last one; then its button is free again.  No answer
\* is compared with the account that is signed in.
Deliver(t) ==
  LET next == [t EXCEPT !.todo = Tail(@), !.user = auth, !.at = "asked", !.info = Unloaded,
                        !.subscribe = Unloaded]
  IN  /\ t \in tasks /\ t.at # "asked"
      /\ tasks' = (tasks \ {t}) \cup {x \in {next} : GoesOn(t)}
      /\ IF Head(t.todo) = "overview" THEN Overview(t)
         ELSE /\ dash' = IF GoesOn(t) THEN Begun(dash, "overview") ELSE dash
              /\ UNCHANGED form
      /\ busy' = IF t.here /\ ~GoesOn(t) THEN busy \ {t.button} ELSE busy
      /\ patient' = (patient /\ t.at = "served")
  /\ UNCHANGED <<session, page, list, clicks, server>>

-----------------------------------------------------------------------------
(* The server and the network.                                             *)

\* Nobody waits for the last step of a function whose page is gone, unless it is the
\* load that the dashboard waits for.
Ignored(s) == ~s.here /\ Len(s.todo) = 1 /\ Head(s.todo) \in Posts
Answer(t, s) == tasks' = (tasks \ {t}) \cup {x \in {s} : ~Ignored(s)}

\* The parts of the overview are answered one by one, in any order.
ServePart(t, part) ==
  /\ t \in tasks /\ t.at = "asked" /\ Head(t.todo) = "overview"
  /\ t.user \in Users /\ t[part] = Unloaded
  /\ LET s == [t EXCEPT ![part] = rev[t.user],
                        !.remind = IF part = "info" THEN remind[t.user] ELSE @]
     IN  Answer(t, [s EXCEPT !.at = IF s.info # Unloaded /\ s.subscribe # Unloaded
                                    THEN "served" ELSE "asked"])
  /\ UNCHANGED <<session, page, dash, list, form, busy, clicks, patient, server>>

\* A change is made, and its answer comes or is lost.
ServePost(t, at) ==
  LET step == Head(t.todo)
  IN  /\ t \in tasks /\ t.at = "asked" /\ step \in Posts /\ t.user \in Users
      /\ at \in {"served", "failed"}
      /\ rev' = [rev EXCEPT ![t.user] = IF step = "password" THEN @ ELSE @ + 1]
      /\ remind' = [remind EXCEPT ![t.user] = IF step = "update" THEN t.remind ELSE @]
      /\ surprised' = (surprised \/ (patient /\ ~t.touched /\ remind' # remind))
      /\ Answer(t, [t EXCEPT !.at = at])
  /\ UNCHANGED <<session, page, dash, list, form, busy, clicks, patient>>

\* Refused, as everything is without a token, or lost; Promise.all rejects with the first
\* that fails.
Refuse(t) ==
  /\ t \in tasks /\ t.at = "asked"
  /\ Answer(t, [t EXCEPT !.at = "failed"])
  /\ UNCHANGED <<session, page, dash, list, form, busy, clicks, patient, server>>

-----------------------------------------------------------------------------
Init ==
  /\ auth = NoUser /\ logins = {} /\ held = {} /\ late = FALSE
  /\ page = "landing" /\ dash = Fresh
  /\ list = "loading" /\ form = [remind |-> FALSE, touched |-> FALSE] /\ busy = {}
  /\ tasks = {}
  /\ rev = [u \in Users |-> 0] /\ remind \in [Users -> BOOLEAN]
  /\ clicks = 0 /\ patient = TRUE /\ surprised = FALSE

Next ==
  \/ \E u \in Users, button \in Entries : Submit(u, button)
  \/ \E l \in logins :
       \/ LoginGranted(l)
       \/ LoginSwaps(l)
       \/ LoginFails(l)
       \/ CheckPasses(l)
       \/ CheckFails(l)
  \/ Logout
  \/ \E p \in Inside : Visit(p)
  \/ Refresh
  \/ handleReset
  \/ savePreferences
  \/ savePassword
  \/ Toggle
  \/ ListIn
  \/ \E t \in tasks :
       \/ Deliver(t)
       \/ \E part \in {"info", "subscribe"} : ServePart(t, part)
       \/ \E at \in {"served", "failed"} : ServePost(t, at)
       \/ Refuse(t)

Spec == Init /\ [][Next]_vars

-----------------------------------------------------------------------------
(* Properties.                                                             *)

Revs == 0 .. MaxClicks \cup {Unloaded}
TypeOK ==
  /\ auth \in Users \cup {NoUser} /\ page \in Inside \cup {"landing"}
  /\ dash \in [loading : BOOLEAN, user : Users \cup {NoUser}, info : Revs, subscribe : Revs,
               remind : BOOLEAN]
  /\ list \in {"none", "loading", "shown", "empty"} /\ busy \subseteq Posts \cup Entries
  /\ form \in [remind : BOOLEAN, touched : BOOLEAN]
  /\ \A t \in tasks : t.todo # <<>> /\ t.at \in {"asked", "served", "failed"}
  /\ held \subseteq Users
  /\ logins \subseteq [step : {"login", "check"}, user : Users, button : Entries,
                       here : BOOLEAN, id : 1 .. MaxClicks]
  /\ rev \in [Users -> 0 .. MaxClicks] /\ remind \in [Users -> BOOLEAN]

\* What was loaded for one account is not shown to another, however late the answers
\* come in: the dashboard shows only what belongs to an account it has had the token of
\* since it was mounted, and a logout, or a check that fails, takes that away for good.
\* With one login at a time that is the account signed in; a second login or
\* registration that was sent along with the first, and is answered when the dashboard is
\* there, adds its account -- nothing takes the first one away then.
OwnDataOnly == dash.user \in held \cup {NoUser}

\* A user who waits for every answer, and gets it, sees the account as the server has
\* it, all parts of the same age; and so does the form of the settings, whose save
\* changes no reminder that was not touched -- a save by somebody who did not wait for
\* the overview, or did not get it, turns it off.
PatientSeesAccount ==
  /\ ~surprised
  /\ patient /\ Quiet /\ page \in Inside /\ auth # NoUser =>
       /\ dash.info = rev[auth] /\ dash.subscribe = rev[auth]
       /\ page = "settings" /\ ~form.touched => form.remind = remind[auth]

\* A button waits only while a request of its function is under way; the overview is
\* said to be loading only while it is, or in a dashboard without a token.  That one
\* waits for nothing and may stay so; but it only comes about in a tab that gave up a
\* session while the check of a token was under way.
WaitsForSomething ==
  /\ \A b \in busy : \E t \in tasks \cup logins : t.here /\ t.button = b
  /\ page \in Inside /\ dash.loading =>
       (\E t \in tasks : Head(t.todo) = "overview") \/ (auth = NoUser /\ late)

=============================================================================
