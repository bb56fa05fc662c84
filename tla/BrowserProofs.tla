---------------------------- MODULE BrowserProofs ----------------------------
(***************************************************************************)
(* Proofs about Browser.                                                   *)
(*                                                                         *)
(* A tab shows one of three parts for good, so there is an inductive       *)
(* invariant for each, and none but its own steps disturb it.              *)
(*                                                                         *)
(* Addresses (TrailHolds): how many redirects there have been says who has *)
(* made them, and where the address is then.                               *)
(*                                                                         *)
(* Subscriber (UserHolds): what was begun in a dashboard that is gone is   *)
(* only a change under way; a check asks about a token that is there, or   *)
(* was given up; while the user waits in the dashboard there is one        *)
(* function, and it knows what the server has.                             *)
(*                                                                         *)
(* Panel (AdminHolds): one save at a time; what is in the form, or on its  *)
(* way from there, has not been saved; while the admin waits there is one  *)
(* function, and it has yet to load all that is not up to date.            *)
(*                                                                         *)
(* In the last two, a change that is under way has a click of its own, so  *)
(* that revisions never exceed the number of clicks.                       *)
(***************************************************************************)
EXTENDS Browser, FiniteSetTheorems, TLAPS

-----------------------------------------------------------------------------
(* The addresses (Navigation).                                             *)

Named ==
  /\ cfgPath \in Paths \ {""} /\ secure \in Paths
  /\ base \in Paths \cup {"", "dashboard", "admin"}
  /\ seg \in Paths \cup {"", "dashboard", "admin"}
Known ==
  /\ who \in {"nobody", "user", "admin"} /\ tree \in {"none", "user", "admin"}
  /\ tail \in Routes!Tails
  /\ hops \in Nat

\* The server redirects once and the routes of a tree once.
Hopped ==
  /\ tree = "none" => hops = 0 \/ (hops = 1 /\ seg = Routes!configuredAdminPath)
  /\ tree # "none" =>
       \/ hops = 0
       \/ hops = 1 /\ tree = "admin"
       \/ hops <= 2 /\ Routes!Settled

\* The address is the one that was asked for, or where the panel is by now.
OnTheWay ==
  /\ tree = "none" =>
       \/ asked \in {"", seg}
       \/ asked \in Routes!aliases /\ seg = Routes!configuredAdminPath
  /\ tree # "none" =>
       /\ asked \in {Routes!configuredAdminPath, cfgPath, "admin"} => tree = "admin"
       /\ asked = "dashboard" /\ cfgPath # "dashboard" => tree = "user"

Trail == Named /\ Known /\ Hopped /\ OnTheWay
TrailHolds == part = "routes" => Trail

\* Where the panel is.
LEMMA PanelPath ==
  ASSUME Named
  PROVE  /\ Routes!configuredAdminPath \in Paths \cup {"admin"}
         /\ Routes!configuredAdminPath \notin {"", "dashboard"}
         /\ Routes!configuredAdminPath \notin Routes!aliases
         /\ cfgPath # ""
BY BrowserAssumption DEF Routes!NavigationAssumption, Named, Routes!configuredAdminPath, Routes!aliases

\* What a route leads to stays where it is.
LEMMA OneRoute ==
  ASSUME Known, tree # "none", Routes!Route
  PROVE  Routes!Settled'
<1>1. CASE tree = "user"
  BY <1>1 DEF Known, Routes!Route, Routes!Settled, Routes!Target, Routes!UserRoute,
     Routes!Here, Routes!In, Routes!UserPages
<1>2. CASE tree = "admin"
  BY <1>2 DEF Known, Routes!Route, Routes!Settled, Routes!Target, Routes!AdminRoute,
     Routes!Here, Routes!In, Routes!AdminPages
<1> QED BY <1>1, <1>2 DEF Known

\* A settled page is one that the visitor may see.
LEMMA SeesItsPage ==
  ASSUME Known, Routes!Settled
  PROVE  /\ tree = "admin" => (tail \in Routes!AdminPages) = (who = "admin")
         /\ tree = "user" => (seg = "dashboard") = (who # "nobody")
<1>1. CASE tree = "user"
  BY <1>1 DEF Known, Routes!Settled, Routes!Target, Routes!UserRoute,
     Routes!Here, Routes!In, Routes!UserPages
<1>2. CASE tree = "admin"
  BY <1>2 DEF Known, Routes!Settled, Routes!Target, Routes!AdminRoute,
     Routes!Here, Routes!In, Routes!AdminPages
<1> QED BY <1>1, <1>2 DEF Known, Routes!Settled

\* An address that is typed or linked to has not been redirected yet.
LEMMA TrailBegins ==
  ASSUME Routes!Init
  PROVE  Trail
<1>1. Named
  BY BrowserAssumption DEF Routes!NavigationAssumption, Routes!Init, Named,
     Routes!configuredAdminPath
<1>2. Known
  BY DEF Routes!Init, Known, Routes!Tails
<1> QED BY <1>1, <1>2 DEF Routes!Init, Trail, Hopped, OnTheWay

\* One step along the way: the server's redirect, that of a tree, or what the user does.
LEMMA TrailStep ==
  ASSUME Trail, Routes!Next
  PROVE  Trail'
<1> USE DEF Trail
<1>p. /\ Routes!configuredAdminPath \in Paths \cup {"admin"}
      /\ Routes!configuredAdminPath \notin {"", "dashboard"}
      /\ Routes!configuredAdminPath \notin Routes!aliases
      /\ cfgPath # ""
  BY PanelPath
<1>s. ASSUME cfgPath' = cfgPath, secure' = secure
      PROVE  /\ Routes!configuredAdminPath' = Routes!configuredAdminPath
             /\ Routes!aliases' = Routes!aliases
  BY <1>s DEF Routes!configuredAdminPath, Routes!aliases
<1>1. CASE Routes!Render
  <2>1. Named'
    BY <1>1, <1>p DEF Named, Routes!Render
  <2>2. Known' /\ Hopped'
    BY <1>1 DEF Routes!Render, Hopped, Known
  <2>3. OnTheWay'
    BY <1>1, <1>p, <1>s DEF Routes!Render, OnTheWay, Routes!aliases
  <2> QED BY <2>1, <2>2, <2>3
<1>2. CASE Routes!Redirect
  <2>1. Named'
    BY <1>2, <1>p DEF Named, Routes!Redirect
  <2>2. hops = 0
    BY <1>2, <1>p DEF Hopped, Routes!Redirect
  <2>3. Known' /\ Hopped'
    BY <1>2, <1>s, <2>2 DEF Routes!Redirect, Hopped, Known
  <2>4. OnTheWay'
    BY <1>2, <1>s DEF Routes!Redirect, OnTheWay
  <2> QED BY <2>1, <2>3, <2>4
<1>3. CASE Routes!Route
  <2>0. tree # "none" /\ hops' = hops + 1 /\ UNCHANGED <<cfgPath, secure, who, tree, base, asked>>
    BY <1>3 DEF Routes!Route
  <2>1. Named' /\ Known'
    <3>1. CASE tree = "user"
      <4>2. /\ seg' \in {"", "dashboard", seg}
            /\ tail' \in {"", tail}
        BY <1>3, <3>1 DEF Routes!Route, Routes!Target, Routes!UserRoute, Routes!Here, Routes!In
      <4>3. Named'
        BY <2>0, <4>2 DEF Named
      <4>4. tail' \in Routes!Tails
        BY <4>2 DEF Known, Routes!Tails
      <4> QED BY <2>0, <4>3, <4>4 DEF Known
    <3>2. CASE tree = "admin"
      <4>1. Routes!AdminRoute \in {Routes!In(seg, p) :
                                    p \in {"overview", "users", "login", tail}}
        BY DEF Routes!AdminRoute, Routes!Here
      <4>2. /\ seg' = seg
            /\ tail' \in {"overview", "users", "login", tail}
        BY <1>3, <3>2, <4>1 DEF Routes!Route, Routes!Target, Routes!In
      <4>3. Named'
        BY <2>0, <4>2 DEF Named
      <4>4. tail' \in Routes!Tails
        BY <4>2 DEF Known, Routes!Tails, Routes!AdminPages
      <4> QED BY <2>0, <4>3, <4>4 DEF Known
    <3> QED BY <2>0, <3>1, <3>2 DEF Known
  <2>2. Hopped'
    <3>1. Routes!Settled'
      BY <1>3, <2>0, OneRoute
    <3>2. ~Routes!Settled
      BY <1>3 DEF Routes!Route, Routes!Settled
    <3> QED BY <2>0, <3>1, <3>2 DEF Hopped, Known
  <2>3. OnTheWay'
    BY <2>0, <1>s DEF OnTheWay
  <2> QED BY <2>1, <2>2, <2>3
<1>4. ASSUME NEW s \in Paths \cup {"", "dashboard", "admin"}, NEW t \in Routes!Tails,
             Routes!Visit(s, t)
      PROVE  Trail'
  <2>1. Named'
    BY <1>4 DEF Routes!Visit, Routes!Move, Named
  <2> QED BY <1>4, <2>1 DEF Routes!Visit, Routes!Move, Known, Hopped, OnTheWay
<1>5. ASSUME NEW as, Routes!Login(as)
      PROVE  Trail'
  <2>1. Named'
    BY <1>5 DEF Routes!Login, Routes!Move, Named
  <2>2. Known'
    BY <1>5 DEF Routes!Login, Routes!Move, Known, Routes!Tails, Routes!AdminPages
  <2> QED BY <1>5, <2>1, <2>2, <1>s DEF Routes!Login, Routes!Move, Routes!Settled, Hopped, OnTheWay
<1>6. CASE Routes!Leave
  <2>1. Named'
    BY <1>6 DEF Routes!Leave, Routes!Move, Named
  <2> QED BY <1>6, <2>1, <1>s DEF Routes!Leave, Routes!Move, Known, Hopped, OnTheWay
<1>7. CASE Routes!AdminEntry
  <2>1. Named'
    BY <1>7 DEF Routes!AdminEntry, Routes!Move, Named
  <2>2. OnTheWay'
    BY <1>7, <1>p, <1>s DEF Routes!AdminEntry, Routes!Move, OnTheWay
  <2> QED BY <1>7, <2>1, <2>2 DEF Routes!AdminEntry, Routes!Move, Known, Hopped, Routes!Tails
<1>8. ASSUME NEW path \in Paths, Routes!SaveSettings(path)
      PROVE  Trail'
  <2>1. Named'
    BY <1>8 DEF Routes!SaveSettings, Routes!Move, Named
  <2>2. Known' /\ Hopped'
    BY <1>8 DEF Routes!SaveSettings, Routes!Move, Known, Hopped
  <2>3. Routes!configuredAdminPath' # "" /\ cfgPath' # ""
    BY <2>1, BrowserAssumption DEF Routes!NavigationAssumption, Named, Routes!configuredAdminPath
  <2> QED BY <1>8, <2>1, <2>2, <2>3 DEF Routes!SaveSettings, Routes!Move, OnTheWay
<1> QED BY <1>1, <1>2, <1>3, <1>4, <1>5, <1>6, <1>7, <1>8 DEF Routes!Next

\* At the end of every trail is the page that belongs there.
LEMMA TrailEnds ==
  ASSUME Trail
  PROVE  Routes!RedirectsEnd
<1>1. hops <= 2
  BY DEF Trail, Hopped, Known
<1> QED BY <1>1, SeesItsPage DEF Trail, OnTheWay, Routes!RedirectsEnd
-----------------------------------------------------------------------------
(* The pages of a subscriber (UserPages).                                  *)

Ages == Nat \cup {Unloaded}
Orders == {<<"overview">>, <<"reset">>, <<"reset", "overview">>,
           <<"update">>, <<"update", "overview">>, <<"password">>}
Errand == [todo : Orders, user : Users \cup {NoUser}, at : {"asked", "served", "failed"},
           info : Ages, subscribe : Ages, remind : BOOLEAN, touched : BOOLEAN,
           button : User!Posts \cup {"none"}, here : BOOLEAN, id : Nat]
Board == [loading : BOOLEAN, user : Users \cup {NoUser}, info : Ages, subscribe : Ages,
          remind : BOOLEAN]
Entry == [step : {"login", "check"}, user : Users, button : User!Entries, here : BOOLEAN,
          id : Nat]
Account ==
  /\ auth \in Users \cup {NoUser} /\ page \in User!Inside \cup {"landing"}
  /\ dash \in Board
  /\ list \in {"none", "loading", "shown", "empty"} /\ busy \subseteq User!Posts \cup User!Entries
  /\ form \in [remind : BOOLEAN, touched : BOOLEAN]
  /\ tasks \subseteq Errand /\ logins \subseteq Entry
  /\ rev \in [Users -> Nat] /\ remind \in [Users -> BOOLEAN]
  /\ clicks \in Nat /\ patient \in BOOLEAN /\ held \subseteq Users /\ late \in BOOLEAN

\* What goes on without the dashboard it was begun in.
Orphan(t) == t.at = "asked" /\ t.todo \in {<<p>> : p \in User!Posts} /\ ~t.here
Own ==
  /\ dash.user \in held \cup {NoUser}
  /\ page = "landing" => dash.user = NoUser /\ held = {}
  /\ page \in User!Inside => auth \in held \cup {NoUser}
  /\ \A t \in tasks : Orphan(t) \/ (page \in User!Inside /\ t.user \in held \cup {NoUser})

\* Whose buttons wait for a login, and which tokens are checked.
Entered ==
  /\ \A l \in logins : /\ l.here => page = "landing" /\ l.step = "login"
                       /\ l.step = "check" => auth # NoUser \/ late
  /\ page \in User!Inside /\ auth = NoUser => late

\* The form of the settings shows the reminder of the overview.
Follows == page = "settings" /\ ~form.touched => form.remind = dash.remind

\* While the user waits, one function runs, and knows what the server has.
Informed(t) ==
  /\ Head(t.todo) = "update" /\ ~t.touched /\ t.at = "asked" => t.remind = remind[t.user]
  /\ Head(t.todo) = "overview" =>
       /\ t.info \in {Unloaded, rev[t.user]} /\ t.subscribe \in {Unloaded, rev[t.user]}
       /\ t.info # Unloaded => t.remind = remind[t.user]
       /\ t.at = "served" => t.info # Unloaded /\ t.subscribe # Unloaded
Current ==
  /\ \A t, s \in tasks : t = s
  /\ page \in User!Inside => logins = {} /\ \A t \in tasks : t.user = auth
  /\ page \in User!Inside /\ auth # NoUser /\ (\A t \in tasks : t.todo = <<"password">>) =>
        dash.info = rev[auth] /\ dash.subscribe = rev[auth] /\ dash.remind = remind[auth]
  /\ page \in User!Inside => \A t \in tasks : t.todo \notin {<<"reset">>, <<"update">>}
  /\ \A t \in tasks : t.user \in Users => Informed(t)
Waited == Follows /\ (patient => Current) /\ ~surprised

\* What is to be changed yet, by the clicks that have asked for it.
Waiting(u) ==
  {t.id : t \in {x \in tasks : x.at = "asked" /\ Head(x.todo) \in User!Posts /\ x.user = u}}
Numbered ==
  /\ \A t \in tasks : t.id \in 1 .. clicks
  /\ \A t, s \in tasks :
       t.id = s.id /\ Head(t.todo) \in User!Posts /\ Head(s.todo) \in User!Posts => t = s
Issued == \A l \in logins : l.id \in 1 .. clicks
Room ==
  /\ clicks <= MaxClicks
  /\ \A u \in Users : rev[u] + Cardinality(Waiting(u)) <= clicks
Seen ==
  /\ dash.info \in User!Revs /\ dash.subscribe \in User!Revs
  /\ \A t \in tasks : t.info \in User!Revs /\ t.subscribe \in User!Revs
Counted == Numbered /\ Issued /\ Room /\ Seen

UserHolds ==
  part = "user" =>
    Account /\ Own /\ Entered /\ User!WaitsForSomething /\ Waited /\ Counted

\* What the steps of a function are.
LEMMA Steps ==
  ASSUME NEW t \in Errand
  PROVE  /\ t.todo \in Orders
         /\ Head(t.todo) \in User!Posts \cup {"overview"}
         /\ Head(t.todo) = "overview" <=> t.todo = <<"overview">>
         /\ Len(t.todo) > 1 => /\ Tail(t.todo) = <<"overview">>
                               /\ Head(t.todo) \in {"reset", "update"}
         /\ Len(t.todo) > 1 <=> t.todo \notin {<<"overview">>} \cup {<<p>> : p \in User!Posts}
         /\ <<Head(t.todo)>> \in Orders
         /\ t.todo # <<>>
<1>1. t.todo \in Orders
  BY DEF Errand
<1>2. ASSUME NEW o \in Orders
      PROVE  /\ Head(o) \in User!Posts \cup {"overview"}
             /\ Head(o) = "overview" <=> o = <<"overview">>
             /\ Len(o) > 1 => Tail(o) = <<"overview">> /\ Head(o) \in {"reset", "update"}
             /\ Len(o) > 1 <=> o \notin {<<"overview">>} \cup {<<p>> : p \in User!Posts}
             /\ <<Head(o)>> \in Orders
             /\ o # <<>>
  <2>1. CASE o = <<"overview">>
    BY <2>1 DEF Orders, User!Posts
  <2>2. CASE o = <<"reset">>
    BY <2>2 DEF Orders, User!Posts
  <2>3. CASE o = <<"reset", "overview">>
    BY <2>3 DEF Orders, User!Posts
  <2>4. CASE o = <<"update">>
    BY <2>4 DEF Orders, User!Posts
  <2>5. CASE o = <<"update", "overview">>
    BY <2>5 DEF Orders, User!Posts
  <2>6. CASE o = <<"password">>
    BY <2>6 DEF Orders, User!Posts
  <2> QED BY <2>1, <2>2, <2>3, <2>4, <2>5, <2>6 DEF Orders
<1> QED BY <1>1, <1>2

\* A function that is begun is an errand,
LEMMA Started ==
  ASSUME Account, NEW todo \in Orders, NEW u \in Users \cup {NoUser},
         NEW button \in User!Posts \cup {"none"}
  PROVE  User!Task(todo, u, button) \in Errand
BY BrowserAssumption DEF User!UserPagesAssumption, Account, Errand, User!Task, Ages

\* and so is what is left of one when its page is left.
LEMMA Left ==
  ASSUME NEW t \in Errand
  PROVE  /\ [t EXCEPT !.here = FALSE] \in Errand
         /\ [t EXCEPT !.here = FALSE, !.todo = <<Head(t.todo)>>] \in Errand
         /\ \A at \in {"asked", "served", "failed"} : [t EXCEPT !.at = at] \in Errand
         /\ Len(t.todo) > 1 => \A u \in Users \cup {NoUser} :
              [t EXCEPT !.todo = Tail(@), !.user = u, !.at = "asked", !.info = Unloaded,
                        !.subscribe = Unloaded] \in Errand
<1>1. /\ <<Head(t.todo)>> \in Orders
      /\ Len(t.todo) > 1 => Tail(t.todo) \in Orders
  BY Steps DEF Orders
<1> QED BY <1>1 DEF Errand, Ages

\* A dashboard that is mounted shows nothing yet.
LEMMA IsFresh ==
  User!Fresh \in Board
BY DEF User!Fresh, Board, Ages

\* What a page is mounted with.
LEMMA Mounts ==
  ASSUME Account, NEW p \in User!Inside \cup {"landing"},
         NEW d \in Board,
         User!Mount(p, d)
  PROVE  /\ page' \in User!Inside \cup {"landing"}
         /\ list' \in {"none", "loading", "shown", "empty"} /\ busy' = {}
         /\ form' \in [remind : BOOLEAN, touched : BOOLEAN]
BY DEF User!Mount, Board

\* Functions and logins whose page is left.
LEMMA LeftAway ==
  ASSUME Account
  PROVE  /\ User!Away(tasks) \subseteq Errand
         /\ \A s \in User!Away(tasks) : \E t \in tasks : s = [t EXCEPT !.here = FALSE]
         /\ \A calls \in SUBSET logins :
              /\ User!Away(calls) \subseteq Entry
              /\ \A c \in User!Away(calls) :
                   ~c.here /\ \E l \in calls : c.step = l.step /\ c.id = l.id
<1>1. \A t \in tasks : [t EXCEPT !.here = FALSE] \in Errand
  BY Left DEF Account
<1>2. ASSUME NEW l \in logins
      PROVE  LET c == [l EXCEPT !.here = FALSE]
             IN  c \in Entry /\ ~c.here /\ c.step = l.step /\ c.id = l.id
  <2>1. l \in Entry
    BY DEF Account
  <2> QED BY <2>1 DEF Entry
<1> QED BY <1>1, <1>2 DEF User!Away

\* What the effect of a dashboard begins.
LEMMA EffectLoads ==
  ASSUME Account, NEW u \in Users \cup {NoUser}, NEW id \in Nat
  PROVE  /\ \A n \in User!Loading(u, id) :
              /\ n \in Errand /\ n.todo = <<"overview">> /\ n.user = u /\ n.at = "asked"
              /\ n.info = Unloaded /\ n.subscribe = Unloaded /\ n.id = id
         /\ \A n, m \in User!Loading(u, id) : n = m
         /\ u # NoUser => \E n \in User!Loading(u, id) : Head(n.todo) = "overview"
<1> DEFINE t == User!Task(<<"overview">>, u, "none")
           n == [t EXCEPT !.id = id]
<1>1. /\ t \in Errand
      /\ t.todo = <<"overview">> /\ t.user = u /\ t.at = "asked"
      /\ t.info = Unloaded /\ t.subscribe = Unloaded
  BY Started DEF Orders, User!Task
<1>2. User!Loading(u, id) = {x \in {n} : u # NoUser}
  BY DEF User!Loading
<1> HIDE DEF t
<1>3. /\ n \in Errand /\ n.todo = <<"overview">> /\ n.user = u /\ n.at = "asked"
      /\ n.info = Unloaded /\ n.subscribe = Unloaded /\ n.id = id
  BY <1>1 DEF Errand
<1> HIDE DEF n
<1>4. Head(n.todo) = "overview"
  BY <1>3
<1> QED BY <1>2, <1>3, <1>4

\* What is left of a token that is there no more.
LEMMA GivesUp ==
  ASSUME Account, NEW calls \in SUBSET logins, User!GiveUp(calls)
  PROVE  /\ auth' = NoUser /\ logins' = calls
         /\ late' = (late \/ \E c \in calls : c.step = "check")
         /\ \/ page = "landing" /\ UNCHANGED <<page, list, form, busy, dash, tasks, held>>
            \/ /\ page \in User!Inside /\ page' = "landing" /\ held' = {} /\ busy' = {}
               /\ User!Mount("landing", User!Fresh)
               /\ dash' = User!Fresh /\ tasks' = User!Pending
BY DEF User!GiveUp, User!Mount, Account

\* What a second login does in the dashboard.
LEMMA Swaps ==
  ASSUME Account, NEW l \in logins, User!LoginSwaps(l)
  PROVE  /\ page \in User!Inside /\ page' = "overview" /\ held' = held \cup {l.user}
         /\ dash' \in Board /\ dash'.loading
         /\ dash'.info = dash.info /\ dash'.subscribe = dash.subscribe /\ dash'.remind = dash.remind
         /\ list' = "loading" /\ form' \in [remind : BOOLEAN, touched : BOOLEAN]
         /\ \/ UNCHANGED busy /\ tasks' = tasks \cup User!Loading(l.user, l.id)
            \/ busy' = {} /\ tasks' = User!Away(tasks) \cup User!Loading(l.user, l.id)
<1>1. dash \in Board /\ form \in [remind : BOOLEAN, touched : BOOLEAN]
  BY DEF Account
<1>2. /\ page \in User!Inside /\ held' = held \cup {l.user} /\ dash' = [dash EXCEPT !.loading = TRUE]
  BY DEF User!LoginSwaps
<1>3. /\ dash' \in Board /\ dash'.loading
      /\ dash'.info = dash.info /\ dash'.subscribe = dash.subscribe /\ dash'.remind = dash.remind
  BY <1>1, <1>2 DEF Board
<1>4. CASE page = "overview"
  BY <1>1, <1>2, <1>3, <1>4 DEF User!LoginSwaps
<1>5. CASE page # "overview"
  <2>1. /\ User!Mount("overview", dash)
        /\ tasks' = User!Away(tasks) \cup User!Loading(l.user, l.id)
    BY <1>5 DEF User!LoginSwaps
  <2>2. page' = "overview" /\ list' = "loading" /\ busy' = {}
    BY <2>1 DEF User!Mount
  <2>3. form' \in [remind : BOOLEAN, touched : BOOLEAN]
    BY <1>1, <2>1, Mounts DEF User!Inside
  <2> QED BY <1>2, <1>3, <2>1, <2>2, <2>3
<1> QED BY <1>4, <1>5

\* The login that is granted is checked.
LEMMA Grants ==
  ASSUME Account, NEW l \in logins, User!Granted(l)
  PROVE  /\ auth' = l.user /\ auth' \in Users /\ l.id \in Nat
         /\ logins' \subseteq Entry
         /\ \A c \in logins' : ~c.here /\ \E x \in logins : c.id = x.id
<1> DEFINE c == [l EXCEPT !.step = "check", !.here = FALSE]
<1>1. l \in Entry
  BY DEF Account
<1>2. c \in Entry /\ ~c.here /\ c.id = l.id
  BY <1>1 DEF Entry
<1>3. auth' = l.user /\ logins' = User!Away(logins \ {l}) \cup {c}
  BY DEF User!Granted
<1> HIDE DEF c
<1>4. logins \ {l} \in SUBSET logins
  OBVIOUS
<1> QED BY <1>1, <1>2, <1>3, <1>4, LeftAway DEF Entry

\* The check that passes is not there any more.
LEMMA Passes ==
  ASSUME Account, NEW l \in logins, User!CheckPasses(l)
  PROVE  /\ l.step = "check" /\ l.id \in Nat
         /\ UNCHANGED <<auth, clicks, late, rev, remind, surprised>>
         /\ logins' = User!Away(logins \ {l}) /\ logins' \subseteq Entry
         /\ \A c \in logins' : ~c.here /\ \E x \in logins : c.id = x.id /\ c.step = x.step
         /\ \/ /\ page \in User!Inside
               /\ UNCHANGED <<page, list, form, busy, dash, held, tasks, patient>>
            \/ /\ page = "landing" /\ page' = "overview" /\ held' = {auth} \ {NoUser}
               /\ list' = "loading" /\ busy' = {}
               /\ form' \in [remind : BOOLEAN, touched : BOOLEAN]
               /\ dash' = User!Fresh /\ tasks' = tasks \cup User!Loading(auth, l.id)
               /\ patient' = (tasks = {} /\ logins = {l})
<1>1. l \in Entry /\ logins \ {l} \in SUBSET logins
  BY DEF Account
<1>2. /\ l.step = "check" /\ logins' = User!Away(logins \ {l})
      /\ UNCHANGED <<auth, clicks, late, rev, remind, surprised>>
  BY DEF User!CheckPasses, User!server
<1>3. /\ logins' \subseteq Entry
      /\ \A c \in logins' : ~c.here /\ \E x \in logins : c.id = x.id /\ c.step = x.step
  BY <1>1, <1>2, LeftAway
<1>4. CASE page = "landing"
  <2>1. /\ User!Mount("overview", User!Fresh) /\ dash' = User!Fresh /\ held' = {auth} \ {NoUser}
        /\ tasks' = tasks \cup User!Loading(auth, l.id)
        /\ patient' = (tasks = {} /\ logins = {l})
    BY <1>4 DEF User!CheckPasses
  <2>2. page' = "overview" /\ list' = "loading" /\ busy' = {}
    BY <2>1 DEF User!Mount
  <2>3. form' \in [remind : BOOLEAN, touched : BOOLEAN]
    BY <2>1, IsFresh, Mounts DEF User!Inside
  <2> QED BY <1>1, <1>2, <1>3, <1>4, <2>1, <2>2, <2>3 DEF Entry
<1>5. CASE page # "landing"
  <2>1. UNCHANGED <<page, list, form, busy, dash, held, tasks, patient>>
    BY <1>5 DEF User!CheckPasses
  <2> QED BY <1>1, <1>2, <1>3, <1>5, <2>1 DEF Entry, Account
<1> QED BY <1>4, <1>5

\* Everything else leaves the session alone, and goes from page to page of the dashboard.
LEMMA Else ==
  ASSUME \/ \E p \in User!Inside : User!Visit(p)
         \/ User!Refresh \/ User!handleReset \/ User!savePreferences \/ User!savePassword
         \/ User!Toggle \/ User!ListIn
         \/ \E t \in tasks :
              \/ User!Deliver(t)
              \/ \E part_ \in {"info", "subscribe"} : User!ServePart(t, part_)
              \/ \E at \in {"served", "failed"} : User!ServePost(t, at)
              \/ User!Refuse(t)
  PROVE  /\ UNCHANGED <<auth, logins, held, late>>
         /\ page' = page \/ (page \in User!Inside /\ page' \in User!Inside)
         /\ clicks' \in {clicks, clicks + 1}
<1>1. ASSUME NEW p \in User!Inside, User!Visit(p)
      PROVE  /\ UNCHANGED <<auth, logins, held, late>>
             /\ page \in User!Inside /\ page' \in User!Inside /\ clicks' = clicks + 1
  BY <1>1 DEF User!Visit, User!Mount, User!session, User!Click
<1>2. ASSUME ~\E p \in User!Inside : User!Visit(p)
      PROVE  UNCHANGED <<auth, logins, held, late, page>> /\ clicks' \in {clicks, clicks + 1}
  BY <1>2 DEF User!Refresh, User!Press, User!handleReset, User!savePreferences, User!savePassword,
     User!Toggle, User!ListIn, User!Deliver, User!ServePart, User!ServePost, User!Refuse,
     User!session, User!Click
<1> QED BY <1>1, <1>2

\* A load of the overview changes nothing that is shown but the spinner.
LEMMA Begins ==
  ASSUME NEW d \in Board, NEW step
  PROVE  /\ User!Begun(d, step) \in Board
         /\ User!Begun(d, step).loading = (d.loading \/ (step = "overview" /\ auth # NoUser))
         /\ User!Begun(d, step).user = d.user
         /\ User!Begun(d, step).info = d.info
         /\ User!Begun(d, step).subscribe = d.subscribe
         /\ User!Begun(d, step).remind = d.remind
BY DEF User!Begun, Board

\* Answers, and requests that were not.
LEMMA Replies ==
  ASSUME Account, NEW t \in tasks,
         \/ \E part_ \in {"info", "subscribe"} : User!ServePart(t, part_)
         \/ \E at \in {"served", "failed"} : User!ServePost(t, at)
         \/ User!Refuse(t)
  PROVE  /\ t.at = "asked"
         /\ UNCHANGED <<auth, logins, held, late, page, dash, list, form, busy, clicks, patient>>
         /\ \E s \in Errand :
              /\ s.todo = t.todo /\ s.user = t.user /\ s.here = t.here
              /\ s.button = t.button /\ s.id = t.id
              /\ User!Answer(t, s)
<1>0. t \in Errand
  BY DEF Account
<1>1. CASE User!ServePart(t, "info")
  <2> DEFINE s == [t EXCEPT !.info = rev[t.user], !.remind = remind[t.user]]
             r == [s EXCEPT !.at = IF s.info # Unloaded /\ s.subscribe # Unloaded
                                   THEN "served" ELSE "asked"]
  <2>1. rev[t.user] \in Ages /\ remind[t.user] \in BOOLEAN
    BY <1>1 DEF User!ServePart, Account, Ages
  <2>2. /\ s \in Errand
        /\ s.todo = t.todo /\ s.user = t.user /\ s.here = t.here
        /\ s.button = t.button /\ s.id = t.id
    BY <1>0, <2>1 DEF Errand
  <2>3. User!Answer(t, r)
    BY <1>1 DEF User!ServePart
  <2> HIDE DEF s
  <2>4. /\ r \in Errand
        /\ r.todo = t.todo /\ r.user = t.user /\ r.here = t.here
        /\ r.button = t.button /\ r.id = t.id
    BY <2>2 DEF Errand
  <2> QED BY <1>1, <2>3, <2>4 DEF User!ServePart, User!session
<1>2. CASE User!ServePart(t, "subscribe")
  <2> DEFINE s == [t EXCEPT !.subscribe = rev[t.user], !.remind = @]
             r == [s EXCEPT !.at = IF s.info # Unloaded /\ s.subscribe # Unloaded
                                   THEN "served" ELSE "asked"]
  <2>1. rev[t.user] \in Ages
    BY <1>2 DEF User!ServePart, Account, Ages
  <2>2. /\ s \in Errand
        /\ s.todo = t.todo /\ s.user = t.user /\ s.here = t.here
        /\ s.button = t.button /\ s.id = t.id
    BY <1>0, <2>1 DEF Errand
  <2>3. User!Answer(t, r)
    BY <1>2 DEF User!ServePart
  <2> HIDE DEF s
  <2>4. /\ r \in Errand
        /\ r.todo = t.todo /\ r.user = t.user /\ r.here = t.here
        /\ r.button = t.button /\ r.id = t.id
    BY <2>2 DEF Errand
  <2> QED BY <1>2, <2>3, <2>4 DEF User!ServePart, User!session
<1>3. ASSUME NEW at \in {"served", "failed"}, User!ServePost(t, at) \/ User!Refuse(t)
      PROVE  \E a \in {"served", "failed"} : User!Answer(t, [t EXCEPT !.at = a])
  BY <1>3 DEF User!ServePost, User!Refuse
<1>4. ASSUME NEW a \in {"served", "failed"}
      PROVE  LET s == [t EXCEPT !.at = a]
             IN  /\ s \in Errand
                 /\ s.todo = t.todo /\ s.user = t.user /\ s.here = t.here
                 /\ s.button = t.button /\ s.id = t.id
  BY <1>0 DEF Errand
<1>5. CASE (\E at \in {"served", "failed"} : User!ServePost(t, at)) \/ User!Refuse(t)
  BY <1>3, <1>4, <1>5 DEF User!ServePost, User!Refuse, User!session
<1> QED BY <1>1, <1>2, <1>5

\* What comes of an answer.
LEMMA GoesOn ==
  ASSUME Account, NEW t \in tasks, User!Deliver(t)
  PROVE  /\ t.at \in {"served", "failed"}
         /\ UNCHANGED <<auth, logins, held, late, page, list, clicks, rev, remind, surprised>>
         /\ patient' = (patient /\ t.at = "served")
         /\ \/ /\ ~(t.at = "served" /\ Len(t.todo) > 1)
               /\ tasks' = tasks \ {t}
               /\ busy' = IF t.here THEN busy \ {t.button} ELSE busy
            \/ /\ t.at = "served" /\ Len(t.todo) > 1 /\ UNCHANGED busy
               /\ \E n \in Errand :
                    /\ n.todo = <<"overview">> /\ n.at = "asked"
                    /\ n.info = Unloaded /\ n.subscribe = Unloaded
                    /\ n.user = auth /\ n.here = t.here /\ n.button = t.button
                    /\ n.id = t.id
                    /\ tasks' = (tasks \ {t}) \cup {n}
<1>0. t \in Errand
  BY DEF Account
<1>1. CASE t.at = "served" /\ Len(t.todo) > 1
  <2> DEFINE n == [t EXCEPT !.todo = Tail(@), !.user = auth, !.at = "asked",
                            !.info = Unloaded, !.subscribe = Unloaded]
  <2>1. n \in Errand
    BY <1>0, <1>1, Left DEF Account
  <2>2. /\ n.todo = <<"overview">> /\ n.at = "asked"
        /\ n.info = Unloaded /\ n.subscribe = Unloaded
        /\ n.user = auth /\ n.here = t.here /\ n.button = t.button /\ n.id = t.id
    BY <1>0, <1>1, Steps DEF Errand, Account
  <2>3. tasks' = (tasks \ {t}) \cup {n}
    BY <1>1 DEF User!Deliver, User!GoesOn
  <2> HIDE DEF n
  <2> QED BY <1>0, <1>1, <2>1, <2>2, <2>3 DEF User!Deliver, User!GoesOn, User!server, User!session
<1>2. CASE ~(t.at = "served" /\ Len(t.todo) > 1)
  <2>1. tasks' = tasks \ {t}
    BY <1>2 DEF User!Deliver, User!GoesOn
  <2> QED BY <1>0, <1>2, <2>1 DEF User!Deliver, User!GoesOn, User!server, User!session, Errand
<1> QED BY <1>1, <1>2

\* And what is shown then.
LEMMA Shows ==
  ASSUME Account, NEW t \in tasks, User!Deliver(t)
  PROVE  /\ dash' \in Board
         /\ form' \in [remind : BOOLEAN, touched : BOOLEAN]
         /\ Head(t.todo) # "overview" =>
              /\ UNCHANGED form
              /\ dash'.user = dash.user /\ dash'.info = dash.info
              /\ dash'.subscribe = dash.subscribe /\ dash'.remind = dash.remind
              /\ dash'.loading = (dash.loading \/
                    (t.at = "served" /\ Len(t.todo) > 1 /\ auth # NoUser))
         /\ Head(t.todo) = "overview" => ~dash'.loading
         /\ Head(t.todo) = "overview" /\ t.at = "failed" =>
              /\ UNCHANGED form
              /\ dash'.user = dash.user /\ dash'.info = dash.info
              /\ dash'.subscribe = dash.subscribe /\ dash'.remind = dash.remind
         /\ Head(t.todo) = "overview" /\ t.at # "failed" =>
              /\ User!Taken(dash')
              /\ dash'.user = t.user /\ dash'.info = t.info
              /\ dash'.subscribe = t.subscribe /\ dash'.remind = t.remind
<1>0. t \in Errand /\ dash \in Board
  BY DEF Account
<1>1. CASE Head(t.todo) # "overview"
  <2>1. CASE t.at = "served" /\ Len(t.todo) > 1
    <3>1. dash' = User!Begun(dash, "overview") /\ UNCHANGED form
      BY <1>1, <2>1 DEF User!Deliver, User!GoesOn
    <3> QED BY <1>0, <1>1, <2>1, <3>1, Begins DEF Account
  <2>2. CASE ~(t.at = "served" /\ Len(t.todo) > 1)
    <3>1. dash' = dash /\ UNCHANGED form
      BY <1>1, <2>2 DEF User!Deliver, User!GoesOn
    <3> QED BY <1>0, <1>1, <2>2, <3>1 DEF Account, Board
  <2> QED BY <2>1, <2>2
<1>2. CASE Head(t.todo) = "overview" /\ t.at = "failed"
  <2>1. dash' = [dash EXCEPT !.loading = FALSE] /\ UNCHANGED form
    BY <1>2 DEF User!Deliver, User!Overview
  <2> QED BY <1>0, <1>2, <2>1 DEF Account, Board
<1>3. CASE Head(t.todo) = "overview" /\ t.at # "failed"
  <2>1. /\ dash' = [loading |-> FALSE, user |-> t.user, info |-> t.info,
                    subscribe |-> t.subscribe, remind |-> t.remind]
        /\ User!Taken(dash')
    BY <1>3 DEF User!Deliver, User!Overview
  <2>2. dash' \in Board
    BY <1>0, <2>1 DEF Errand, Board
  <2>3. form' \in [remind : BOOLEAN, touched : BOOLEAN]
    BY <2>1, <2>2 DEF User!Taken, Account, Board
  <2> QED BY <1>3, <2>1, <2>2, <2>3
<1> QED BY <1>1, <1>2, <1>3

\* At first nobody is signed in.
LEMMA AccountBegins ==
  ASSUME User!Init
  PROVE  Account
BY IsFresh DEF User!Init, Account, Ages

\* The types are kept: by each action of UserPages.
LEMMA AccountStep ==
  ASSUME Account, User!Next
  PROVE  Account'
<1>a. ASSUME NEW u \in Users, NEW button \in User!Entries, User!Submit(u, button)
      PROVE  Account'
  <2> DEFINE n == [step |-> "login", user |-> u, button |-> button, here |-> TRUE, id |-> clicks + 1]
  <2>1. n \in Entry /\ logins' = logins \cup {n} /\ clicks' \in Nat /\ patient' \in BOOLEAN
    BY <1>a DEF Account, Entry, User!Submit, User!Click, User!Quiet
  <2> HIDE DEF n
  <2>2. /\ busy' = busy \cup {button}
        /\ UNCHANGED <<auth, page, dash, list, form, tasks, rev, remind, held, late>>
    BY <1>a DEF User!Submit, User!server, User!session
  <2> QED BY <2>1, <2>2 DEF Account
<1>b. ASSUME NEW l \in logins, User!LoginGranted(l)
      PROVE  Account'
  <2>1. /\ User!Granted(l) /\ User!Mount("landing", dash)
        /\ UNCHANGED <<dash, tasks, clicks, patient, held, late, rev, remind>>
    BY <1>b DEF User!LoginGranted, User!server, User!session
  <2>2. /\ page' \in User!Inside \cup {"landing"}
        /\ list' \in {"none", "loading", "shown", "empty"} /\ busy' = {}
        /\ form' \in [remind : BOOLEAN, touched : BOOLEAN]
    BY <2>1, Mounts DEF Account
  <2>3. auth' \in Users /\ logins' \subseteq Entry
    BY <2>1, Grants
  <2> QED BY <2>1, <2>2, <2>3 DEF Account
<1>k. ASSUME NEW l \in logins, User!LoginSwaps(l)
      PROVE  Account'
  <2>1. User!Granted(l) /\ UNCHANGED <<clicks, patient, late, rev, remind>>
    BY <1>k DEF User!LoginSwaps, User!server, User!session
  <2>2. auth' \in Users /\ logins' \subseteq Entry /\ l.user \in Users /\ l.id \in Nat
    BY <2>1, Grants
  <2>3. tasks' \subseteq Errand
    <3>1. User!Loading(l.user, l.id) \subseteq Errand
      BY <2>2, EffectLoads
    <3>2. User!Away(tasks) \subseteq Errand /\ tasks \subseteq Errand
      BY LeftAway DEF Account
    <3> QED BY <1>k, <3>1, <3>2, Swaps
  <2>4. page' \in User!Inside
    BY <1>k, Swaps DEF User!Inside
  <2> QED BY <1>k, <2>1, <2>2, <2>3, <2>4, Swaps DEF Account
<1>l. ASSUME NEW l \in logins, User!LoginFails(l)
      PROVE  Account'
  BY <1>l DEF User!LoginFails, User!server, User!session, Account
<1>p. ASSUME NEW l \in logins, User!CheckPasses(l)
      PROVE  Account'
  <2>1. tasks' \subseteq Errand
    <3>1. l.id \in Nat /\ auth \in Users \cup {NoUser} /\ tasks \subseteq Errand
      BY <1>p, Passes DEF Account
    <3>2. User!Loading(auth, l.id) \subseteq Errand
      BY <3>1, EffectLoads
    <3> QED BY <1>p, <3>1, <3>2, Passes
  <2>2. page' \in User!Inside \cup {"landing"} /\ dash' \in Board
    BY <1>p, Passes, IsFresh DEF User!Inside, Account
  <2> QED BY <1>p, <2>1, <2>2, Passes DEF Account
<1>c. ASSUME NEW calls \in SUBSET logins, User!GiveUp(calls), UNCHANGED <<clicks, patient, rev, remind>>
      PROVE  Account'
  <2>1. User!Pending \subseteq Errand
    BY Left DEF User!Pending, Account
  <2>2. tasks' \subseteq Errand /\ dash' \in Board
    BY <1>c, <2>1, GivesUp, IsFresh DEF Account
  <2>3. /\ page' \in User!Inside \cup {"landing"}
        /\ list' \in {"none", "loading", "shown", "empty"}
        /\ busy' \subseteq User!Posts \cup User!Entries
        /\ form' \in [remind : BOOLEAN, touched : BOOLEAN]
    BY <1>c, GivesUp, Mounts, IsFresh DEF Account
  <2>4. held' \subseteq Users /\ late' \in BOOLEAN /\ auth' = NoUser /\ logins' = calls
    <3>1. /\ auth' = NoUser /\ logins' = calls
          /\ late' = (late \/ \E c \in calls : c.step = "check")
      BY <1>c, GivesUp
    <3>2. late' \in BOOLEAN
      BY <3>1
    <3>3. held' \subseteq Users
      BY <1>c DEF User!GiveUp, Account
    <3> QED BY <3>1, <3>2, <3>3
  <2> QED BY <1>c, <2>2, <2>3, <2>4 DEF Account
<1>d. ASSUME NEW p \in User!Inside, User!Visit(p)
      PROVE  Account'
  <2>1. tasks' \subseteq Errand
    BY <1>d, LeftAway DEF User!Visit
  <2>2. User!Mount(p, dash)
    BY <1>d DEF User!Visit
  <2>3. /\ page' \in User!Inside \cup {"landing"}
        /\ list' \in {"none", "loading", "shown", "empty"} /\ busy' = {}
        /\ form' \in [remind : BOOLEAN, touched : BOOLEAN]
    BY <2>2, Mounts DEF Account
  <2> QED BY <1>d, <2>1, <2>3 DEF Account, User!Visit, User!server, User!session, User!Click, User!Quiet
<1>e. CASE User!Refresh
  <2>1. User!Task(<<"overview">>, auth, "none") \in Errand
    BY Started DEF Orders, Account
  <2>2. dash' \in Board
    BY <1>e, Begins DEF Account, User!Refresh
  <2> QED BY <1>e, <2>1, <2>2 DEF Account, User!Refresh, User!server, User!session, User!Click, User!Quiet
<1>f. ASSUME NEW p, NEW button \in User!Posts, NEW todo \in Orders, User!Press(p, button, todo)
      PROVE  Account'
  <2>1. User!Task(todo, auth, button) \in Errand
    BY Started DEF Account
  <2> QED BY <1>f, <2>1 DEF Account, User!Press, User!server, User!session, User!Click, User!Quiet
<1>g. CASE User!Toggle
  BY <1>g DEF Account, User!Toggle, User!Quiet, User!server, User!session
<1>h. CASE User!ListIn
  BY <1>h DEF Account, User!ListIn, User!server, User!session
<1>i. ASSUME NEW t \in tasks, User!Deliver(t)
      PROVE  Account'
  <2>1. /\ UNCHANGED <<auth, logins, held, late, page, list, clicks, rev, remind>>
        /\ tasks' \subseteq Errand /\ busy' \subseteq busy /\ patient' \in BOOLEAN
    BY <1>i, GoesOn DEF Account
  <2>2. dash' \in Board /\ form' \in [remind : BOOLEAN, touched : BOOLEAN]
    BY <1>i, Shows
  <2> QED BY <2>1, <2>2 DEF Account
<1>j. ASSUME NEW t \in tasks,
             \/ \E part_ \in {"info", "subscribe"} : User!ServePart(t, part_)
             \/ \E at \in {"served", "failed"} : User!ServePost(t, at)
             \/ User!Refuse(t)
      PROVE  Account'
  <2>1. /\ UNCHANGED <<auth, logins, held, late, page, dash, list, form, busy, clicks, patient>>
        /\ \E s \in Errand : User!Answer(t, s)
    BY <1>j, Replies
  <2>2. tasks' \subseteq Errand
    BY <2>1 DEF User!Answer, Account
  <2>3. rev' \in [Users -> Nat] /\ remind' \in [Users -> BOOLEAN]
    <3>1. CASE \E at \in {"served", "failed"} : User!ServePost(t, at)
      <4>1. t \in Errand
        BY DEF Account
      <4> QED BY <3>1, <4>1 DEF User!ServePost, Account, Errand
    <3>2. CASE ~\E at \in {"served", "failed"} : User!ServePost(t, at)
      BY <1>j, <3>2 DEF User!ServePart, User!Refuse, User!server, User!session, Account
    <3> QED BY <3>1, <3>2
  <2> QED BY <2>1, <2>2, <2>3 DEF Account
<1>m. CASE User!handleReset
  BY <1>m, <1>f DEF User!handleReset, User!Posts, Orders
<1>n. CASE User!savePreferences
  BY <1>n, <1>f DEF User!savePreferences, User!Posts, Orders
<1>o. CASE User!savePassword
  BY <1>o, <1>f DEF User!savePassword, User!Posts, Orders
<1>q. CASE User!Logout
  <2>1. logins \in SUBSET logins
    OBVIOUS
  <2> QED BY <1>q, <1>c, <2>1 DEF User!Logout, User!server
<1>r. ASSUME NEW l \in logins, User!CheckFails(l)
      PROVE  Account'
  <2>1. logins \ {l} \in SUBSET logins
    OBVIOUS
  <2> QED BY <1>r, <1>c, <2>1 DEF User!CheckFails, User!server
<1> QED BY <1>a, <1>b, <1>k, <1>l, <1>p, <1>d, <1>e, <1>g, <1>h, <1>i, <1>j, <1>m, <1>n, <1>o, <1>q, <1>r
        DEF User!Next

\* A new function, as it is begun.
LEMMA New ==
  ASSUME NEW todo, NEW u, NEW button
  PROVE  LET t == User!Task(todo, u, button)
         IN  /\ t.todo = todo /\ t.user = u /\ t.at = "asked" /\ t.button = button /\ t.here
             /\ t.info = Unloaded /\ t.subscribe = Unloaded
             /\ t.remind = form.remind /\ t.touched = form.touched /\ t.id = clicks + 1
BY DEF User!Task

\* Whose answer is ignored.
LEMMA IsIgnored ==
  ASSUME NEW s \in Errand
  PROVE  User!Ignored(s) <=> ~s.here /\ s.todo \in {<<p>> : p \in User!Posts}
<1>1. s.todo \in {<<"overview">>} \cup {<<p>> : p \in User!Posts} <=> Len(s.todo) <= 1
  <2>1. ASSUME NEW o \in Orders
        PROVE  o \in {<<"overview">>} \cup {<<p>> : p \in User!Posts} <=> Len(o) <= 1
    BY <2>1 DEF Orders, User!Posts
  <2> QED BY <2>1 DEF Errand
<1>2. Len(s.todo) = 1 <=> Len(s.todo) <= 1
  <2>1. ASSUME NEW o \in Orders
        PROVE  Len(o) = 1 \/ Len(o) = 2
    <3>1. o \in {<<"overview">>, <<"reset">>, <<"update">>, <<"password">>} => Len(o) = 1
      OBVIOUS
    <3>2. o \in {<<"reset", "overview">>, <<"update", "overview">>} => Len(o) = 2
      OBVIOUS
    <3> QED BY <2>1, <3>1, <3>2 DEF Orders
  <2>2. Len(s.todo) = 1 \/ Len(s.todo) = 2
    BY <2>1 DEF Errand
  <2>3. CASE Len(s.todo) = 1
    BY <2>3
  <2>4. CASE Len(s.todo) = 2
    BY <2>4
  <2> QED BY <2>2, <2>3, <2>4
<1>3. Head(s.todo) \in User!Posts <=> s.todo # <<"overview">>
  BY Steps DEF User!Posts
<1>4. <<"overview">> \notin {<<p>> : p \in User!Posts}
  BY DEF User!Posts
<1> QED BY <1>1, <1>2, <1>3, <1>4 DEF User!Ignored

\* What is left of a dashboard belongs to nobody who is there.
LEMMA Orphans ==
  ASSUME Account, NEW t \in User!Pending
  PROVE  Orphan(t)
<1>1. PICK x \in tasks : /\ x.at = "asked" /\ Head(x.todo) \in User!Posts
                         /\ t = [x EXCEPT !.here = FALSE, !.todo = <<Head(x.todo)>>]
  BY DEF User!Pending
<1>2. x \in Errand
  BY DEF Account
<1>3. t.at = "asked" /\ ~t.here /\ t.todo = <<Head(x.todo)>>
  BY <1>1, <1>2 DEF Errand
<1> QED BY <1>1, <1>3 DEF Orphan

\* What was begun for one account is never heard in the dashboard of another.
LEMMA OwnStep ==
  ASSUME Account, Own, User!Next
  PROVE  Own'
<1>n. "landing" \notin User!Inside
  BY DEF User!Inside
<1>a. ASSUME NEW u \in Users, NEW button \in User!Entries, User!Submit(u, button)
      PROVE  Own'
  BY <1>a DEF User!Submit, Own, Orphan
<1>b. ASSUME NEW l \in logins, User!LoginGranted(l)
      PROVE  Own'
  <2>1. page = "landing" /\ page' = "landing" /\ UNCHANGED <<dash, tasks, held>>
    BY <1>b DEF User!LoginGranted, User!Mount
  <2> QED BY <1>n, <2>1 DEF Own, Orphan
<1>k. ASSUME NEW l \in logins, User!LoginSwaps(l)
      PROVE  Own'
  <2>1. /\ page' = "overview" /\ page \in User!Inside /\ held' = held \cup {l.user}
        /\ page' \in User!Inside /\ page' # "landing"
    BY <1>k, Swaps DEF User!Inside
  <2>2. auth' = l.user /\ l.user \in Users /\ l.id \in Nat
    BY <1>k, Grants DEF User!LoginSwaps
  <2>3. dash'.user = dash.user
    BY <1>k DEF User!LoginSwaps, Account, Board
  <2>4. \A s \in User!Loading(l.user, l.id) : s.user = l.user
    BY <2>2, EffectLoads
  <2>5. ASSUME NEW s \in User!Away(tasks)
        PROVE  Orphan(s) \/ s.user \in held \cup {NoUser}
    <3>1. PICK t \in tasks : s = [t EXCEPT !.here = FALSE]
      BY <2>5, LeftAway
    <3>2. t \in Errand
      BY DEF Account
    <3>3. s.at = t.at /\ s.todo = t.todo /\ s.user = t.user /\ ~s.here
      BY <3>1, <3>2 DEF Errand
    <3> QED BY <3>3 DEF Own, Orphan
  <2>6. tasks' \subseteq tasks \cup User!Away(tasks) \cup User!Loading(l.user, l.id)
    BY <1>k, Swaps
  <2>7. ASSUME NEW s \in tasks'
        PROVE  Orphan(s) \/ s.user \in held' \cup {NoUser}
    BY <2>1, <2>4, <2>5, <2>6, <2>7 DEF Own
  <2> QED BY <2>1, <2>2, <2>3, <2>7 DEF Own, Orphan
<1>l. ASSUME NEW l \in logins, User!LoginFails(l)
      PROVE  Own'
  BY <1>l DEF User!LoginFails, Own, Orphan
<1>p. ASSUME NEW l \in logins, User!CheckPasses(l)
      PROVE  Own'
  <2>1. UNCHANGED auth /\ auth \in Users \cup {NoUser} /\ l.id \in Nat
    BY <1>p, Passes DEF Account
  <2>2. CASE UNCHANGED <<page, dash, held, tasks>>
    BY <2>1, <2>2 DEF Own, Orphan
  <2>3. CASE /\ page = "landing" /\ page' = "overview" /\ dash' = User!Fresh
             /\ held' = {auth} \ {NoUser} /\ tasks' = tasks \cup User!Loading(auth, l.id)
    <3>1. \A t \in tasks : Orphan(t)
      BY <1>n, <2>3 DEF Own
    <3>2. \A t \in User!Loading(auth, l.id) : t.user = auth
      BY <2>1, EffectLoads
    <3>3. dash'.user = NoUser /\ page' \in User!Inside /\ page' # "landing"
      BY <2>3 DEF User!Fresh, User!Inside
    <3> QED BY <2>1, <2>3, <3>1, <3>2, <3>3 DEF Own, Orphan
  <2> QED BY <1>p, <2>2, <2>3, Passes
<1>c. ASSUME NEW calls \in SUBSET logins, User!GiveUp(calls)
      PROVE  Own'
  <2>1. CASE page = "landing" /\ UNCHANGED <<page, dash, tasks, held>>
    BY <1>n, <2>1 DEF Own, Orphan
  <2>2. CASE page' = "landing" /\ held' = {} /\ dash' = User!Fresh /\ tasks' = User!Pending
    <3>1. dash'.user = NoUser
      BY <2>2 DEF User!Fresh
    <3>2. \A t \in tasks' : Orphan(t)
      BY <2>2, Orphans
    <3> QED BY <1>n, <2>2, <3>1, <3>2 DEF Own, Orphan
  <2> QED BY <1>c, <2>1, <2>2, GivesUp
<1>d. ASSUME NEW p \in User!Inside, User!Visit(p)
      PROVE  Own'
  <2>1. /\ page \in User!Inside /\ page' = p /\ UNCHANGED <<auth, dash, held>>
        /\ tasks' = User!Away(tasks)
    BY <1>d DEF User!Visit, User!Mount, User!session
  <2>2. ASSUME NEW s \in tasks'
        PROVE  Orphan(s) \/ (page' \in User!Inside /\ s.user \in held' \cup {NoUser})
    <3>1. PICK t \in tasks : s = [t EXCEPT !.here = FALSE]
      BY <2>1, <2>2, LeftAway
    <3>2. t \in Errand
      BY DEF Account
    <3>3. s.at = t.at /\ s.todo = t.todo /\ s.user = t.user /\ ~s.here
      BY <3>1, <3>2 DEF Errand
    <3> QED BY <2>1, <3>3 DEF Own, Orphan
  <2> QED BY <1>n, <2>1, <2>2 DEF Own, Orphan
<1>e. CASE User!Refresh
  <2>1. /\ page \in User!Inside /\ UNCHANGED <<auth, page, held>> /\ dash'.user = dash.user
        /\ tasks' = tasks \cup {User!Task(<<"overview">>, auth, "none")}
    BY <1>e, Begins DEF User!Refresh, User!session, Account
  <2> QED BY <1>n, <2>1, New DEF Own, Orphan
<1>f. ASSUME NEW p \in User!Inside, NEW button, NEW todo, User!Press(p, button, todo)
      PROVE  Own'
  <2>1. /\ page \in User!Inside /\ UNCHANGED <<auth, page, held, dash>>
        /\ tasks' = tasks \cup {User!Task(todo, auth, button)}
    BY <1>f DEF User!Press, User!session
  <2> QED BY <1>n, <2>1, New DEF Own, Orphan
<1>g. CASE User!Toggle \/ User!ListIn
  BY <1>g DEF Own, Orphan, User!Toggle, User!ListIn, User!session
<1>i. ASSUME NEW t \in tasks, User!Deliver(t)
      PROVE  Own'
  <2>1. page \in User!Inside /\ t.user \in held \cup {NoUser} /\ auth \in held \cup {NoUser}
    BY <1>i, GoesOn DEF Own, Orphan
  <2>2. dash'.user \in held \cup {NoUser} /\ UNCHANGED <<auth, page, held>>
    BY <1>i, <2>1, GoesOn, Shows DEF Own
  <2>3. \A s \in tasks' : s \in tasks \/ s.user = auth
    BY <1>i, <2>1, GoesOn
  <2> QED BY <1>n, <2>1, <2>2, <2>3 DEF Own, Orphan
<1>j. ASSUME NEW t \in tasks,
             \/ \E part_ \in {"info", "subscribe"} : User!ServePart(t, part_)
             \/ \E at \in {"served", "failed"} : User!ServePost(t, at)
             \/ User!Refuse(t)
      PROVE  Own'
  <2>1. UNCHANGED <<auth, page, dash, held>>
    BY <1>j, Replies
  <2>2. PICK s \in Errand : /\ s.user = t.user /\ s.todo = t.todo /\ s.here = t.here
                            /\ User!Answer(t, s)
    BY <1>j, Replies
  <2>3. ASSUME NEW x \in tasks', x \notin tasks
        PROVE  x = s /\ ~Orphan(t)
    <3>1. x = s /\ ~User!Ignored(s)
      BY <2>2, <2>3 DEF User!Answer
    <3>2. ~Orphan(t)
      BY <2>2, <3>1, IsIgnored DEF Orphan
    <3> QED BY <3>1, <3>2
  <2>4. \A x \in tasks' : x \in tasks \/ (page \in User!Inside /\ x.user \in held \cup {NoUser})
    BY <2>2, <2>3 DEF Own
  <2> QED BY <2>1, <2>4 DEF Own, Orphan
<1>m. CASE User!handleReset \/ User!savePreferences \/ User!savePassword
  BY <1>m, <1>f DEF User!handleReset, User!savePreferences, User!savePassword, User!Inside
<1>q. CASE User!Logout
  <2>1. logins \in SUBSET logins
    OBVIOUS
  <2> QED BY <1>q, <1>c, <2>1 DEF User!Logout
<1>r. ASSUME NEW l \in logins, User!CheckFails(l)
      PROVE  Own'
  <2>1. logins \ {l} \in SUBSET logins
    OBVIOUS
  <2> QED BY <1>r, <1>c, <2>1 DEF User!CheckFails
<1> QED BY <1>a, <1>b, <1>k, <1>l, <1>p, <1>d, <1>e, <1>g, <1>i, <1>j, <1>m, <1>q, <1>r DEF User!Next

\* A token is checked as long as it is there, or else a check is late; and whoever waits
\* for a login waits at the landing page.
LEMMA EnteredStep ==
  ASSUME Account, Entered, User!Next
  PROVE  Entered'
<1>n. NoUser \notin Users /\ "landing" \notin User!Inside
  BY BrowserAssumption DEF User!UserPagesAssumption, User!Inside
<1>a. ASSUME NEW u \in Users, NEW button \in User!Entries, User!Submit(u, button)
      PROVE  Entered'
  BY <1>a DEF User!Submit, Entered
<1>b. ASSUME NEW l \in logins, User!LoginGranted(l) \/ User!LoginSwaps(l)
      PROVE  Entered'
  <2>1. User!Granted(l)
    BY <1>b DEF User!LoginGranted, User!LoginSwaps
  <2>2. auth' # NoUser /\ \A c \in logins' : ~c.here
    BY <1>n, <2>1, Grants
  <2> QED BY <2>2 DEF Entered
<1>l. ASSUME NEW l \in logins, User!LoginFails(l)
      PROVE  Entered'
  BY <1>l DEF User!LoginFails, Entered
<1>p. ASSUME NEW l \in logins, User!CheckPasses(l)
      PROVE  Entered'
  <2>1. /\ l.step = "check" /\ UNCHANGED <<auth, late>>
        /\ \A c \in logins' : ~c.here /\ \E x \in logins : c.step = x.step
    BY <1>p, Passes
  <2>2. auth = NoUser => late
    BY <2>1 DEF Entered
  <2> QED BY <2>1, <2>2 DEF Entered
<1>c. ASSUME NEW calls \in SUBSET logins, User!GiveUp(calls)
      PROVE  Entered'
  <2>1. /\ logins' = calls /\ page' = "landing"
        /\ late' = (late \/ \E c \in calls : c.step = "check")
    BY <1>c, GivesUp
  <2>2. \A c \in calls : c.here => c.step = "login"
    BY DEF Entered
  <2> QED BY <1>n, <2>1, <2>2 DEF Entered
<1>q. CASE User!Logout
  <2>1. logins \in SUBSET logins
    OBVIOUS
  <2> QED BY <1>q, <1>c, <2>1 DEF User!Logout
<1>r. ASSUME NEW l \in logins, User!CheckFails(l)
      PROVE  Entered'
  <2>1. logins \ {l} \in SUBSET logins
    OBVIOUS
  <2> QED BY <1>r, <1>c, <2>1 DEF User!CheckFails
<1>e. ASSUME UNCHANGED <<auth, logins, late>>,
             page' = page \/ (page \in User!Inside /\ page' \in User!Inside)
      PROVE  Entered'
  BY <1>n, <1>e DEF Entered
<1> QED BY <1>a, <1>b, <1>l, <1>p, <1>q, <1>r, <1>e, Else DEF User!Next

\* What waits keeps its function: no function ends without clearing what it has set.
LEMMA WaitsStep ==
  ASSUME Account, Own, Entered, User!WaitsForSomething, User!Next
  PROVE  User!WaitsForSomething'
<1> DEFINE Turns == page \in User!Inside /\ dash.loading =>
                      (\E t \in tasks : Head(t.todo) = "overview") \/ (auth = NoUser /\ late)
           Held(b) == \/ \E t \in tasks : t.here /\ t.button = b
                      \/ \E l \in logins : l.here /\ l.button = b
           Waits == \A b \in busy : Held(b)
<1>n. "landing" \notin User!Inside /\ NoUser \notin Users
  BY BrowserAssumption DEF User!Inside, User!UserPagesAssumption
<1>w. Turns /\ Waits
  BY DEF User!WaitsForSomething
<1>q. Turns' /\ Waits' => User!WaitsForSomething'
  BY DEF User!WaitsForSomething
<1>a. ASSUME NEW u \in Users, NEW button \in User!Entries, User!Submit(u, button)
      PROVE  Turns' /\ Waits'
  <2> DEFINE n == [step |-> "login", user |-> u, button |-> button, here |-> TRUE, id |-> clicks + 1]
  <2>1. /\ page = "landing" /\ UNCHANGED <<page, tasks>>
        /\ busy' = busy \cup {button} /\ logins' = logins \cup {n}
    BY <1>a DEF User!Submit
  <2>2. n.here /\ n.button = button
    OBVIOUS
  <2> HIDE DEF n
  <2> QED BY <1>n, <1>w, <2>1, <2>2
<1>b. ASSUME NEW l \in logins, User!LoginGranted(l)
      PROVE  Turns' /\ Waits'
  BY <1>n, <1>b DEF User!LoginGranted, User!Mount
<1>k. ASSUME NEW l \in logins, User!LoginSwaps(l)
      PROVE  Turns' /\ Waits'
  <2>1. User!Granted(l) /\ page \in User!Inside
    BY <1>k DEF User!LoginSwaps
  <2>2. l.user \in Users /\ l.id \in Nat
    BY <2>1, Grants
  <2>3. \E t \in User!Loading(l.user, l.id) : Head(t.todo) = "overview"
    BY <1>n, <2>2, EffectLoads
  <2>4. User!Loading(l.user, l.id) \subseteq tasks'
    BY <1>k, Swaps
  <2>5. Turns'
    BY <2>3, <2>4
  <2>6. \A b \in busy : \E t \in tasks : t.here /\ t.button = b
    BY <1>n, <1>w, <2>1 DEF Entered
  <2>7. busy' = {} \/ (UNCHANGED busy /\ tasks \subseteq tasks')
    BY <1>k, Swaps
  <2>8. Waits'
    BY <2>6, <2>7
  <2> QED BY <2>5, <2>8
<1>l. ASSUME NEW l \in logins, User!LoginFails(l)
      PROVE  Turns' /\ Waits'
  <2>1. /\ UNCHANGED <<auth, page, dash, tasks, late>> /\ logins' = logins \ {l}
        /\ busy' = IF l.here THEN busy \ {l.button} ELSE busy
    BY <1>l DEF User!LoginFails
  <2> QED BY <1>w, <2>1
<1>p. ASSUME NEW l \in logins, User!CheckPasses(l)
      PROVE  Turns' /\ Waits'
  <2>1. /\ l.step = "check" /\ UNCHANGED <<auth, late>> /\ auth \in Users \cup {NoUser}
        /\ l.id \in Nat
    BY <1>p, Passes DEF Account
  <2>2. CASE page \in User!Inside /\ UNCHANGED <<page, busy, dash, tasks>>
    BY <1>n, <1>w, <2>1, <2>2 DEF Entered
  <2>3. CASE busy' = {} /\ tasks' = tasks \cup User!Loading(auth, l.id)
    <3>1. auth # NoUser => \E t \in User!Loading(auth, l.id) : Head(t.todo) = "overview"
      BY <2>1, EffectLoads
    <3>2. auth = NoUser => late
      BY <2>1 DEF Entered
    <3> QED BY <2>1, <2>3, <3>1, <3>2
  <2> QED BY <1>p, <2>2, <2>3, Passes
<1>c. ASSUME NEW calls \in SUBSET logins, User!GiveUp(calls),
             \A l \in logins : l.step = "login" => l \in calls
      PROVE  Turns' /\ Waits'
  <2>0. page' = "landing" /\ logins' = calls
    BY <1>c, GivesUp
  <2>2. CASE busy' = {}
    BY <1>n, <2>0, <2>2
  <2>3. CASE UNCHANGED <<busy, tasks>>
    <3>1. \A l \in logins : l.here => l \in calls
      BY <1>c DEF Entered
    <3> QED BY <1>n, <1>w, <2>0, <2>3, <3>1
  <2> QED BY <1>c, <2>2, <2>3, GivesUp
<1>d. ASSUME NEW p \in User!Inside, User!Visit(p)
      PROVE  Turns' /\ Waits'
  <2>1. /\ busy' = {} /\ page \in User!Inside /\ UNCHANGED <<auth, dash, late>>
        /\ tasks' = {[t EXCEPT !.here = FALSE] : t \in tasks}
    BY <1>d DEF User!Visit, User!Mount, User!session, User!Away
  <2>2. \A t \in tasks : [t EXCEPT !.here = FALSE].todo = t.todo
    BY DEF Account, Errand
  <2> QED BY <1>w, <2>1, <2>2
<1>e. ASSUME User!Refresh
      PROVE  Turns' /\ Waits'
  <2>1. tasks' = tasks \cup {User!Task(<<"overview">>, auth, "none")} /\ UNCHANGED <<busy, logins>>
    BY <1>e DEF User!Refresh, User!session
  <2>2. Head(User!Task(<<"overview">>, auth, "none").todo) = "overview"
    BY New
  <2> QED BY <1>w, <2>1, <2>2
<1>f. ASSUME NEW p, NEW button, NEW todo, User!Press(p, button, todo)
      PROVE  Turns' /\ Waits'
  <2>1. /\ UNCHANGED <<auth, page, dash, logins, late>> /\ busy' = busy \cup {button}
        /\ tasks' = tasks \cup {User!Task(todo, auth, button)}
    BY <1>f DEF User!Press, User!session
  <2> QED BY <1>w, <2>1, New
<1>g. ASSUME User!Toggle \/ User!ListIn
      PROVE  Turns' /\ Waits'
  BY <1>g, <1>w DEF User!Toggle, User!ListIn, User!session
<1>i. ASSUME NEW t \in tasks, User!Deliver(t)
      PROVE  Turns' /\ Waits'
  <2>0. UNCHANGED <<auth, page, logins, late>>
    BY <1>i, GoesOn
  <2>1. CASE t.at = "served" /\ Len(t.todo) > 1
    <3>1. UNCHANGED busy
      BY <1>i, <2>1, GoesOn
    <3>2. PICK n \in Errand : /\ n.todo = <<"overview">> /\ n.here = t.here /\ n.button = t.button
                              /\ tasks' = (tasks \ {t}) \cup {n}
      BY <1>i, <2>1, GoesOn
    <3> QED BY <1>w, <2>0, <3>1, <3>2
  <2>2. CASE ~(t.at = "served" /\ Len(t.todo) > 1)
    <3>1. tasks' = tasks \ {t} /\ busy' = IF t.here THEN busy \ {t.button} ELSE busy
      BY <1>i, <2>2, GoesOn
    <3>2. Turns'
      BY <1>i, <1>w, <2>0, <2>2, <3>1, Shows
    <3> QED BY <1>w, <2>0, <3>1, <3>2
  <2> QED BY <2>1, <2>2
<1>j. ASSUME NEW t \in tasks,
             \/ \E part_ \in {"info", "subscribe"} : User!ServePart(t, part_)
             \/ \E at \in {"served", "failed"} : User!ServePost(t, at)
             \/ User!Refuse(t)
      PROVE  Turns' /\ Waits'
  <2>1. UNCHANGED <<auth, page, dash, busy, logins, late>>
    BY <1>j, Replies
  <2>2. PICK s \in Errand : /\ s.todo = t.todo /\ s.here = t.here /\ s.button = t.button
                            /\ User!Answer(t, s)
    BY <1>j, Replies
  <2>3. CASE ~User!Ignored(s)
    <3>1. tasks' = (tasks \ {t}) \cup {s}
      BY <2>2, <2>3 DEF User!Answer
    <3> QED BY <1>w, <2>1, <2>2, <3>1
  <2>4. CASE User!Ignored(s)
    <3>1. tasks' = tasks \ {t}
      BY <2>2, <2>4 DEF User!Answer
    <3>2. ~t.here /\ Head(t.todo) # "overview"
      BY <2>2, <2>4 DEF User!Ignored, User!Posts
    <3> QED BY <1>w, <2>1, <3>1, <3>2
  <2> QED BY <2>3, <2>4
<1>m. ASSUME User!handleReset \/ User!savePreferences \/ User!savePassword
      PROVE  Turns' /\ Waits'
  BY <1>m, <1>f DEF User!handleReset, User!savePreferences, User!savePassword
<1>s. ASSUME User!Logout
      PROVE  Turns' /\ Waits'
  <2>1. logins \in SUBSET logins
    OBVIOUS
  <2> QED BY <1>s, <1>c, <2>1 DEF User!Logout
<1>r. ASSUME NEW l \in logins, User!CheckFails(l)
      PROVE  Turns' /\ Waits'
  <2>1. logins \ {l} \in SUBSET logins
    OBVIOUS
  <2> QED BY <1>r, <1>c, <2>1 DEF User!CheckFails
<1> QED BY <1>q, <1>a, <1>b, <1>k, <1>l, <1>p, <1>s, <1>r, <1>d, <1>e, <1>g, <1>i, <1>j, <1>m
        DEF User!Next

\* The form of the settings is set by every overview that is shown with it.
LEMMA FollowsStep ==
  ASSUME Account, Follows, User!Next
  PROVE  Follows'
<1>1. CASE \E u \in Users, button \in User!Entries : User!Submit(u, button)
  BY <1>1 DEF User!Submit, Follows
<1>2. ASSUME NEW l \in logins,
             \/ User!LoginGranted(l) \/ User!LoginSwaps(l) \/ User!LoginFails(l)
             \/ User!CheckPasses(l)
      PROVE  Follows'
  <2>1. CASE User!LoginGranted(l)
    BY <2>1 DEF User!LoginGranted, User!Mount, Follows
  <2>2. CASE User!LoginSwaps(l)
    BY <2>2, Swaps DEF Follows
  <2>3. CASE User!LoginFails(l)
    BY <2>3 DEF User!LoginFails, Follows
  <2>4. CASE User!CheckPasses(l)
    BY <2>4, Passes DEF Follows
  <2> QED BY <1>2, <2>1, <2>2, <2>3, <2>4
<1>c. ASSUME NEW calls \in SUBSET logins, User!GiveUp(calls)
      PROVE  Follows'
  BY <1>c, GivesUp DEF Follows
<1>q. CASE User!Logout
  <2>1. logins \in SUBSET logins
    OBVIOUS
  <2> QED BY <1>q, <1>c, <2>1 DEF User!Logout, User!server
<1>r. ASSUME NEW l \in logins, User!CheckFails(l)
      PROVE  Follows'
  <2>1. logins \ {l} \in SUBSET logins
    OBVIOUS
  <2> QED BY <1>r, <1>c, <2>1 DEF User!CheckFails, User!server
<1>3. ASSUME NEW p \in User!Inside, User!Visit(p)
      PROVE  Follows'
  BY <1>3 DEF User!Visit, User!Mount, Follows, Account, Board
<1>4. CASE User!Refresh
  BY <1>4, Begins DEF User!Refresh, Follows, Account
<1>5. CASE User!handleReset \/ User!savePreferences \/ User!savePassword
  BY <1>5 DEF User!handleReset, User!savePreferences, User!savePassword, User!Press, Follows
<1>6. CASE User!Toggle \/ User!ListIn
  BY <1>6 DEF User!Toggle, User!ListIn, Follows
<1>7. ASSUME NEW t \in tasks, User!Deliver(t)
      PROVE  Follows'
  <2>1. UNCHANGED page
    BY <1>7, GoesOn
  <2>2. CASE Head(t.todo) = "overview" /\ t.at # "failed"
    BY <1>7, <2>1, <2>2, Shows DEF User!Taken, Follows
  <2>3. CASE ~(Head(t.todo) = "overview" /\ t.at # "failed")
    BY <1>7, <2>1, <2>3, Shows DEF Follows
  <2> QED BY <2>2, <2>3
<1>8. ASSUME NEW t \in tasks,
             \/ \E part_ \in {"info", "subscribe"} : User!ServePart(t, part_)
             \/ \E at \in {"served", "failed"} : User!ServePost(t, at)
             \/ User!Refuse(t)
      PROVE  Follows'
  BY <1>8, Replies DEF Follows
<1> QED BY <1>1, <1>2, <1>q, <1>r, <1>3, <1>4, <1>5, <1>6, <1>7, <1>8 DEF User!Next

\* A patient user saves the reminder that the server has.
LEMMA SurprisesNobody ==
  ASSUME Account, patient => Current, ~surprised, User!Next
  PROVE  ~surprised'
<1>1. ASSUME NEW t \in tasks, NEW at, User!ServePost(t, at)
      PROVE  ~surprised'
  <2>1. /\ surprised' = (surprised \/ (patient /\ ~t.touched /\ remind' # remind))
        /\ t.at = "asked" /\ t.user \in Users
        /\ remind' = [remind EXCEPT ![t.user] = IF Head(t.todo) = "update" THEN t.remind ELSE @]
    BY <1>1 DEF User!ServePost
  <2>2. ASSUME patient, ~t.touched
        PROVE  remind' = remind
    <3>1. Head(t.todo) = "update" => t.remind = remind[t.user]
      BY <2>1, <2>2 DEF Current, Informed
    <3>2. remind' = [remind EXCEPT ![t.user] = remind[t.user]]
      BY <2>1, <3>1
    <3> QED BY <3>2 DEF Account
  <2> QED BY <2>1, <2>2
<1>2. ASSUME NEW t \in tasks, User!Deliver(t)
      PROVE  ~surprised'
  BY <1>2, GoesOn
<1>3. ASSUME UNCHANGED surprised
      PROVE  ~surprised'
  BY <1>3
<1> QED BY <1>1, <1>2, <1>3 DEF User!Next, User!Submit, User!LoginGranted, User!LoginSwaps,
        User!LoginFails, User!CheckPasses, User!CheckFails, User!Logout, User!Visit,
        User!Refresh, User!Press, User!handleReset, User!savePreferences, User!savePassword,
        User!Toggle, User!ListIn, User!ServePart, User!Refuse, User!server

\* What a patient user begins.
LEMMA CurrentBegun ==
  ASSUME Account, patient => Current, Follows, User!Click, patient',
         page \in User!Inside, UNCHANGED <<auth, logins, held, page, rev, remind>>,
         dash'.info = dash.info, dash'.subscribe = dash.subscribe, dash'.remind = dash.remind,
         NEW todo \in Orders, NEW button,
         todo \notin {<<"reset">>, <<"update">>},
         Head(todo) = "update" => page = "settings",
         tasks' = tasks \cup {User!Task(todo, auth, button)}
  PROVE  Current'
<1>0. PICK t : t = User!Task(todo, auth, button)
  OBVIOUS
<1>1. patient /\ tasks = {} /\ logins = {}
  BY DEF User!Click, User!Quiet, Account, Current
<1>2. tasks' = {t}
  BY <1>0, <1>1
<1>3. /\ t.todo = todo /\ t.user = auth /\ t.info = Unloaded /\ t.subscribe = Unloaded
      /\ t.at = "asked" /\ t.remind = form.remind /\ t.touched = form.touched
  BY <1>0, New
<1>4. auth # NoUser =>
        dash.info = rev[auth] /\ dash.subscribe = rev[auth] /\ dash.remind = remind[auth]
  BY <1>1 DEF Current
<1>5. t.user \in Users => Informed(t)'
  <2>1. ASSUME Head(todo) = "update", ~form.touched, auth \in Users
        PROVE  form.remind = remind[auth]
    BY <1>4, <2>1, BrowserAssumption DEF Follows, User!UserPagesAssumption
  <2> QED BY <1>3, <2>1 DEF Informed
<1> QED BY <1>1, <1>2, <1>3, <1>4, <1>5 DEF Current

\* A patient user's function knows the present revision; no other one can change it.
LEMMA CurrentStep ==
  ASSUME Account, Own, patient => Current, Follows, User!Next, patient'
  PROVE  Current'
<1>n. NoUser \notin Users /\ "landing" \notin User!Inside
  BY BrowserAssumption DEF User!UserPagesAssumption, User!Inside
<1>a. ASSUME NEW u \in Users, NEW button \in User!Entries, User!Submit(u, button)
      PROVE  Current'
  <2>1. /\ patient /\ tasks' = {} /\ page' = "landing"
    BY <1>a DEF User!Submit, User!Click, User!Quiet, Account
  <2> QED BY <1>n, <2>1 DEF Current
<1>b. ASSUME NEW l \in logins, User!LoginGranted(l)
      PROVE  Current'
  <2>1. patient /\ page' = "landing" /\ UNCHANGED <<tasks, held, rev, remind>>
    BY <1>b DEF User!LoginGranted, User!Mount, User!server
  <2>2. \A t \in tasks : Informed(t)' = Informed(t)
    BY <2>1 DEF Informed
  <2> QED BY <1>n, <2>1, <2>2 DEF Current
<1>v. ASSUME NEW l \in logins, User!LoginSwaps(l)
      PROVE  Current'
  <2>1. patient /\ page \in User!Inside
    BY <1>v DEF User!LoginSwaps
  <2> QED BY <2>1 DEF Current
<1>w. ASSUME NEW l \in logins, User!LoginFails(l)
      PROVE  Current'
  BY <1>w DEF User!LoginFails
<1>x. ASSUME NEW l \in logins, User!CheckPasses(l)
      PROVE  Current'
  <2>1. /\ l.id \in Nat /\ auth \in Users \cup {NoUser} /\ UNCHANGED <<auth, rev, remind>>
        /\ logins' = User!Away(logins \ {l})
    BY <1>x, Passes DEF Account
  <2>2. CASE page \in User!Inside /\ UNCHANGED patient
    BY <2>2 DEF Current
  <2>3. CASE /\ tasks' = tasks \cup User!Loading(auth, l.id)
             /\ patient' = (tasks = {} /\ logins = {l})
    <3>1. logins' = {} /\ tasks' = User!Loading(auth, l.id)
      BY <2>1, <2>3 DEF User!Away
    <3>2. /\ \A n \in User!Loading(auth, l.id) :
               /\ n.todo = <<"overview">> /\ n.user = auth /\ n.at = "asked"
               /\ n.info = Unloaded /\ n.subscribe = Unloaded
          /\ \A n, m \in User!Loading(auth, l.id) : n = m
          /\ auth # NoUser => \E n \in User!Loading(auth, l.id) : Head(n.todo) = "overview"
      BY <2>1, EffectLoads
    <3>3. \A n \in User!Loading(auth, l.id) : Informed(n)'
      BY <3>2 DEF Informed
    <3> QED BY <2>1, <2>3, <3>1, <3>2, <3>3 DEF Current
  <2> QED BY <1>x, <2>2, <2>3, Passes
<1>c. ASSUME NEW calls \in SUBSET logins, User!GiveUp(calls), UNCHANGED <<patient, rev, remind>>
      PROVE  Current'
  <2>1. /\ page' = "landing" /\ patient /\ Current
        /\ UNCHANGED tasks \/ tasks' = User!Pending
    BY <1>c, GivesUp
  <2>2. \A t, s \in User!Pending : t = s
    BY <2>1 DEF Current, User!Pending
  <2>3. ASSUME NEW t \in User!Pending, t.user \in Users
        PROVE  Informed(t)'
    <3>1. PICK x \in tasks : /\ x.at = "asked" /\ Head(x.todo) \in User!Posts
                             /\ t = [x EXCEPT !.here = FALSE, !.todo = <<Head(x.todo)>>]
      BY DEF User!Pending
    <3>2. x \in Errand
      BY DEF Account
    <3>3. /\ t.user = x.user /\ t.remind = x.remind /\ t.touched = x.touched
          /\ t.todo = <<Head(x.todo)>>
      BY <3>1, <3>2 DEF Errand
    <3>4. Head(t.todo) = Head(x.todo) /\ Head(x.todo) # "overview"
      BY <3>1, <3>3 DEF User!Posts
    <3> QED BY <1>c, <2>1, <2>3, <3>1, <3>3, <3>4 DEF Current, Informed
  <2>4. \A t \in tasks : Informed(t)' = Informed(t)
    BY <1>c DEF Informed
  <2> QED BY <1>n, <2>1, <2>2, <2>3, <2>4 DEF Current
<1>y. CASE User!Logout
  <2>1. logins \in SUBSET logins
    OBVIOUS
  <2> QED BY <1>y, <1>c, <2>1 DEF User!Logout, User!server
<1>z. ASSUME NEW l \in logins, User!CheckFails(l)
      PROVE  Current'
  <2>1. logins \ {l} \in SUBSET logins
    OBVIOUS
  <2> QED BY <1>z, <1>c, <2>1 DEF User!CheckFails, User!server
<1>d. ASSUME NEW p \in User!Inside, User!Visit(p)
      PROVE  Current'
  <2>1. /\ patient /\ tasks = {} /\ tasks' = {} /\ page \in User!Inside
        /\ UNCHANGED <<auth, logins, held, dash, rev, remind>>
    BY <1>d DEF User!Visit, User!Click, User!Quiet, User!Away, User!server, User!session, Account
  <2> QED BY <2>1 DEF Current
<1>e. CASE User!Refresh
  <2>1. /\ User!Click /\ page \in User!Inside /\ UNCHANGED <<auth, logins, held, page, rev, remind>>
        /\ dash' = User!Begun(dash, "overview")
        /\ tasks' = tasks \cup {User!Task(<<"overview">>, auth, "none")}
    BY <1>e DEF User!Refresh, User!server, User!session
  <2>2. dash'.info = dash.info /\ dash'.subscribe = dash.subscribe /\ dash'.remind = dash.remind
    BY <2>1, Begins DEF Account
  <2>3. <<"overview">> \in Orders /\ <<"overview">> \notin {<<"reset">>, <<"update">>}
    BY DEF Orders
  <2> QED BY <2>1, <2>2, <2>3, CurrentBegun
<1>f. ASSUME NEW p \in User!Inside, NEW button, NEW todo \in Orders, User!Press(p, button, todo),
             todo \notin {<<"reset">>, <<"update">>}, Head(todo) = "update" => p = "settings"
      PROVE  Current'
  <2>1. /\ User!Click /\ UNCHANGED <<auth, logins, held, page, dash, rev, remind>> /\ page = p
        /\ tasks' = tasks \cup {User!Task(todo, auth, button)}
    BY <1>f DEF User!Press, User!server, User!session
  <2> QED BY <1>f, <2>1, CurrentBegun
<1>g. CASE User!Toggle
  <2>1. patient /\ UNCHANGED <<auth, logins, held, page, dash, tasks, rev, remind>>
    BY <1>g DEF User!Toggle, User!server, User!session, Account
  <2> QED BY <2>1 DEF Current, Informed
<1>h. CASE User!ListIn
  <2>1. patient /\ UNCHANGED <<auth, logins, held, page, dash, tasks, rev, remind>>
    BY <1>h DEF User!ListIn, User!server, User!session, Account
  <2> QED BY <2>1 DEF Current, Informed
<1>i. ASSUME NEW t \in tasks, User!Deliver(t)
      PROVE  Current'
  <2>0. t \in Errand
    BY DEF Account
  <2>1. patient /\ t.at = "served" /\ UNCHANGED <<auth, logins, held, page, rev, remind>>
    BY <1>i, GoesOn DEF Account
  <2>2. tasks = {t} /\ Current
    BY <2>1 DEF Current
  <2>3. t.user = auth /\ page \in User!Inside
    BY <2>1, <2>2 DEF Own, Orphan, Current
  <2>4. CASE Len(t.todo) > 1
    <3>1. PICK n \in Errand : /\ n.todo = <<"overview">> /\ n.at = "asked" /\ n.user = auth
                              /\ n.info = Unloaded /\ n.subscribe = Unloaded
                              /\ tasks' = (tasks \ {t}) \cup {n}
      BY <1>i, <2>0, <2>1, <2>4, GoesOn
    <3>2. tasks' = {n}
      BY <2>2, <3>1
    <3>3. Informed(n)'
      BY <3>1 DEF Informed
    <3> QED BY <2>1, <2>2, <3>1, <3>2, <3>3 DEF Current
  <2>5. CASE ~(Len(t.todo) > 1)
    <3>1. tasks' = {}
      BY <1>i, <2>2, <2>5, GoesOn
    <3>2. t.todo \in {<<"overview">>, <<"password">>}
      BY <2>0, <2>2, <2>3, <2>5, Steps DEF Current, User!Posts
    <3>3. CASE t.todo = <<"overview">>
      <4>1. /\ Head(t.todo) = "overview"
            /\ dash'.info = t.info /\ dash'.subscribe = t.subscribe /\ dash'.remind = t.remind
        BY <1>i, <2>1, <3>3, Shows
      <4>2. auth # NoUser => t.user \in Users
        BY <2>0, <2>3 DEF Errand
      <4>3. auth # NoUser =>
              t.info = rev[auth] /\ t.subscribe = rev[auth] /\ t.remind = remind[auth]
        BY <2>1, <2>2, <2>3, <4>1, <4>2 DEF Current, Informed
      <4> QED BY <2>1, <2>2, <3>1, <4>1, <4>3 DEF Current
    <3>4. CASE t.todo = <<"password">>
      <4>1. dash'.info = dash.info /\ dash'.subscribe = dash.subscribe /\ dash'.remind = dash.remind
        BY <1>i, <3>4, Shows
      <4> QED BY <2>1, <2>2, <3>1, <3>4, <4>1 DEF Current
    <3> QED BY <3>2, <3>3, <3>4
  <2> QED BY <2>4, <2>5
<1>j. ASSUME NEW t \in tasks, NEW s \in Errand, User!Answer(t, s), s.todo = t.todo, s.user = t.user,
             patient, UNCHANGED <<auth, logins, held, page, dash>>,
             \/ UNCHANGED <<rev, remind>>
             \/ t.todo # <<"password">> /\ Head(t.todo) # "overview",
             s.user \in Users => Informed(s)'
      PROVE  Current'
  <2>1. tasks = {t} /\ Current
    BY <1>j DEF Current
  <2>2. CASE ~User!Ignored(s)
    <3>1. tasks' = {s}
      BY <1>j, <2>1, <2>2 DEF User!Answer
    <3> QED BY <1>j, <2>1, <3>1 DEF Current
  <2>3. CASE User!Ignored(s)
    <3>1. tasks' = {}
      BY <1>j, <2>1, <2>3 DEF User!Answer
    <3>2. page \in User!Inside => t.todo = <<"password">>
      BY <1>j, <2>1, <2>3, IsIgnored DEF User!Posts, Current
    <3> QED BY <1>j, <2>1, <3>1, <3>2 DEF Current
  <2> QED BY <2>2, <2>3
<1>k. ASSUME NEW t \in tasks, User!ServePart(t, "info")
      PROVE  Current'
  <2> DEFINE s == [t EXCEPT !.info = rev[t.user], !.remind = remind[t.user]]
             x == [s EXCEPT !.at = IF s.info # Unloaded /\ s.subscribe # Unloaded
                                   THEN "served" ELSE "asked"]
  <2>0. t \in Errand
    BY DEF Account
  <2>1. /\ User!Answer(t, x) /\ t.at = "asked" /\ Head(t.todo) = "overview" /\ t.user \in Users
        /\ patient /\ UNCHANGED <<auth, logins, held, page, dash, rev, remind>>
    BY <1>k DEF User!ServePart, User!server, User!session
  <2>2. rev[t.user] \in Ages /\ remind[t.user] \in BOOLEAN
    BY <2>1 DEF Account, Ages
  <2>3. /\ s \in Errand /\ s.todo = t.todo /\ s.user = t.user
        /\ s.info = rev[t.user] /\ s.remind = remind[t.user] /\ s.subscribe = t.subscribe
    BY <2>0, <2>2 DEF Errand
  <2> HIDE DEF s
  <2>4. PICK r \in Errand :
                 /\ User!Answer(t, r)
                 /\ r.todo = t.todo /\ r.user = t.user /\ r.info = rev[t.user]
                 /\ r.remind = remind[t.user] /\ r.subscribe = t.subscribe
                 /\ r.at = "served" => r.subscribe # Unloaded /\ r.info # Unloaded
    BY <2>1, <2>3 DEF Errand
  <2> HIDE DEF x
  <2>5. Informed(t)
    BY <2>1 DEF Current
  <2>6. Informed(r)'
    <3>1. Head(r.todo) = "overview" /\ UNCHANGED <<rev, remind>>
      BY <2>1, <2>4
    <3> QED BY <2>1, <2>4, <2>5, <3>1 DEF Informed
  <2> QED BY <1>j, <2>1, <2>4, <2>6
<1>l. ASSUME NEW t \in tasks, User!ServePart(t, "subscribe")
      PROVE  Current'
  <2> DEFINE s == [t EXCEPT !.subscribe = rev[t.user], !.remind = @]
             x == [s EXCEPT !.at = IF s.info # Unloaded /\ s.subscribe # Unloaded
                                   THEN "served" ELSE "asked"]
  <2>0. t \in Errand
    BY DEF Account
  <2>1. /\ User!Answer(t, x) /\ t.at = "asked" /\ Head(t.todo) = "overview" /\ t.user \in Users
        /\ patient /\ UNCHANGED <<auth, logins, held, page, dash, rev, remind>>
    BY <1>l DEF User!ServePart, User!server, User!session
  <2>2. rev[t.user] \in Ages
    BY <2>1 DEF Account, Ages
  <2>3. /\ s \in Errand /\ s.todo = t.todo /\ s.user = t.user
        /\ s.info = t.info /\ s.remind = t.remind /\ s.subscribe = rev[t.user]
    BY <2>0, <2>2 DEF Errand
  <2> HIDE DEF s
  <2>4. PICK r \in Errand :
                 /\ User!Answer(t, r)
                 /\ r.todo = t.todo /\ r.user = t.user /\ r.info = t.info
                 /\ r.remind = t.remind /\ r.subscribe = rev[t.user]
                 /\ r.at = "served" => r.subscribe # Unloaded /\ r.info # Unloaded
    BY <2>1, <2>3 DEF Errand
  <2> HIDE DEF x
  <2>5. Informed(t)
    BY <2>1 DEF Current
  <2>6. Informed(r)'
    <3>1. Head(r.todo) = "overview" /\ UNCHANGED <<rev, remind>>
      BY <2>1, <2>4
    <3> QED BY <2>1, <2>4, <2>5, <3>1 DEF Informed
  <2> QED BY <1>j, <2>1, <2>4, <2>6
<1>m. ASSUME NEW t \in tasks, NEW at \in {"served", "failed"}, User!ServePost(t, at)
      PROVE  Current'
  <2>0. t \in Errand
    BY DEF Account
  <2>r. PICK r : r = [t EXCEPT !.at = at]
    OBVIOUS
  <2>1. /\ User!Answer(t, r) /\ t.at = "asked" /\ Head(t.todo) \in User!Posts /\ t.user \in Users
        /\ patient /\ UNCHANGED <<auth, logins, held, page, dash>>
        /\ Head(t.todo) = "password" =>
             /\ rev' = [rev EXCEPT ![t.user] = @]
             /\ remind' = [remind EXCEPT ![t.user] = @]
    BY <1>m, <2>r DEF User!ServePost, User!session
  <2>2. r \in Errand /\ r.todo = t.todo /\ r.user = t.user /\ r.at # "asked"
    BY <2>0, <2>r, <1>m DEF Errand
  <2>3. Head(t.todo) = "password" => UNCHANGED <<rev, remind>>
    BY <2>1 DEF Account
  <2>4. Head(t.todo) # "overview"
    BY <2>1 DEF User!Posts
  <2>5. Informed(r)'
    BY <2>2, <2>4 DEF Informed
  <2>6. t.todo = <<"password">> => Head(t.todo) = "password"
    OBVIOUS
  <2> QED BY <1>j, <2>1, <2>2, <2>3, <2>4, <2>5, <2>6
<1>p. ASSUME NEW t \in tasks, User!Refuse(t)
      PROVE  Current'
  <2>0. t \in Errand
    BY DEF Account
  <2>r. PICK r : r = [t EXCEPT !.at = "failed"]
    OBVIOUS
  <2>1. /\ User!Answer(t, r) /\ t.at = "asked"
        /\ patient /\ UNCHANGED <<auth, logins, held, page, dash, rev, remind>>
    BY <1>p, <2>r DEF User!Refuse, User!server, User!session
  <2>2. /\ r \in Errand /\ r.todo = t.todo /\ r.user = t.user /\ r.at = "failed" /\ r.info = t.info
        /\ r.subscribe = t.subscribe /\ r.remind = t.remind
    BY <2>0, <2>r DEF Errand
  <2>3. t.user \in Users => Informed(t)
    BY <2>1 DEF Current
  <2>4. r.user \in Users => Informed(r)'
    BY <2>1, <2>2, <2>3 DEF Informed
  <2> QED BY <1>j, <2>1, <2>2, <2>4
<1>q. CASE User!handleReset
  <2>1. /\ <<"reset", "overview">> \in Orders /\ Head(<<"reset", "overview">>) # "update"
        /\ <<"reset", "overview">> \notin {<<"reset">>, <<"update">>}
    BY DEF Orders
  <2> QED BY <1>q, <1>f, <2>1 DEF User!handleReset, User!Inside
<1>r. CASE User!savePreferences
  <2>1. /\ <<"update", "overview">> \in Orders
        /\ <<"update", "overview">> \notin {<<"reset">>, <<"update">>}
    BY DEF Orders
  <2> QED BY <1>r, <1>f, <2>1 DEF User!savePreferences, User!Inside
<1>s. CASE User!savePassword
  <2>1. /\ <<"password">> \in Orders /\ Head(<<"password">>) # "update"
        /\ <<"password">> \notin {<<"reset">>, <<"update">>}
    BY DEF Orders
  <2> QED BY <1>s, <1>f, <2>1 DEF User!savePassword, User!Inside
<1> QED BY <1>a, <1>b, <1>v, <1>w, <1>x, <1>y, <1>z, <1>d, <1>e, <1>g, <1>h, <1>i, <1>k, <1>l,
           <1>m, <1>p, <1>q, <1>r, <1>s
        DEF User!Next

\* There are finitely many changes under way.
LEMMA WaitingIs ==
  ASSUME Account, Numbered, NEW u
  PROVE  /\ Waiting(u) \subseteq 1 .. clicks
         /\ IsFiniteSet(Waiting(u)) /\ Cardinality(Waiting(u)) \in Nat
<1>1. Waiting(u) \subseteq 1 .. clicks
  BY DEF Waiting, Numbered
<1>2. IsFiniteSet(1 .. clicks)
  BY FS_Interval DEF Account
<1> QED BY <1>1, <1>2, FS_Subset, FS_CardinalityType

\* Functions that go on, or end.
LEMMA Descend ==
  ASSUME Account, Numbered,
         NEW S \in SUBSET tasks, NEW f \in [S -> Errand],
         \A t \in S :
           /\ f[t].id = t.id
           /\ Head(f[t].todo) \in User!Posts =>
                Head(t.todo) \in User!Posts /\ f[t].user = t.user /\ (f[t].at = "asked" => t.at = "asked"),
         NEW L, \A n \in L : n.id \in 1 .. clicks /\ Head(n.todo) \notin User!Posts,
         tasks' = {f[t] : t \in S} \cup L
  PROVE  /\ \A t \in tasks' : t.id \in 1 .. clicks
         /\ \A t, s \in tasks' :
              t.id = s.id /\ Head(t.todo) \in User!Posts /\ Head(s.todo) \in User!Posts => t = s
         /\ \A u \in Users : Waiting(u)' \subseteq Waiting(u)
<1>1. \A t \in tasks' : t.id \in 1 .. clicks
  BY DEF Numbered
<1>2. ASSUME NEW t \in tasks', NEW s \in tasks', t.id = s.id,
             Head(t.todo) \in User!Posts, Head(s.todo) \in User!Posts
      PROVE  t = s
  <2>1. PICK x \in S : t = f[x]
    BY <1>2
  <2>2. PICK y \in S : s = f[y]
    BY <1>2
  <2>3. x.id = y.id /\ Head(x.todo) \in User!Posts /\ Head(y.todo) \in User!Posts
    BY <1>2, <2>1, <2>2
  <2> QED BY <2>1, <2>2, <2>3 DEF Numbered
<1>3. ASSUME NEW u \in Users, NEW i \in Waiting(u)'
      PROVE  i \in Waiting(u)
  <2>1. PICK x \in tasks' : x.id = i /\ x.at = "asked" /\ Head(x.todo) \in User!Posts /\ x.user = u
    BY <1>3 DEF Waiting
  <2>2. PICK t \in S : x = f[t]
    BY <2>1
  <2>3. t \in tasks /\ t.id = i /\ t.at = "asked" /\ Head(t.todo) \in User!Posts /\ t.user = u
    BY <2>1, <2>2
  <2> QED BY <2>3 DEF Waiting
<1> QED BY <1>1, <1>2, <1>3

\* A function that begins.
LEMMA Joins ==
  ASSUME Account, Numbered, NEW t, t.id = clicks + 1, tasks' = tasks \cup {t}, clicks' = clicks + 1
  PROVE  /\ Numbered'
         /\ \A u \in Users : Waiting(u)' \subseteq Waiting(u) \cup {clicks + 1}
<1>1. clicks \in Nat /\ clicks' \in Nat
  BY DEF Account
<1>2. ASSUME NEW s \in tasks
      PROVE  s.id \in 1 .. clicks /\ s.id \in 1 .. clicks' /\ s.id # t.id
  BY <1>1, <1>2 DEF Numbered
<1>3. t.id \in 1 .. clicks'
  BY <1>1
<1>4. Numbered'
  <2>1. \A x \in tasks' : x.id \in 1 .. clicks'
    BY <1>2, <1>3
  <2>2. \A x, y \in tasks' :
          x.id = y.id /\ Head(x.todo) \in User!Posts /\ Head(y.todo) \in User!Posts => x = y
    BY <1>2 DEF Numbered
  <2> QED BY <2>1, <2>2 DEF Numbered
<1>5. ASSUME NEW u \in Users, NEW i \in Waiting(u)'
      PROVE  i \in Waiting(u) \cup {clicks + 1}
  <2>1. PICK x \in tasks' : x.id = i /\ x.at = "asked" /\ Head(x.todo) \in User!Posts /\ x.user = u
    BY <1>5 DEF Waiting
  <2>2. CASE x = t
    BY <2>1, <2>2
  <2>3. CASE x \in tasks
    BY <2>1, <2>3 DEF Waiting
  <2> QED BY <2>1, <2>2, <2>3
<1> QED BY <1>4, <1>5

\* Every change of an account takes a click.
LEMMA RoomStays ==
  ASSUME Account, Numbered, Room, clicks' \in {clicks, clicks + 1}, clicks' <= MaxClicks,
         UNCHANGED rev,
         \A u \in Users : \/ Waiting(u)' \subseteq Waiting(u)
                          \/ /\ clicks' = clicks + 1
                             /\ Waiting(u)' \subseteq Waiting(u) \cup {clicks + 1}
  PROVE  Room'
<1>0. clicks \in Nat
  BY DEF Account
<1>1. ASSUME NEW u \in Users
      PROVE  rev'[u] + Cardinality(Waiting(u)') <= clicks'
  <2>1. rev[u] \in Nat /\ rev'[u] = rev[u]
    BY DEF Account
  <2>2. IsFiniteSet(Waiting(u)) /\ Cardinality(Waiting(u)) \in Nat
    BY WaitingIs
  <2>3. rev[u] + Cardinality(Waiting(u)) <= clicks
    BY DEF Room
  <2>4. CASE Waiting(u)' \subseteq Waiting(u)
    <3>1. Cardinality(Waiting(u)') <= Cardinality(Waiting(u)) /\ Cardinality(Waiting(u)') \in Nat
      BY <2>2, <2>4, FS_Subset, FS_CardinalityType
    <3> QED BY <1>0, <2>1, <2>2, <2>3, <3>1
  <2>5. CASE /\ clicks' = clicks + 1
             /\ Waiting(u)' \subseteq Waiting(u) \cup {clicks + 1}
    <3> DEFINE W == Waiting(u) \cup {clicks + 1}
    <3>1. IsFiniteSet(W) /\ Cardinality(W) \in {Cardinality(Waiting(u)), Cardinality(Waiting(u)) + 1}
      BY <2>2, FS_AddElement
    <3>2. Cardinality(Waiting(u)') <= Cardinality(W) /\ Cardinality(Waiting(u)') \in Nat
      BY <2>5, <3>1, FS_Subset, FS_CardinalityType
    <3> HIDE DEF W
    <3> QED BY <1>0, <2>1, <2>2, <2>3, <2>5, <3>1, <3>2
  <2> QED BY <2>4, <2>5
<1> QED BY <1>1 DEF Room

\* So no revision exceeds the number of clicks,
LEMMA RevsSeen ==
  ASSUME Account, Numbered, Room, NEW u \in Users
  PROVE  rev[u] \in 0 .. MaxClicks /\ rev[u] \in User!Revs
<1>1. rev[u] \in Nat /\ clicks \in Nat /\ Cardinality(Waiting(u)) \in Nat
  BY WaitingIs DEF Account
<1>2. rev[u] + Cardinality(Waiting(u)) <= clicks /\ clicks <= MaxClicks
  BY DEF Room
<1>3. MaxClicks \in Nat
  BY BrowserAssumption DEF User!UserPagesAssumption
<1>4. rev[u] \in 0 .. MaxClicks
  BY <1>1, <1>2, <1>3
<1> QED BY <1>4 DEF User!Revs

\* which holds before the first click
LEMMA CountedBegins ==
  ASSUME User!Init
  PROVE  Counted
<1>1. MaxClicks \in Nat
  BY BrowserAssumption DEF User!UserPagesAssumption
<1>2. \A u : Waiting(u) = {}
  BY DEF User!Init, Waiting
<1>3. Room
  BY <1>1, <1>2, FS_EmptySet DEF User!Init, Room
<1> QED BY <1>3 DEF User!Init, Counted, Numbered, Issued, Seen, User!Fresh, User!Revs

\* One function takes the place of another, or of none.
LEMMA Replaced ==
  ASSUME Account, Numbered, NEW t \in tasks, NEW s \in Errand,
         s.id = t.id,
         Head(s.todo) \in User!Posts =>
           Head(t.todo) \in User!Posts /\ s.user = t.user /\ (s.at = "asked" => t.at = "asked"),
         tasks' \in {tasks \ {t}, (tasks \ {t}) \cup {s}}
  PROVE  /\ \A x \in tasks' : x.id \in 1 .. clicks
         /\ \A x, y \in tasks' :
              x.id = y.id /\ Head(x.todo) \in User!Posts /\ Head(y.todo) \in User!Posts => x = y
         /\ \A u \in Users : Waiting(u)' \subseteq Waiting(u)
<1>0. tasks \subseteq Errand
  BY DEF Account
<1>1. CASE tasks' = tasks \ {t}
  <2> DEFINE S == tasks \ {t}
             f == [x \in S |-> x]
             L == {}
  <2>1. S \in SUBSET tasks /\ f \in [S -> Errand] /\ tasks' = {f[x] : x \in S} \cup L
    BY <1>0, <1>1
  <2>2. (\A x \in S : f[x] = x) /\ \A n \in L : FALSE
    OBVIOUS
  <2> HIDE DEF S, f, L
  <2> QED BY <2>1, <2>2, Descend
<1>2. CASE tasks' = (tasks \ {t}) \cup {s}
  <2> DEFINE f == [x \in tasks |-> IF x = t THEN s ELSE x]
             L == {}
  <2>1. f \in [tasks -> Errand] /\ tasks' = {f[x] : x \in tasks} \cup L
    BY <1>0, <1>2
  <2>2. (\A x \in tasks : f[x] = IF x = t THEN s ELSE x) /\ \A n \in L : FALSE
    OBVIOUS
  <2> HIDE DEF f, L
  <2>3. \A x \in tasks :
           /\ f[x].id = x.id
           /\ Head(f[x].todo) \in User!Posts =>
                Head(x.todo) \in User!Posts /\ f[x].user = x.user /\ (f[x].at = "asked" => x.at = "asked")
    BY <2>2
  <2>4. tasks \in SUBSET tasks
    OBVIOUS
  <2> QED BY <2>1, <2>2, <2>3, <2>4, Descend
<1> QED BY <1>1, <1>2

\* A login keeps the click it was sent with.
LEMMA IssuedStep ==
  ASSUME Account, Issued, User!Next
  PROVE  Issued'
<1>n. clicks \in Nat
  BY DEF Account
<1>a. ASSUME NEW u \in Users, NEW button \in User!Entries, User!Submit(u, button)
      PROVE  Issued'
  <2> DEFINE n == [step |-> "login", user |-> u, button |-> button, here |-> TRUE, id |-> clicks + 1]
  <2>1. logins' = logins \cup {n} /\ clicks' = clicks + 1
    BY <1>a DEF User!Submit, User!Click
  <2>2. n.id = clicks + 1
    OBVIOUS
  <2> HIDE DEF n
  <2>3. 1 .. clicks \subseteq 1 .. clicks' /\ clicks + 1 \in 1 .. clicks'
    BY <1>n, <2>1
  <2> QED BY <2>1, <2>2, <2>3 DEF Issued
<1>b. ASSUME NEW l \in logins, User!LoginGranted(l) \/ User!LoginSwaps(l)
      PROVE  Issued'
  <2>1. User!Granted(l) /\ UNCHANGED clicks
    BY <1>b DEF User!LoginGranted, User!LoginSwaps
  <2> QED BY <2>1, Grants DEF Issued
<1>c. ASSUME NEW l \in logins, User!LoginFails(l) \/ User!CheckFails(l)
      PROVE  Issued'
  BY <1>c DEF User!LoginFails, User!CheckFails, User!GiveUp, Issued
<1>d. ASSUME NEW l \in logins, User!CheckPasses(l)
      PROVE  Issued'
  BY <1>d, Passes DEF Issued
<1>e. CASE User!Logout
  BY <1>e DEF User!Logout, User!GiveUp, Issued
<1>f. ASSUME UNCHANGED logins, clicks' \in {clicks, clicks + 1}
      PROVE  Issued'
  <2>1. 1 .. clicks \subseteq 1 .. clicks'
    BY <1>n, <1>f
  <2> QED BY <1>f, <2>1 DEF Issued
<1> QED BY <1>a, <1>b, <1>c, <1>d, <1>e, <1>f, Else DEF User!Next

\* and after every step: a change takes its click with it.
LEMMA CountedStep ==
  ASSUME Account, Counted, User!Next
  PROVE  Counted'
<1> USE DEF Counted
<1>n. Issued'
  BY IssuedStep
<1>m. MaxClicks \in Nat /\ clicks \in Nat /\ Unloaded \in User!Revs
  BY BrowserAssumption DEF User!UserPagesAssumption, Account, User!Revs
<1>b. ASSUME NEW t, t.id = clicks + 1, tasks' = tasks \cup {t}, clicks < MaxClicks,
             clicks' = clicks + 1, UNCHANGED rev,
             t.info = Unloaded, t.subscribe = Unloaded,
             dash'.info \in User!Revs, dash'.subscribe \in User!Revs
      PROVE  Counted'
  <2>1. Numbered' /\ \A u \in Users : Waiting(u)' \subseteq Waiting(u) \cup {clicks + 1}
    BY <1>b, Joins
  <2>2. clicks' <= MaxClicks
    BY <1>m, <1>b
  <2>3. Room'
    BY <1>b, <2>1, <2>2, RoomStays
  <2>4. Seen'
    BY <1>m, <1>b DEF Seen, User!Revs
  <2> QED BY <1>n, <2>1, <2>3, <2>4
<1>g. ASSUME clicks' = clicks, UNCHANGED rev,
             \A t \in tasks' : t.id \in 1 .. clicks,
             \A t, s \in tasks' :
               t.id = s.id /\ Head(t.todo) \in User!Posts /\ Head(s.todo) \in User!Posts => t = s,
             \A u \in Users : Waiting(u)' \subseteq Waiting(u),
             \A t \in tasks' : t.info \in User!Revs /\ t.subscribe \in User!Revs,
             dash'.info \in User!Revs, dash'.subscribe \in User!Revs
      PROVE  Counted'
  <2>1. clicks' <= MaxClicks
    BY <1>g DEF Room
  <2>2. Room'
    BY <1>g, <2>1, RoomStays
  <2> QED BY <1>g, <1>n, <2>2 DEF Numbered, Seen, User!Revs
<1>1. ASSUME NEW u \in Users, NEW button \in User!Entries, User!Submit(u, button)
      PROVE  Counted'
  <2>1. clicks < MaxClicks /\ clicks' = clicks + 1 /\ UNCHANGED <<tasks, rev, dash>>
    BY <1>1 DEF User!Submit, User!Click, User!server
  <2>2. clicks' <= MaxClicks /\ 1 .. clicks \subseteq 1 .. clicks'
    BY <1>m, <2>1
  <2>3. \A v \in Users : Waiting(v)' = Waiting(v)
    BY <2>1 DEF Waiting
  <2>4. Room'
    BY <2>1, <2>2, <2>3, RoomStays
  <2>5. Numbered' /\ Seen'
    BY <2>1, <2>2 DEF Numbered, Seen, User!Revs
  <2> QED BY <1>n, <2>4, <2>5
<1>2. ASSUME NEW l \in logins,
             \/ User!LoginGranted(l) \/ User!LoginFails(l)
             \/ User!CheckPasses(l) /\ UNCHANGED <<tasks, dash>>
      PROVE  Counted'
  <2>1. UNCHANGED <<tasks, clicks, rev, dash>>
    BY <1>2, Passes DEF User!LoginGranted, User!LoginFails, User!server
  <2> QED BY <1>g, <2>1 DEF Numbered, Seen, Waiting
<1>a. ASSUME NEW S \in SUBSET tasks, NEW f \in [S -> Errand], NEW L,
             tasks' = {f[x] : x \in S} \cup L, UNCHANGED <<clicks, rev>>,
             dash'.info \in User!Revs, dash'.subscribe \in User!Revs,
             \A x \in S :
               /\ f[x].id = x.id /\ f[x].user = x.user
               /\ f[x].info = x.info /\ f[x].subscribe = x.subscribe
               /\ Head(f[x].todo) = Head(x.todo) /\ f[x].at = x.at,
             \A n \in L : /\ n.id \in 1 .. clicks /\ n.todo = <<"overview">>
                          /\ n.info = Unloaded /\ n.subscribe = Unloaded
      PROVE  Counted'
  <2>1. \A n \in L : n.id \in 1 .. clicks /\ Head(n.todo) \notin User!Posts
    BY <1>a DEF User!Posts
  <2>2. /\ \A x \in tasks' : x.id \in 1 .. clicks
        /\ \A x, y \in tasks' :
             x.id = y.id /\ Head(x.todo) \in User!Posts /\ Head(y.todo) \in User!Posts => x = y
        /\ \A u \in Users : Waiting(u)' \subseteq Waiting(u)
    BY <1>a, <2>1, Descend
  <2>3. \A x \in tasks' : x.info \in User!Revs /\ x.subscribe \in User!Revs
    BY <1>a, <1>m DEF Seen
  <2> QED BY <1>a, <1>g, <2>2, <2>3
<1>c. ASSUME NEW L,
             \A n \in L : /\ n.id \in 1 .. clicks /\ n.todo = <<"overview">>
                          /\ n.info = Unloaded /\ n.subscribe = Unloaded,
             tasks' \in {tasks \cup L, User!Away(tasks) \cup L}, UNCHANGED <<clicks, rev>>,
             dash'.info \in User!Revs, dash'.subscribe \in User!Revs
      PROVE  Counted'
  <2>0. tasks \in SUBSET tasks /\ tasks \subseteq Errand
    BY DEF Account
  <2>1. CASE tasks' = tasks \cup L
    <3> DEFINE f == [x \in tasks |-> x]
    <3>1. f \in [tasks -> Errand] /\ tasks' = {f[x] : x \in tasks} \cup L
      BY <2>0, <2>1
    <3>2. \A x \in tasks : f[x] = x
      OBVIOUS
    <3> HIDE DEF f
    <3> QED BY <1>a, <1>c, <2>0, <3>1, <3>2
  <2>2. CASE tasks' = User!Away(tasks) \cup L
    <3> DEFINE f == [x \in tasks |-> [x EXCEPT !.here = FALSE]]
    <3>1. f \in [tasks -> Errand] /\ tasks' = {f[x] : x \in tasks} \cup L
      BY <2>0, <2>2, Left DEF User!Away
    <3>2. ASSUME NEW x \in tasks
          PROVE  /\ f[x].id = x.id /\ f[x].user = x.user
                 /\ f[x].info = x.info /\ f[x].subscribe = x.subscribe
                 /\ f[x].todo = x.todo /\ f[x].at = x.at
      BY <2>0 DEF Errand
    <3> HIDE DEF f
    <3> QED BY <1>a, <1>c, <2>0, <3>1, <3>2
  <2> QED BY <1>c, <2>1, <2>2
<1>d. ASSUME NEW l \in logins, User!LoginSwaps(l)
      PROVE  Counted'
  <2>1. User!Granted(l) /\ UNCHANGED <<clicks, rev>>
    BY <1>d DEF User!LoginSwaps, User!server
  <2>2. l.user \in Users /\ l.id \in Nat /\ l.id \in 1 .. clicks
    BY <2>1, Grants DEF Issued
  <2>3. /\ tasks' \in {tasks \cup User!Loading(l.user, l.id), User!Away(tasks) \cup User!Loading(l.user, l.id)}
        /\ dash'.info \in User!Revs /\ dash'.subscribe \in User!Revs
    BY <1>d, Swaps DEF Seen
  <2>4. \A n \in User!Loading(l.user, l.id) :
          /\ n.id \in 1 .. clicks /\ n.todo = <<"overview">>
          /\ n.info = Unloaded /\ n.subscribe = Unloaded
    BY <2>2, EffectLoads
  <2> QED BY <1>c, <2>1, <2>3, <2>4
<1>e. ASSUME NEW l \in logins, User!CheckPasses(l)
      PROVE  Counted'
  <2>1. /\ UNCHANGED <<clicks, rev>> /\ auth \in Users \cup {NoUser}
        /\ l.id \in Nat /\ l.id \in 1 .. clicks
    BY <1>e, Passes DEF Issued, Account
  <2>2. CASE UNCHANGED <<tasks, dash>>
    BY <1>e, <1>2, <2>2
  <2>3. CASE dash' = User!Fresh /\ tasks' = tasks \cup User!Loading(auth, l.id)
    <3>1. dash'.info \in User!Revs /\ dash'.subscribe \in User!Revs
      BY <1>m, <2>3 DEF User!Fresh
    <3>2. \A n \in User!Loading(auth, l.id) :
            /\ n.id \in 1 .. clicks /\ n.todo = <<"overview">>
            /\ n.info = Unloaded /\ n.subscribe = Unloaded
      BY <2>1, EffectLoads
    <3> QED BY <1>c, <2>1, <2>3, <3>1, <3>2
  <2> QED BY <1>e, <2>2, <2>3, Passes
<1>3. ASSUME NEW calls \in SUBSET logins, User!GiveUp(calls), UNCHANGED <<clicks, rev>>
      PROVE  Counted'
  <2>1. CASE UNCHANGED <<tasks, dash>>
    BY <1>3, <1>g, <2>1 DEF Numbered, Seen, Waiting
  <2>2. CASE dash' = User!Fresh /\ tasks' = User!Pending
    <3> DEFINE S == {x \in tasks : x.at = "asked" /\ Head(x.todo) \in User!Posts}
               f == [x \in S |-> [x EXCEPT !.here = FALSE, !.todo = <<Head(x.todo)>>]]
               L == {}
    <3>1. dash'.info \in User!Revs /\ dash'.subscribe \in User!Revs
      BY <1>m, <2>2 DEF User!Fresh
    <3>2. S \in SUBSET tasks /\ S \subseteq Errand
      BY DEF Account
    <3>3. f \in [S -> Errand]
      BY <3>2, Left
    <3>4. tasks' = {f[x] : x \in S} \cup L /\ \A n \in L : FALSE
      BY <2>2 DEF User!Pending
    <3>5. ASSUME NEW x \in S
          PROVE  /\ f[x].id = x.id /\ f[x].user = x.user
                 /\ f[x].info = x.info /\ f[x].subscribe = x.subscribe
                 /\ Head(f[x].todo) = Head(x.todo) /\ f[x].at = x.at
      <4>1. x \in Errand /\ f[x] = [x EXCEPT !.here = FALSE, !.todo = <<Head(x.todo)>>]
        BY <3>2
      <4> HIDE DEF f, S
      <4> QED BY <4>1 DEF Errand
    <3> HIDE DEF S, f, L
    <3> QED BY <1>3, <1>a, <3>1, <3>2, <3>3, <3>4, <3>5
  <2> QED BY <1>3, <2>1, <2>2, GivesUp
<1>4. ASSUME NEW p \in User!Inside, User!Visit(p)
      PROVE  Counted'
  <2> DEFINE f == [x \in tasks |-> [x EXCEPT !.here = FALSE]]
             L == {}
  <2>1. /\ clicks < MaxClicks /\ clicks' = clicks + 1 /\ UNCHANGED <<rev, dash>>
        /\ tasks' = {[t EXCEPT !.here = FALSE] : t \in tasks}
    BY <1>4 DEF User!Visit, User!Click, User!Away, User!server
  <2>2. tasks \in SUBSET Errand
    BY DEF Account
  <2>3. f \in [tasks -> Errand] /\ tasks' = {f[x] : x \in tasks} \cup L /\ \A n \in L : FALSE
    BY <2>1, <2>2, Left
  <2>4. ASSUME NEW x \in tasks
        PROVE  /\ f[x].id = x.id /\ f[x].user = x.user /\ f[x].at = x.at /\ f[x].todo = x.todo
               /\ f[x].info = x.info /\ f[x].subscribe = x.subscribe
    BY <2>2 DEF Errand
  <2> HIDE DEF f, L
  <2>5. /\ \A x \in tasks' : x.id \in 1 .. clicks
        /\ \A x, y \in tasks' :
             x.id = y.id /\ Head(x.todo) \in User!Posts /\ Head(y.todo) \in User!Posts => x = y
        /\ \A u \in Users : Waiting(u)' \subseteq Waiting(u)
    <3>1. tasks \in SUBSET tasks
      OBVIOUS
    <3>2. \A x \in tasks :
            /\ f[x].id = x.id
            /\ Head(f[x].todo) \in User!Posts =>
                 Head(x.todo) \in User!Posts /\ f[x].user = x.user /\ (f[x].at = "asked" => x.at = "asked")
      BY <2>4
    <3> QED BY <2>3, <3>1, <3>2, Descend
  <2>6. Numbered'
    BY <1>m, <2>1, <2>5 DEF Numbered
  <2>7. clicks' <= MaxClicks
    BY <1>m, <2>1
  <2>8. Room'
    BY <2>1, <2>5, <2>7, RoomStays
  <2>9. Seen'
    BY <2>1, <2>3, <2>4 DEF Seen, User!Revs
  <2> QED BY <1>n, <2>6, <2>8, <2>9
<1>5. CASE User!Refresh
  <2>1. /\ clicks < MaxClicks /\ clicks' = clicks + 1 /\ UNCHANGED rev
        /\ dash' = User!Begun(dash, "overview")
        /\ tasks' = tasks \cup {User!Task(<<"overview">>, auth, "none")}
    BY <1>5 DEF User!Refresh, User!Click, User!server
  <2>2. dash'.info \in User!Revs /\ dash'.subscribe \in User!Revs
    BY <2>1, Begins DEF Account, Seen
  <2> QED BY <1>b, <2>1, <2>2, New
<1>6. ASSUME NEW p, NEW button, NEW todo, User!Press(p, button, todo)
      PROVE  Counted'
  <2>1. /\ clicks < MaxClicks /\ clicks' = clicks + 1 /\ UNCHANGED <<rev, dash>>
        /\ tasks' = tasks \cup {User!Task(todo, auth, button)}
    BY <1>6 DEF User!Press, User!Click, User!server
  <2>2. dash'.info \in User!Revs /\ dash'.subscribe \in User!Revs
    BY <2>1 DEF Seen
  <2> QED BY <1>b, <2>1, <2>2, New
<1>7. CASE User!Toggle \/ User!ListIn
  <2>1. UNCHANGED <<tasks, clicks, rev, dash>>
    BY <1>7 DEF User!Toggle, User!ListIn, User!server
  <2> QED BY <1>g, <2>1 DEF Numbered, Seen, Waiting
<1>8. ASSUME NEW t \in tasks, User!Deliver(t)
      PROVE  Counted'
  <2>0. t \in Errand /\ UNCHANGED <<clicks, rev>>
    BY <1>8, GoesOn DEF Account
  <2>1. dash'.info \in User!Revs /\ dash'.subscribe \in User!Revs
    BY <1>8, Shows DEF Seen
  <2>2. CASE tasks' = tasks \ {t}
    BY <1>g, <2>0, <2>1, <2>2, Replaced DEF Seen
  <2>3. CASE tasks' # tasks \ {t}
    <3>1. PICK n \in Errand : /\ n.todo = <<"overview">> /\ n.id = t.id
                              /\ n.info = Unloaded /\ n.subscribe = Unloaded
                              /\ tasks' = (tasks \ {t}) \cup {n}
      BY <1>8, <2>3, GoesOn
    <3>2. Head(n.todo) \notin User!Posts
      BY <3>1 DEF User!Posts
    <3>3. /\ \A x \in tasks' : x.id \in 1 .. clicks
          /\ \A x, y \in tasks' :
             x.id = y.id /\ Head(x.todo) \in User!Posts /\ Head(y.todo) \in User!Posts => x = y
          /\ \A u \in Users : Waiting(u)' \subseteq Waiting(u)
      BY <3>1, <3>2, Replaced
    <3> QED BY <1>g, <1>m, <2>0, <2>1, <3>1, <3>3 DEF Seen
  <2> QED BY <2>2, <2>3
<1>9. ASSUME NEW t \in tasks, NEW s \in Errand, s.id = t.id, s.user = t.user, User!Answer(t, s),
             Head(s.todo) \in User!Posts => Head(t.todo) \in User!Posts /\ (s.at = "asked" => t.at = "asked"),
             s.info \in User!Revs, s.subscribe \in User!Revs, UNCHANGED <<clicks, rev, dash>>
      PROVE  Counted'
  <2>1. tasks' \in {tasks \ {t}, (tasks \ {t}) \cup {s}}
    BY <1>9 DEF User!Answer
  <2>2. /\ \A x \in tasks' : x.id \in 1 .. clicks
        /\ \A x, y \in tasks' :
             x.id = y.id /\ Head(x.todo) \in User!Posts /\ Head(y.todo) \in User!Posts => x = y
        /\ \A u \in Users : Waiting(u)' \subseteq Waiting(u)
    BY <1>9, <2>1, Replaced
  <2> QED BY <1>g, <1>9, <2>1, <2>2 DEF Seen
<1>10. ASSUME NEW t \in tasks, NEW part_ \in {"info", "subscribe"}, User!ServePart(t, part_)
       PROVE  Counted'
  <2>0. t \in Errand /\ t.user \in Users /\ Head(t.todo) \notin User!Posts
    BY <1>10 DEF Account, User!ServePart, User!Posts
  <2>1. rev[t.user] \in User!Revs /\ rev[t.user] \in Ages
    BY <2>0, RevsSeen DEF Account, Ages
  <2>2. PICK s \in Errand : /\ s.id = t.id /\ s.user = t.user /\ s.todo = t.todo
                            /\ User!Answer(t, s)
                            /\ s.info \in User!Revs /\ s.subscribe \in User!Revs
    <3>1. CASE part_ = "info"
      <4> DEFINE r == [t EXCEPT !.info = rev[t.user], !.remind = remind[t.user]]
                 s == [r EXCEPT !.at = IF r.info # Unloaded /\ r.subscribe # Unloaded
                                       THEN "served" ELSE "asked"]
      <4>1. User!Answer(t, s) /\ remind[t.user] \in BOOLEAN
        BY <1>10, <2>0, <3>1 DEF User!ServePart, Account
      <4>2. /\ r \in Errand /\ r.id = t.id /\ r.user = t.user /\ r.todo = t.todo
            /\ r.info = rev[t.user] /\ r.subscribe = t.subscribe
        BY <2>0, <2>1, <4>1 DEF Errand
      <4> HIDE DEF r
      <4>3. /\ s \in Errand /\ s.id = t.id /\ s.user = t.user /\ s.todo = t.todo
            /\ s.info = rev[t.user] /\ s.subscribe = t.subscribe
        BY <4>2 DEF Errand
      <4> HIDE DEF s
      <4> QED BY <2>1, <4>1, <4>3 DEF Seen
    <3>2. CASE part_ = "subscribe"
      <4> DEFINE r == [t EXCEPT !.subscribe = rev[t.user], !.remind = @]
                 s == [r EXCEPT !.at = IF r.info # Unloaded /\ r.subscribe # Unloaded
                                       THEN "served" ELSE "asked"]
      <4>1. User!Answer(t, s)
        BY <1>10, <3>2 DEF User!ServePart
      <4>2. /\ r \in Errand /\ r.id = t.id /\ r.user = t.user /\ r.todo = t.todo
            /\ r.info = t.info /\ r.subscribe = rev[t.user]
        BY <2>0, <2>1 DEF Errand
      <4> HIDE DEF r
      <4>3. /\ s \in Errand /\ s.id = t.id /\ s.user = t.user /\ s.todo = t.todo
            /\ s.info = t.info /\ s.subscribe = rev[t.user]
        BY <4>2 DEF Errand
      <4> HIDE DEF s
      <4> QED BY <2>1, <4>1, <4>3 DEF Seen
    <3> QED BY <3>1, <3>2
  <2>3. UNCHANGED <<clicks, rev, dash>>
    BY <1>10 DEF User!ServePart, User!server
  <2> QED BY <1>9, <2>0, <2>2, <2>3
<1>11. ASSUME NEW t \in tasks, User!Refuse(t)
       PROVE  Counted'
  <2>0. t \in Errand
    BY DEF Account
  <2>1. PICK s \in Errand : /\ s.id = t.id /\ s.user = t.user /\ s.at = "failed" /\ s.todo = t.todo
                            /\ s.info = t.info /\ s.subscribe = t.subscribe
                            /\ User!Answer(t, s)
    BY <1>11, <2>0 DEF User!Refuse, Errand
  <2>2. UNCHANGED <<clicks, rev, dash>>
    BY <1>11 DEF User!Refuse, User!server
  <2> QED BY <1>9, <2>1, <2>2 DEF Seen
<1>12. ASSUME NEW t \in tasks, NEW at \in {"served", "failed"}, User!ServePost(t, at)
       PROVE  Counted'
  <2>0. t \in Errand
    BY DEF Account
  <2>1. PICK s \in Errand : /\ s.id = t.id /\ s.user = t.user /\ s.at # "asked" /\ s.todo = t.todo
                            /\ s.info = t.info /\ s.subscribe = t.subscribe
                            /\ User!Answer(t, s)
    BY <1>12, <2>0 DEF User!ServePost, Errand
  <2>2. /\ UNCHANGED <<clicks, dash>> /\ t.user \in Users
        /\ t.at = "asked" /\ Head(t.todo) \in User!Posts
        /\ rev' = [rev EXCEPT ![t.user] = IF Head(t.todo) = "password" THEN @ ELSE @ + 1]
    BY <1>12 DEF User!ServePost
  <2>3. tasks' \in {tasks \ {t}, (tasks \ {t}) \cup {s}}
    BY <2>1 DEF User!Answer
  <2>4. /\ \A x \in tasks' : x.id \in 1 .. clicks
        /\ \A x, y \in tasks' :
             x.id = y.id /\ Head(x.todo) \in User!Posts /\ Head(y.todo) \in User!Posts => x = y
        /\ \A u \in Users : Waiting(u)' \subseteq Waiting(u)
    BY <2>1, <2>3, Replaced
  <2>5. Numbered'
    BY <2>2, <2>4 DEF Numbered
  <2>6. Seen'
    BY <2>1, <2>2, <2>3 DEF Seen, User!Revs
  <2>7. ASSUME NEW u \in Users
        PROVE  rev'[u] + Cardinality(Waiting(u)') <= clicks'
    <3>1. /\ IsFiniteSet(Waiting(u)) /\ Cardinality(Waiting(u)) \in Nat
          /\ rev[u] \in Nat /\ rev[u] + Cardinality(Waiting(u)) <= clicks
      BY WaitingIs DEF Account, Room
    <3>2. CASE u = t.user
      <4>1. t.id \in Waiting(u)
        BY <2>2, <3>2 DEF Waiting
      <4>2. t.id \notin Waiting(u)'
        <5>1. ASSUME NEW x \in tasks', x.at = "asked", x.id = t.id, Head(x.todo) \in User!Posts
              PROVE  FALSE
          BY <2>1, <2>2, <2>3, <5>1 DEF Numbered
        <5> QED BY <5>1 DEF Waiting
      <4> DEFINE W == Waiting(u) \ {t.id}
      <4>3. Waiting(u)' \subseteq W
        BY <2>4, <4>2
      <4>4. IsFiniteSet(W) /\ Cardinality(W) = Cardinality(Waiting(u)) - 1
        BY <3>1, <4>1, FS_RemoveElement
      <4>5. Cardinality(Waiting(u)') <= Cardinality(W) /\ Cardinality(Waiting(u)') \in Nat
        BY <4>3, <4>4, FS_Subset, FS_CardinalityType
      <4> HIDE DEF W
      <4>6. rev'[u] \in {rev[u], rev[u] + 1}
        BY <2>2, <3>2 DEF Account
      <4> QED BY <1>m, <2>2, <3>1, <4>4, <4>5, <4>6
    <3>3. CASE u # t.user
      <4>1. rev'[u] = rev[u]
        BY <2>2, <3>3 DEF Account
      <4>2. Cardinality(Waiting(u)') <= Cardinality(Waiting(u)) /\ Cardinality(Waiting(u)') \in Nat
        BY <2>4, <3>1, FS_Subset, FS_CardinalityType
      <4> QED BY <1>m, <2>2, <3>1, <4>1, <4>2
    <3> QED BY <3>2, <3>3
  <2>8. Room'
    BY <2>2, <2>7 DEF Room
  <2> QED BY <1>n, <2>5, <2>6, <2>8
<1>13. CASE User!Logout
  <2>1. logins \in SUBSET logins
    OBVIOUS
  <2> QED BY <1>3, <1>13, <2>1 DEF User!Logout, User!server
<1>14. ASSUME NEW l \in logins, User!CheckFails(l)
       PROVE  Counted'
  <2>1. logins \ {l} \in SUBSET logins
    OBVIOUS
  <2> QED BY <1>3, <1>14, <2>1 DEF User!CheckFails, User!server
<1> QED BY <1>1, <1>2, <1>d, <1>e, <1>4, <1>5, <1>6, <1>7, <1>8, <1>10, <1>11, <1>12, <1>13, <1>14
        DEF User!Next, User!handleReset, User!savePreferences, User!savePassword
-----------------------------------------------------------------------------
(* The pages of the panel (AdminPages).                                    *)

Anyone == Users \cup {NoUser}
Ops == {"load", "plans", "servers", "notices", "generate", "ban", "secret", "save", "reset",
        "drop", "settings", "path"}
Step == [kind : {"post", "list", "links"}, op : Ops, user : Anyone]
View == [rows : Ages, loading : BOOLEAN, saving : BOOLEAN, draft : Nat, open : BOOLEAN,
         active : Anyone, form : Anyone, cards : [user : Anyone, rev : Nat],
         cardsLoading : BOOLEAN]
Job == [todo : Seq(Step), at : {"asked", "served", "failed"}, rev : Nat, saves : BOOLEAN,
        draft : Nat, here : BOOLEAN, id : Nat]
Posting(t) == Head(t.todo).kind = "post"
Loads(steps, kind) == \E i \in 1 .. Len(steps) : steps[i].kind = kind
\* Whom it is about is known.
Proper(step) == step.kind = "links" \/ step.op = "save" => step.user \in Users
\* Only the first step changes something.
Orderly(steps) ==
  /\ steps \in Seq(Step) /\ steps # <<>>
  /\ \A i \in 2 .. Len(steps) : steps[i].kind # "post"
  /\ \A i \in 1 .. Len(steps) : Proper(steps[i])
Panel ==
  /\ page \in Admin!Pages /\ view \in View
  /\ tasks \subseteq Job
  /\ \A t \in tasks : Orderly(t.todo) /\ (~t.here => t.at = "asked")
  /\ rev \in [Admin!Pages -> Nat] /\ links \in [Users -> Nat]
  /\ moved \in BOOLEAN /\ made \in [Admin!Drafts -> Nat] /\ unsure \subseteq Admin!Drafts
  /\ typed \in 0 .. MaxDrafts /\ clicks \in Nat /\ patient \in BOOLEAN
  /\ view.open => view.active \in Users /\ view.form \in Users

\* One save at a time.
OneSave == \A t, s \in tasks : t.here /\ t.saves /\ s.here /\ s.saves => t = s

Clean(d) == made[d] = 0 \/ d \in unsure
\* What is in the form, or on its way from there, has not been saved.
Unsaved ==
  /\ view.draft <= typed
  /\ page \notin Admin!Lists \cup {"settings"} => view.draft = 0
  /\ \A d \in Admin!Drafts : d > typed => made[d] = 0
  /\ \A t \in tasks :
       /\ t.draft <= typed
       /\ t.draft # 0 => t.saves
       /\ t.here /\ Posting(t) /\ Head(t.todo).op \in Admin!Lists => page = Head(t.todo).op
       /\ t.here /\ Posting(t) /\ t.at = "asked" /\ t.draft # 0 /\ page \in Admin!Lists =>
            Clean(t.draft)
  /\ page \in Admin!Lists /\ view.draft # 0 =>
       \/ Clean(view.draft)
       \/ \E t \in tasks : t.here /\ t.saves /\ Posting(t) /\ t.at = "served"

\* What a function is to show in the end, for it to be all that it has changed.
Thorough(steps, active) ==
  /\ \A i \in 1 .. Len(steps) : steps[i].kind = "links" => steps[i].user = active
  /\ Head(steps).kind = "post" =>
       /\ Loads(steps, "list")
       /\ Head(steps).user = active /\ Head(steps).op # "ban" /\ active # NoUser =>
            Loads(steps, "links")
       /\ Head(steps).op = "save" => Head(steps).user = active
\* While the admin waits, one function runs.
Truth ==
  /\ \A t, s \in tasks : t = s
  /\ (\A t \in tasks : ~Loads(t.todo, "list")) => view.rows = rev[page]
  /\ view.active # NoUser =>
       /\ view.form = view.active
       /\ (\A t \in tasks : ~Loads(t.todo, "links")) =>
             view.cards = [user |-> view.active, rev |-> links[view.active]]
  /\ \A t \in tasks :
       /\ t.here /\ Thorough(t.todo, view.active)
       /\ t.at = "served" =>
            /\ Head(t.todo).kind = "list" => t.rev = rev[page]
            /\ Head(t.todo).kind = "links" => t.rev = links[Head(t.todo).user]

Posted == {t.id : t \in {x \in tasks : x.at = "asked" /\ Posting(x)}}
\* Every change of a list takes a click,
Ticketed ==
  /\ \A t \in tasks : t.id \in 0 .. clicks
  /\ \A t, s \in tasks : t.id = s.id => t = s
Spare ==
  /\ clicks <= MaxClicks
  /\ \A p \in Admin!Pages : rev[p] + Cardinality(Posted) <= clicks
  /\ \A u \in Users : links[u] + Cardinality(Posted) <= clicks
\* and nothing is shown that was not there.
Recent ==
  /\ view.rows \in 0 .. MaxClicks \cup {Unloaded} /\ view.cards.rev \in 0 .. MaxClicks
  /\ \A t \in tasks : t.rev \in 0 .. MaxClicks
Tallied == Ticketed /\ Spare /\ Recent

AdminHolds == part = "admin" =>
  Panel /\ Admin!SpinnersEnd /\ OneSave /\ Unsaved /\ Admin!SavedOnce /\ (patient => Truth) /\ Tallied

\* Lists of steps.
LEMMA OneStep ==
  ASSUME NEW a \in Step, Proper(a)
  PROVE  /\ Orderly(<<a>>) /\ Head(<<a>>) = a
         /\ \A k : Loads(<<a>>, k) <=> a.kind = k
BY DEF Orderly, Loads

\* of two
LEMMA TwoSteps ==
  ASSUME NEW a \in Step, Proper(a),
         NEW b \in Step, b.kind # "post", Proper(b)
  PROVE  /\ Orderly(<<a, b>>) /\ Head(<<a, b>>) = a
         /\ \A k : Loads(<<a, b>>, k) <=> a.kind = k \/ b.kind = k
         /\ \A u : /\ a.kind = "links" => a.user = u
                   /\ b.kind = "links" => b.user = u
                   => \A i \in 1 .. Len(<<a, b>>) :
                        <<a, b>>[i].kind = "links" => <<a, b>>[i].user = u
<1>1. 1 .. Len(<<a, b>>) = {1, 2} /\ 2 .. Len(<<a, b>>) = {2}
  OBVIOUS
<1> QED BY <1>1 DEF Orderly, Loads

\* and of three steps.
LEMMA ThreeSteps ==
  ASSUME NEW a \in Step, Proper(a),
         NEW b \in Step, b.kind # "post", Proper(b),
         NEW c \in Step, c.kind # "post", Proper(c)
  PROVE  /\ Orderly(<<a, b, c>>) /\ Head(<<a, b, c>>) = a
         /\ \A k : Loads(<<a, b, c>>, k) <=> a.kind = k \/ b.kind = k \/ c.kind = k
         /\ \A u : /\ a.kind = "links" => a.user = u
                   /\ b.kind = "links" => b.user = u
                   /\ c.kind = "links" => c.user = u
                   => \A i \in 1 .. Len(<<a, b, c>>) :
                        <<a, b, c>>[i].kind = "links" => <<a, b, c>>[i].user = u
<1>1. 1 .. Len(<<a, b, c>>) = {1, 2, 3} /\ 2 .. Len(<<a, b, c>>) = {2, 3}
  OBVIOUS
<1> QED BY <1>1 DEF Orderly, Loads

\* What is left after the first step.
LEMMA Rest ==
  ASSUME NEW s, Orderly(s), Tail(s) # <<>>
  PROVE  /\ Orderly(Tail(s)) /\ Head(Tail(s)).kind # "post"
         /\ \A k : Loads(s, k) <=> Head(s).kind = k \/ Loads(Tail(s), k)
         /\ \A i \in 1 .. Len(Tail(s)) : i + 1 \in 1 .. Len(s) /\ Tail(s)[i] = s[i + 1]
<1>1. s \in Seq(Step) /\ s # <<>>
  BY DEF Orderly
<1>2. /\ Len(s) \in Nat /\ Len(s) >= 1 /\ Tail(s) \in Seq(Step) /\ Len(Tail(s)) = Len(s) - 1
      /\ Head(s) = s[1]
      /\ \A i \in 1 .. Len(Tail(s)) : Tail(s)[i] = s[i + 1]
  BY <1>1
<1>3. Len(Tail(s)) >= 1 /\ Head(Tail(s)) = s[2]
  BY <1>2
<1>4. \A i \in 1 .. Len(Tail(s)) : i + 1 \in 1 .. Len(s) /\ i + 1 \in 2 .. Len(s)
  BY <1>2
<1>5. Orderly(Tail(s))
  <2>1. ASSUME NEW i \in 2 .. Len(Tail(s))
        PROVE  Tail(s)[i].kind # "post"
    <3>1. i \in 1 .. Len(Tail(s))
      BY <1>2
    <3> QED BY <1>2, <1>4, <3>1 DEF Orderly
  <2>2. ASSUME NEW i \in 1 .. Len(Tail(s))
        PROVE  Proper(Tail(s)[i])
    BY <1>2, <1>4, <2>2 DEF Orderly
  <2> QED BY <1>2, <2>1, <2>2 DEF Orderly
<1>6. Head(Tail(s)).kind # "post"
  <2>1. 2 \in 2 .. Len(s)
    BY <1>2, <1>3
  <2> QED BY <1>3, <2>1 DEF Orderly
<1>7. ASSUME NEW k
      PROVE  Loads(s, k) <=> Head(s).kind = k \/ Loads(Tail(s), k)
  <2>1. ASSUME Loads(s, k), Head(s).kind # k
        PROVE  Loads(Tail(s), k)
    <3>1. PICK i \in 1 .. Len(s) : s[i].kind = k
      BY <2>1 DEF Loads
    <3>2. i # 1 /\ i - 1 \in 1 .. Len(Tail(s)) /\ Tail(s)[i - 1] = s[i]
      <4>1. i # 1
        BY <1>2, <2>1, <3>1
      <4>2. i - 1 \in 1 .. Len(Tail(s)) /\ (i - 1) + 1 = i
        BY <1>2, <4>1
      <4> QED BY <1>2, <4>1, <4>2
    <3> QED BY <3>1, <3>2 DEF Loads
  <2>2. ASSUME Head(s).kind = k
        PROVE  Loads(s, k)
    <3>1. 1 \in 1 .. Len(s)
      BY <1>2
    <3> QED BY <1>2, <2>2, <3>1 DEF Loads
  <2>3. ASSUME Loads(Tail(s), k)
        PROVE  Loads(s, k)
    BY <1>2, <1>4, <2>3 DEF Loads
  <2> QED BY <2>1, <2>2, <2>3
<1> QED BY <1>2, <1>4, <1>5, <1>6, <1>7

\* The last step is all there is.
LEMMA Last ==
  ASSUME NEW s, Orderly(s), Tail(s) = <<>>
  PROVE  \A k : Loads(s, k) <=> Head(s).kind = k
<1>1. s \in Seq(Step) /\ s # <<>>
  BY DEF Orderly
<1>2. Len(s) \in Nat /\ Len(Tail(s)) = Len(s) - 1 /\ Head(s) = s[1]
  BY <1>1
<1>3. Len(s) = 1
  <2>1. PICK e : e = Tail(s)
    OBVIOUS
  <2>2. e = <<>>
    BY <2>1
  <2>3. Len(e) = 0
    BY <2>2
  <2> QED BY <1>2, <2>1, <2>3
<1> QED BY <1>2, <1>3 DEF Loads

\* The step that is under way.
LEMMA FirstStep ==
  ASSUME NEW s, Orderly(s)
  PROVE  /\ Head(s) \in Step /\ Proper(Head(s))
         /\ Head(s) = s[1] /\ 1 \in 1 .. Len(s)
<1>1. s \in Seq(Step) /\ s # <<>>
  BY DEF Orderly
<1>2. Len(s) \in Nat /\ Len(s) >= 1 /\ Head(s) = s[1] /\ Head(s) \in Step
  BY <1>1
<1>3. 1 \in 1 .. Len(s)
  BY <1>2
<1> QED BY <1>2, <1>3 DEF Orderly

\* What a click begins.
Sensible(v, steps, saves, draft) ==
  /\ v \in View /\ (v.open => v.active \in Users /\ v.form \in Users)
  /\ v.rows = view.rows /\ v.loading = view.loading /\ v.saving = view.saving
  /\ v.draft = view.draft /\ v.cards = view.cards /\ v.cardsLoading = view.cardsLoading
  /\ Orderly(steps)
  /\ saves \in BOOLEAN /\ (saves => ~view.saving)
  /\ draft \in {0, view.draft} /\ (draft # 0 => saves)
  /\ Head(steps).kind = "post" /\ Head(steps).op \in Admin!Lists => page = Head(steps).op
  /\ (view.active # NoUser => view.form = view.active /\ view.cards.user \in {view.active, NoUser}) =>
       /\ Thorough(steps, v.active)
       /\ v.active # NoUser => v.form = v.active
       /\ v.active \in {view.active, NoUser} \/ Loads(steps, "links")

Clicked ==
  \E v, steps, saves, draft : Sensible(v, steps, saves, draft) /\ Admin!Run(v, steps, saves, draft)

\* The steps there are.
LEMMA StepTypes ==
  ASSUME NEW op \in Ops, NEW u \in Anyone
  PROVE  /\ Admin!Post(op, u) \in Step /\ Admin!Post(op, u).kind = "post"
         /\ Admin!Post(op, u).op = op /\ Admin!Post(op, u).user = u
         /\ Admin!LoadList \in Step /\ Admin!LoadList.kind = "list"
         /\ Admin!LoadLinks(u) \in Step /\ Admin!LoadLinks(u).kind = "links"
         /\ Admin!LoadLinks(u).user = u
         /\ op # "save" \/ u \in Users => Proper(Admin!Post(op, u))
         /\ Proper(Admin!LoadList) /\ (u \in Users => Proper(Admin!LoadLinks(u)))
BY DEF Proper, Admin!Post, Admin!LoadList, Admin!LoadLinks, Step, Ops, Anyone

\* A change of the list of the page: the list is loaded again.
LEMMA ListChange ==
  ASSUME Panel, NEW op \in Ops, NEW u \in Anyone, NEW saves \in BOOLEAN,
         NEW draft \in {0, view.draft}, draft # 0 => saves, saves => ~view.saving,
         op \in Admin!Lists => page = op,
         op # "save", u # NoUser => op = "ban" \/ (op = "secret" /\ u # view.active)
  PROVE  Sensible(view, <<Admin!Post(op, u), Admin!LoadList>>, saves, draft)
<1>1. PICK a, b : a = Admin!Post(op, u) /\ b = Admin!LoadList
  OBVIOUS
<1>2. /\ a \in Step /\ a.kind = "post" /\ a.op = op /\ a.user = u
      /\ b \in Step /\ b.kind = "list" /\ Proper(a) /\ Proper(b)
  BY <1>1, StepTypes
<1>3. /\ Orderly(<<a, b>>) /\ Head(<<a, b>>) = a
      /\ \A k : Loads(<<a, b>>, k) <=> a.kind = k \/ b.kind = k
      /\ \A i \in 1 .. Len(<<a, b>>) :
           <<a, b>>[i].kind = "links" => <<a, b>>[i].user = view.active
  BY <1>2, TwoSteps
<1>4. PICK s : s = <<a, b>>
  OBVIOUS
<1>5. Thorough(s, view.active)
  BY <1>2, <1>3, <1>4 DEF Thorough
<1>6. Sensible(view, s, saves, draft)
  BY <1>2, <1>3, <1>4, <1>5 DEF Sensible, Panel, View, Anyone
<1> QED BY <1>1, <1>4, <1>6

\* A change of the links of a user in the drawer: links and list are loaded again.
LEMMA LinksChange ==
  ASSUME Panel, NEW op \in Ops \ Admin!Lists, NEW u \in Anyone, NEW w \in Users,
         NEW saves \in BOOLEAN, saves => ~view.saving, op = "save" => u \in Users,
         (view.active # NoUser => view.form = view.active /\ view.cards.user \in {view.active, NoUser}) =>
           u = view.active /\ w = view.active
  PROVE  Sensible(view, <<Admin!Post(op, u), Admin!LoadLinks(w), Admin!LoadList>>, saves, 0)
<1>1. PICK a, b, c : a = Admin!Post(op, u) /\ b = Admin!LoadLinks(w) /\ c = Admin!LoadList
  OBVIOUS
<1>2. /\ a \in Step /\ a.kind = "post" /\ a.op = op /\ a.user = u
      /\ b \in Step /\ b.kind = "links" /\ b.user = w
      /\ c \in Step /\ c.kind = "list" /\ Proper(a) /\ Proper(b) /\ Proper(c)
  BY <1>1, StepTypes DEF Anyone, Ops
<1>3. /\ Orderly(<<a, b, c>>) /\ Head(<<a, b, c>>) = a
      /\ \A k : Loads(<<a, b, c>>, k) <=> a.kind = k \/ b.kind = k \/ c.kind = k
      /\ w = view.active => \A i \in 1 .. Len(<<a, b, c>>) :
           <<a, b, c>>[i].kind = "links" => <<a, b, c>>[i].user = view.active
  BY <1>2, ThreeSteps
<1>4. PICK s : s = <<a, b, c>>
  OBVIOUS
<1>5. u = view.active /\ w = view.active => Thorough(s, view.active)
  BY <1>2, <1>3, <1>4 DEF Thorough
<1>6. Sensible(view, s, saves, 0)
  BY <1>2, <1>3, <1>4, <1>5 DEF Sensible, Panel, View, Anyone
<1> QED BY <1>1, <1>4, <1>6

\* On the page of the users,
LEMMA UsersClick ==
  ASSUME Panel,
         \/ Admin!createUser
         \/ Admin!saveSubscription \/ Admin!resetSubscriptions \/ Admin!dropSubscription
         \/ Admin!refreshDrawer
         \/ \E u \in Users : Admin!toggleBan(u) \/ Admin!resetSecret(u) \/ Admin!openSubscriptionDrawer(u)
  PROVE  Clicked
<1>n. NoUser \notin Users /\ Users \subseteq Anyone /\ NoUser \in Anyone
  BY BrowserAssumption DEF Admin!AdminPagesAssumption, Anyone
<1>1. CASE Admin!createUser
  BY <1>1, <1>n, ListChange DEF Ops, Admin!createUser, Admin!Lists, Clicked
<1>2. CASE Admin!saveSubscription
  <2>1. view.form \in Users /\ view.active \in Users
    BY <1>2 DEF Admin!saveSubscription, Admin!InDrawer, Panel
  <2> QED BY <1>2, <1>n, <2>1, LinksChange DEF Ops, Admin!saveSubscription, Admin!Lists, Clicked
<1>3. CASE Admin!resetSubscriptions
  <2>1. view.form \in Users /\ view.active \in Users
    BY <1>3 DEF Admin!resetSubscriptions, Admin!InDrawer, Panel
  <2> QED BY <1>3, <1>n, <2>1, LinksChange DEF Ops, Admin!resetSubscriptions, Admin!Lists, Clicked
<1>4. CASE Admin!dropSubscription
  <2>1. view.form \in Users /\ view.active \in Users /\ view.cards.user \in Users
    BY <1>4 DEF Admin!dropSubscription, Admin!InDrawer, Admin!OnCard, Panel, View, Anyone
  <2> QED BY <1>4, <1>n, <2>1, LinksChange DEF Ops, Admin!dropSubscription, Admin!Lists, Clicked
<1>5. CASE Admin!refreshDrawer
  <2>1. view.form \in Users /\ view.active \in Users
    BY <1>5 DEF Admin!refreshDrawer, Admin!InDrawer, Panel
  <2>2. PICK a : a = Admin!LoadLinks(view.active)
    OBVIOUS
  <2>3. a \in Step /\ a.kind = "links" /\ a.user = view.active /\ Proper(a)
    BY <2>1, <2>2, StepTypes DEF Anyone, Ops
  <2>4. PICK s : s = <<a>>
    OBVIOUS
  <2>5. Orderly(s) /\ Head(s) = a /\ Len(s) = 1 /\ s[1] = a
    BY <2>1, <2>3, <2>4, OneStep
  <2>6. Thorough(s, view.active)
    BY <2>3, <2>5 DEF Thorough
  <2>7. Sensible(view, s, FALSE, 0)
    BY <2>1, <2>3, <2>5, <2>6 DEF Sensible, Panel, View, Anyone
  <2> QED BY <1>5, <2>2, <2>4, <2>7 DEF Admin!refreshDrawer, Clicked
<1>6. ASSUME NEW u \in Users, Admin!toggleBan(u)
      PROVE  Clicked
  BY <1>6, <1>n, ListChange DEF Ops, Admin!toggleBan, Admin!Lists, Clicked
<1>7. ASSUME NEW u \in Users, Admin!resetSecret(u)
      PROVE  Clicked
  <2>1. CASE view.active # u
    BY <1>7, <1>n, <2>1, ListChange DEF Ops, Admin!resetSecret, Admin!Lists, Clicked
  <2>2. CASE view.active = u
    <3>1. PICK a, b, c : a = Admin!Post("secret", u) /\ b = Admin!LoadList /\ c = Admin!LoadLinks(u)
      OBVIOUS
    <3>2. /\ a \in Step /\ a.kind = "post" /\ a.op = "secret" /\ a.user = u
          /\ b \in Step /\ b.kind = "list"
          /\ c \in Step /\ c.kind = "links" /\ c.user = u /\ Proper(a) /\ Proper(b) /\ Proper(c)
      BY <3>1, StepTypes DEF Anyone, Ops
    <3>3. /\ Orderly(<<a, b, c>>) /\ Head(<<a, b, c>>) = a
          /\ \A k : Loads(<<a, b, c>>, k) <=> a.kind = k \/ b.kind = k \/ c.kind = k
          /\ \A i \in 1 .. Len(<<a, b, c>>) : <<a, b, c>>[i].kind = "links" => <<a, b, c>>[i].user = u
      BY <3>2, ThreeSteps
    <3>4. PICK s : s = <<a, b, c>>
      OBVIOUS
    <3>5. Thorough(s, u)
      BY <3>2, <3>3, <3>4 DEF Thorough
    <3>6. Sensible(view, s, FALSE, 0)
      BY <2>2, <3>2, <3>3, <3>4, <3>5 DEF Sensible, Panel, View, Anyone, Admin!Lists
    <3>7. Admin!Run(view, s, FALSE, 0)
      BY <1>7, <2>2, <3>1, <3>4 DEF Admin!resetSecret
    <3> QED BY <3>6, <3>7 DEF Clicked
  <2> QED BY <2>1, <2>2
<1>8. ASSUME NEW u \in Users, Admin!openSubscriptionDrawer(u)
      PROVE  Clicked
  <2>1. PICK a : a = Admin!LoadLinks(u)
    OBVIOUS
  <2>2. a \in Step /\ a.kind = "links" /\ a.user = u /\ Proper(a)
    BY <2>1, StepTypes DEF Anyone, Ops
  <2>3. PICK s : s = <<a>>
    OBVIOUS
  <2>4. Orderly(s) /\ Head(s) = a /\ Len(s) = 1 /\ s[1] = a /\ Loads(s, "links")
    BY <2>2, <2>3, OneStep
  <2>5. Thorough(s, u)
    BY <2>2, <2>4 DEF Thorough
  <2>6. PICK v : v = [view EXCEPT !.active = u, !.form = u, !.open = TRUE]
    OBVIOUS
  <2>7. /\ v \in View /\ v.active = u /\ v.form = u
        /\ v.rows = view.rows /\ v.loading = view.loading /\ v.saving = view.saving
        /\ v.draft = view.draft /\ v.cards = view.cards /\ v.cardsLoading = view.cardsLoading
    BY <2>6 DEF Panel, View, Anyone
  <2>8. Sensible(v, s, FALSE, 0)
    BY <2>2, <2>4, <2>5, <2>7 DEF Sensible
  <2>9. Admin!Run(v, s, FALSE, 0)
    BY <1>8, <2>1, <2>3, <2>6 DEF Admin!openSubscriptionDrawer
  <2> QED BY <2>8, <2>9 DEF Clicked
<1> QED BY <1>1, <1>2, <1>3, <1>4, <1>5, <1>6, <1>7, <1>8

\* Every click begins one function.
LEMMA Clicks ==
  ASSUME Panel, Admin!Next
  PROVE  \/ Clicked
         \/ \E p \in Admin!Pages : Admin!Navigate(p)
         \/ Admin!Fill \/ Admin!closeDrawer
         \/ \E u \in Users : Admin!EditUser(u)
         \/ \E t \in tasks : \/ Admin!Deliver(t) \/ Admin!Refuse(t)
                             \/ \E at \in {"served", "failed"} : Admin!Serve(t, at)
<1>n. NoUser \in Anyone /\ view.draft \in {0, view.draft}
  BY DEF Anyone
<1>1. CASE Admin!loadStats
  <2>1. PICK a : a = Admin!LoadList
    OBVIOUS
  <2>2. a \in Step /\ a.kind = "list" /\ Proper(a)
    BY <2>1, <1>n, StepTypes DEF Ops
  <2>3. PICK s : s = <<a>>
    OBVIOUS
  <2>4. Orderly(s) /\ Head(s) = a /\ Len(s) = 1 /\ s[1] = a
    BY <2>2, <2>3, OneStep
  <2>5. Thorough(s, view.active)
    BY <2>2, <2>4 DEF Thorough
  <2>6. Sensible(view, s, FALSE, 0)
    BY <2>2, <2>4, <2>5 DEF Sensible, Panel, View, Anyone
  <2> QED BY <1>1, <2>1, <2>3, <2>6 DEF Admin!loadStats, Clicked
<1>2. ASSUME NEW p \in {"plans", "servers", "notices"}, Admin!Save(p)
      PROVE  Clicked
  <2>1. Sensible(view, <<Admin!Post(p, NoUser), Admin!LoadList>>, TRUE, view.draft)
    BY <1>2, <1>n, ListChange DEF Admin!Save, Ops
  <2> QED BY <1>2, <2>1 DEF Admin!Save, Clicked
<1>3. ASSUME NEW p \in {"plans", "servers", "notices"}, Admin!Drop(p)
      PROVE  Clicked
  <2>1. Sensible(view, <<Admin!Post(p, NoUser), Admin!LoadList>>, FALSE, 0)
    BY <1>3, <1>n, ListChange DEF Admin!Drop, Ops
  <2> QED BY <1>3, <2>1 DEF Admin!Drop, Clicked
<1>4. ASSUME NEW path \in BOOLEAN, Admin!saveSettings(path)
      PROVE  Clicked
  <2>0. PICK op : op = IF path THEN "path" ELSE "settings"
    OBVIOUS
  <2>1. op \in Ops /\ op \notin Admin!Lists /\ op # "save"
    BY <2>0 DEF Admin!Lists, Ops
  <2>2. Sensible(view, <<Admin!Post(op, NoUser), Admin!LoadList>>, TRUE, view.draft)
    BY <1>4, <1>n, <2>1, ListChange DEF Admin!saveSettings
  <2> QED BY <1>4, <2>0, <2>2 DEF Admin!saveSettings, Clicked
<1>5. CASE Admin!savePlan \/ Admin!saveServer \/ Admin!saveNotice
  BY <1>2, <1>5 DEF Admin!savePlan, Admin!saveServer, Admin!saveNotice
<1>6. CASE Admin!dropPlan \/ Admin!dropServer \/ Admin!dropNotice
  BY <1>3, <1>6 DEF Admin!dropPlan, Admin!dropServer, Admin!dropNotice
<1>7. CASE Admin!UsersPage
  BY <1>7, UsersClick DEF Admin!UsersPage
<1> QED BY <1>1, <1>4, <1>5, <1>6, <1>7 DEF Admin!Next

-----------------------------------------------------------------------------
(* What the actions of the panel do to what the invariants are about.       *)

\* A function that has begun.
Ran(n) ==
  /\ n \in Job /\ Orderly(n.todo)
  /\ n.at = "asked" /\ n.rev = 0 /\ n.here /\ n.id = clicks + 1
  /\ n.saves => ~view.saving
  /\ n.draft \in {0, view.draft} /\ (n.draft # 0 => n.saves)
  /\ Posting(n) /\ Head(n.todo).op \in Admin!Lists => page = Head(n.todo).op
  /\ (view.active # NoUser => view.form = view.active /\ view.cards.user \in {view.active, NoUser}) =>
       /\ Thorough(n.todo, view'.active)
       /\ view'.active # NoUser => view'.form = view'.active
       /\ view'.active \in {view.active, NoUser} \/ Loads(n.todo, "links")
  /\ tasks' = tasks \cup {n}
  /\ clicks < MaxClicks /\ clicks' = clicks + 1 /\ patient' = (patient /\ tasks = {})
  /\ UNCHANGED <<page, rev, links, moved, made, unsure, typed>>
  /\ view' \in View /\ (view'.open => view'.active \in Users /\ view'.form \in Users)
  /\ view'.loading = (view.loading \/ Head(n.todo).kind = "list")
  /\ view'.cardsLoading = (view.cardsLoading \/ Head(n.todo).kind = "links")
  /\ view'.saving = (view.saving \/ n.saves)
  /\ view'.rows = view.rows /\ view'.cards = view.cards /\ view'.draft = view.draft

\* A click that is sensible begins a function that is.
LEMMA Runs ==
  ASSUME Panel, Clicked
  PROVE  \E n : Ran(n)
<1>1. PICK v, steps, saves, draft : Sensible(v, steps, saves, draft) /\ Admin!Run(v, steps, saves, draft)
  BY DEF Clicked
<1>2. PICK n : n = Admin!Task(steps, saves, draft)
  OBVIOUS
<1>3. /\ steps \in Seq(Step) /\ saves \in BOOLEAN /\ draft \in Nat /\ clicks + 1 \in Nat
      /\ v \in View /\ Orderly(steps)
  BY <1>1 DEF Sensible, Orderly, Panel, View
<1>4. /\ n \in Job /\ n.todo = steps /\ n.at = "asked" /\ n.rev = 0 /\ n.saves = saves
      /\ n.draft = draft /\ n.here /\ n.id = clicks + 1
  BY <1>2, <1>3 DEF Admin!Task, Job
<1>5. /\ clicks < MaxClicks /\ clicks' = clicks + 1 /\ tasks' = tasks \cup {n}
      /\ patient' = (patient /\ tasks = {})
      /\ view' = Admin!Begun([v EXCEPT !.saving = @ \/ saves], Head(steps))
      /\ UNCHANGED <<page, rev, links, moved, made, unsure, typed>>
  BY <1>1, <1>2 DEF Admin!Run
<1>6. PICK w : w = [v EXCEPT !.saving = @ \/ saves]
  OBVIOUS
<1>7. /\ w \in View /\ w.saving = (v.saving \/ saves) /\ w.rows = v.rows /\ w.loading = v.loading
      /\ w.draft = v.draft /\ w.open = v.open /\ w.active = v.active /\ w.form = v.form
      /\ w.cards = v.cards /\ w.cardsLoading = v.cardsLoading
  BY <1>3, <1>6 DEF View
<1>8. PICK a : a = Head(steps)
  OBVIOUS
<1>9. view' = [w EXCEPT !.loading = @ \/ a.kind = "list", !.cardsLoading = @ \/ a.kind = "links"]
  BY <1>5, <1>6, <1>8 DEF Admin!Begun
<1>10. /\ view' \in View /\ view'.loading = (v.loading \/ a.kind = "list")
       /\ view'.cardsLoading = (v.cardsLoading \/ a.kind = "links")
       /\ view'.saving = (v.saving \/ saves) /\ view'.rows = v.rows /\ view'.cards = v.cards
       /\ view'.draft = v.draft /\ view'.open = v.open /\ view'.active = v.active
       /\ view'.form = v.form
  BY <1>7, <1>9 DEF View
<1> QED BY <1>1, <1>4, <1>5, <1>8, <1>10 DEF Ran, Sensible, Posting

\* An answer that has come in.
Delivered(t) ==
  /\ t.at # "asked"
  /\ UNCHANGED <<page, typed, clicks, rev, links, moved, made, unsure>>
  /\ view' \in View /\ view'.open = view.open /\ view'.active = view.active
  /\ t.at = "failed" => patient' = FALSE /\ UNCHANGED <<view.rows, view.cards, view.form, view.draft>>
  /\ t.at = "served" =>
       /\ patient' = patient
       /\ view'.rows = IF Head(t.todo).kind = "list" THEN t.rev ELSE view.rows
       /\ view'.cards = IF Head(t.todo).kind = "links"
                        THEN [user |-> Head(t.todo).user, rev |-> t.rev] ELSE view.cards
       /\ view'.form = IF Posting(t) /\ Head(t.todo).op = "save" THEN Head(t.todo).user ELSE view.form
       /\ view'.draft = IF \/ Head(t.todo).kind = "list" /\ page = "settings"
                           \/ Posting(t) /\ t.saves /\ page \in Admin!Lists
                        THEN 0 ELSE view.draft

\* The function has ended,
Ended(t) ==
  /\ tasks' = tasks \ {t}
  /\ view'.loading = (view.loading /\ Head(t.todo).kind # "list")
  /\ view'.cardsLoading = (view.cardsLoading /\ Head(t.todo).kind # "links")
  /\ view'.saving = (view.saving /\ ~t.saves)
\* or it goes on.
Goes(t, n) ==
  /\ n \in Job /\ n.todo = Tail(t.todo) /\ n.at = "asked" /\ n.rev = 0
  /\ n.saves = t.saves /\ n.draft = t.draft /\ n.here = t.here /\ n.id = t.id
  /\ tasks' = (tasks \ {t}) \cup {n}
  /\ view'.loading = ((view.loading /\ Head(t.todo).kind # "list") \/ Head(n.todo).kind = "list")
  /\ view'.cardsLoading =
       ((view.cardsLoading /\ Head(t.todo).kind # "links") \/ Head(n.todo).kind = "links")
  /\ view'.saving = view.saving

\* What Deliver does: finally clears the flags, or the next step sets them.
LEMMA Delivers ==
  ASSUME Panel, NEW t \in tasks, Admin!Deliver(t)
  PROVE  /\ Delivered(t)
         /\ \/ (t.at = "failed" \/ Tail(t.todo) = <<>>) /\ Ended(t)
            \/ /\ t.at = "served" /\ Tail(t.todo) # <<>> /\ Orderly(Tail(t.todo))
               /\ \E n : Goes(t, n)
<1>1. /\ t \in Job /\ Orderly(t.todo) /\ view \in View
  BY DEF Panel
<1>2. PICK a : a = Head(t.todo)
  OBVIOUS
<1>3. /\ a \in Step /\ a.kind \in {"post", "list", "links"} /\ a.user \in Anyone
  BY <1>1, <1>2, FirstStep DEF Step
<1>4. /\ t.at # "asked" /\ UNCHANGED <<page, typed, clicks, rev, links, moved, made, unsure>>
  BY DEF Admin!Deliver, Admin!server
<1>5. t.rev \in Nat /\ t.rev \in Ages /\ t.saves \in BOOLEAN /\ t.at \in {"asked", "served", "failed"}
  BY <1>1 DEF Job, Ages
<1>6. CASE t.at = "failed"
  <2>1. /\ view' = [view EXCEPT !.loading = @ /\ a.kind # "list",
                                !.cardsLoading = @ /\ a.kind # "links",
                                !.saving = @ /\ ~t.saves]
        /\ tasks' = tasks \ {t} /\ patient' = FALSE
    BY <1>2, <1>6 DEF Admin!Deliver, Admin!Failed
  <2>2. /\ view' \in View /\ view'.open = view.open /\ view'.active = view.active
        /\ UNCHANGED <<view.rows, view.cards, view.form, view.draft>>
        /\ view'.loading = (view.loading /\ a.kind # "list")
        /\ view'.cardsLoading = (view.cardsLoading /\ a.kind # "links")
        /\ view'.saving = (view.saving /\ ~t.saves)
    BY <1>1, <2>1 DEF View
  <2> QED BY <1>2, <1>4, <1>6, <2>1, <2>2 DEF Delivered, Ended
<1>7. CASE t.at = "served"
  <2>1. PICK v : v = Admin!Applied(view, t)
    OBVIOUS
  <2>2. PICK rest : rest = Tail(t.todo)
    OBVIOUS
  <2>3. /\ IF rest = <<>>
           THEN /\ view' = [v EXCEPT !.saving = @ /\ ~t.saves]
                /\ tasks' = tasks \ {t}
           ELSE /\ view' = Admin!Begun(v, Head(rest))
                /\ tasks' = (tasks \ {t}) \cup {[t EXCEPT !.todo = rest, !.at = "asked", !.rev = 0]}
        /\ patient' = patient
    BY <1>7, <2>1, <2>2 DEF Admin!Deliver
  <2>4. /\ v \in View /\ v.open = view.open /\ v.active = view.active /\ v.saving = view.saving
        /\ v.loading = (view.loading /\ a.kind # "list")
        /\ v.cardsLoading = (view.cardsLoading /\ a.kind # "links")
        /\ v.rows = IF a.kind = "list" THEN t.rev ELSE view.rows
        /\ v.cards = IF a.kind = "links" THEN [user |-> a.user, rev |-> t.rev] ELSE view.cards
        /\ v.form = IF a.kind = "post" /\ a.op = "save" THEN a.user ELSE view.form
        /\ v.draft = IF \/ a.kind = "list" /\ page = "settings"
                        \/ a.kind = "post" /\ t.saves /\ page \in Admin!Lists
                     THEN 0 ELSE view.draft
    <3>1. CASE a.kind = "list"
      <4>1. v = [view EXCEPT !.rows = t.rev, !.loading = FALSE,
                             !.draft = IF page = "settings" THEN 0 ELSE @]
        BY <1>2, <2>1, <3>1 DEF Admin!Applied
      <4> QED BY <1>1, <1>5, <3>1, <4>1 DEF View
    <3>2. CASE a.kind = "links"
      <4>1. v = [view EXCEPT !.cards = [user |-> a.user, rev |-> t.rev], !.cardsLoading = FALSE]
        BY <1>2, <2>1, <3>2 DEF Admin!Applied
      <4> QED BY <1>1, <1>3, <1>5, <3>2, <4>1 DEF View
    <3>3. CASE a.kind = "post"
      <4>1. v = [view EXCEPT !.form = IF a.op = "save" THEN a.user ELSE @,
                             !.draft = IF t.saves /\ page \in Admin!Lists THEN 0 ELSE @]
        BY <1>2, <2>1, <3>3 DEF Admin!Applied
      <4> QED BY <1>1, <1>3, <3>3, <4>1 DEF View
    <3> QED BY <1>3, <3>1, <3>2, <3>3
  <2>5. CASE rest = <<>>
    <3>1. view' = [v EXCEPT !.saving = @ /\ ~t.saves] /\ tasks' = tasks \ {t}
      BY <2>3, <2>5
    <3>2. /\ view' \in View /\ view'.open = v.open /\ view'.active = v.active
          /\ view'.saving = (v.saving /\ ~t.saves) /\ view'.rows = v.rows /\ view'.cards = v.cards
          /\ view'.form = v.form /\ view'.draft = v.draft /\ view'.loading = v.loading
          /\ view'.cardsLoading = v.cardsLoading
      BY <2>4, <3>1 DEF View
    <3>3. Delivered(t)
      BY <1>2, <1>4, <1>7, <2>3, <2>4, <3>2 DEF Delivered, Posting
    <3>4. Ended(t)
      BY <1>2, <2>4, <3>1, <3>2 DEF Ended
    <3> QED BY <2>2, <2>5, <3>3, <3>4
  <2>6. CASE rest # <<>>
    <3>0. PICK b : b = Head(rest)
      OBVIOUS
    <3>1. PICK n : n = [t EXCEPT !.todo = rest, !.at = "asked", !.rev = 0]
      OBVIOUS
    <3>2. Orderly(rest) /\ rest \in Seq(Step)
      BY <1>1, <2>2, <2>6, Rest DEF Orderly
    <3>3. /\ n \in Job /\ n.todo = rest /\ n.at = "asked" /\ n.rev = 0
          /\ n.saves = t.saves /\ n.draft = t.draft /\ n.here = t.here /\ n.id = t.id
      BY <1>1, <3>1, <3>2 DEF Job
    <3>4. /\ view' = [v EXCEPT !.loading = @ \/ b.kind = "list", !.cardsLoading = @ \/ b.kind = "links"]
          /\ tasks' = (tasks \ {t}) \cup {n}
      BY <2>3, <2>6, <3>0, <3>1 DEF Admin!Begun
    <3>5. /\ view' \in View /\ view'.open = v.open /\ view'.active = v.active
          /\ view'.saving = v.saving /\ view'.rows = v.rows /\ view'.cards = v.cards
          /\ view'.form = v.form /\ view'.draft = v.draft
          /\ view'.loading = (v.loading \/ b.kind = "list")
          /\ view'.cardsLoading = (v.cardsLoading \/ b.kind = "links")
      BY <2>4, <3>4 DEF View
    <3>6. Delivered(t)
      BY <1>2, <1>4, <1>7, <2>3, <2>4, <3>5 DEF Delivered, Posting
    <3>7. Goes(t, n)
      <4>1. Head(n.todo) = b /\ n.todo = Tail(t.todo)
        BY <2>2, <3>0, <3>3
      <4>2. /\ view'.loading = ((view.loading /\ a.kind # "list") \/ b.kind = "list")
            /\ view'.cardsLoading = ((view.cardsLoading /\ a.kind # "links") \/ b.kind = "links")
            /\ view'.saving = view.saving
        BY <2>4, <3>5
      <4>3. view'.loading =
              ((view.loading /\ Head(t.todo).kind # "list") \/ Head(n.todo).kind = "list")
        BY <1>2, <4>1, <4>2
      <4>4. view'.cardsLoading =
              ((view.cardsLoading /\ Head(t.todo).kind # "links") \/ Head(n.todo).kind = "links")
        BY <1>2, <4>1, <4>2
      <4> QED BY <3>3, <3>4, <4>1, <4>2, <4>3, <4>4 DEF Goes
    <3> QED BY <1>7, <2>2, <2>6, <3>2, <3>6, <3>7
  <2> QED BY <2>5, <2>6
<1> QED BY <1>4, <1>5, <1>6, <1>7

\* An answer on its way: s is what t becomes, if its page is there.
Answered(t, s) ==
  /\ s \in Job /\ s.todo = t.todo /\ s.at \in {"served", "failed"}
  /\ s.saves = t.saves /\ s.draft = t.draft /\ s.here = t.here /\ s.id = t.id
  /\ t.at = "asked"
  /\ t.here => tasks' = (tasks \ {t}) \cup {s}
  /\ ~t.here => tasks' = tasks \ {t}
  /\ UNCHANGED <<page, view, typed, clicks, patient>>

\* What a request brings is kept by the function that waits for it.
LEMMA Answers ==
  ASSUME Panel, NEW t \in tasks, t.at = "asked", NEW at \in {"served", "failed"}, NEW r \in Nat,
         Admin!Answer(t, at, r), UNCHANGED <<page, view, typed, clicks, patient>>
  PROVE  \E s : Answered(t, s) /\ s.at = at /\ s.rev = r
<1>1. t \in Job
  BY DEF Panel
<1>2. PICK s : s = [t EXCEPT !.at = at, !.rev = r]
  OBVIOUS
<1>3. /\ s \in Job /\ s.todo = t.todo /\ s.at = at /\ s.rev = r
      /\ s.saves = t.saves /\ s.draft = t.draft /\ s.here = t.here /\ s.id = t.id
  BY <1>1, <1>2 DEF Job
<1>4. tasks' = (tasks \ {t}) \cup {u \in {s} : t.here}
  BY <1>2 DEF Admin!Answer
<1> QED BY <1>3, <1>4 DEF Answered

\* What Serve does but for the changes on the server,
LEMMA Serves ==
  ASSUME Panel, NEW t \in tasks, NEW at \in {"served", "failed"}, Admin!Serve(t, at)
  PROVE  /\ \E s : /\ Answered(t, s) /\ s.at = at
                   /\ Posting(t) => s.rev = 0
                   /\ Head(t.todo).kind = "list" => s.rev = rev[page]
                   /\ Head(t.todo).kind = "links" => s.rev = links[Head(t.todo).user]
         /\ ~moved
         /\ ~Posting(t) => UNCHANGED <<rev, links, moved, made, unsure>>
<1>1. PICK a : a = Head(t.todo)
  OBVIOUS
<1>2. a \in Step /\ a.kind \in {"post", "list", "links"} /\ (a.kind = "links" => a.user \in Users)
  BY <1>1, FirstStep DEF Panel, Step, Proper
<1>3. PICK r : r = CASE a.kind = "post"  -> 0
                     [] a.kind = "list"  -> rev[page]
                     [] a.kind = "links" -> links[a.user]
  OBVIOUS
<1>4. /\ t.at = "asked" /\ ~moved /\ Admin!Answer(t, at, r)
      /\ UNCHANGED <<page, view, typed, clicks, patient>>
      /\ a.kind # "post" => UNCHANGED <<rev, links, moved, made, unsure>>
  BY <1>1, <1>3 DEF Admin!Serve, Admin!server
<1>5. /\ a.kind = "post" => r = 0
      /\ a.kind = "list" => r = rev[page]
      /\ a.kind = "links" => r = links[a.user]
  BY <1>3
<1>6. r \in Nat
  BY <1>2, <1>5 DEF Panel
<1>7. PICK s : Answered(t, s) /\ s.at = at /\ s.rev = r
  BY <1>4, <1>6, Answers
<1> QED BY <1>1, <1>4, <1>5, <1>7 DEF Posting

\* What the server has changed.
LEMMA ServesPost ==
  ASSUME Panel, NEW t \in tasks, NEW at \in {"served", "failed"}, Admin!Serve(t, at), Posting(t)
  PROVE  /\ rev' = [p \in Admin!Pages |-> IF p \in Admin!Touched(Head(t.todo).op)
                                          THEN rev[p] + 1 ELSE rev[p]]
         /\ links' = [u \in Users |-> IF u = Head(t.todo).user /\ Head(t.todo).op # "ban"
                                      THEN links[u] + 1 ELSE links[u]]
         /\ made' = [d \in Admin!Drafts |-> IF d # t.draft THEN made[d]
                                            ELSE IF Head(t.todo).op \in Admin!Lists
                                                 THEN made[d] + 1 ELSE 1]
         /\ unsure' = unsure \cup ({t.draft} \cap
                                     IF at = "failed" \/ ~t.here THEN Admin!Drafts ELSE {})
         /\ moved' \in BOOLEAN
BY DEF Admin!Serve, Posting

\* What Refuse does: nothing on the server.
LEMMA Refuses ==
  ASSUME Panel, NEW t \in tasks, Admin!Refuse(t)
  PROVE  /\ \E s : Answered(t, s) /\ s.at = "failed" /\ s.rev = 0
         /\ UNCHANGED <<rev, links, moved, made, unsure>>
<1>1. /\ t.at = "asked" /\ Admin!Answer(t, "failed", 0)
      /\ UNCHANGED <<page, view, typed, clicks, patient>>
      /\ UNCHANGED <<rev, links, moved, made, unsure>>
  BY DEF Admin!Refuse, Admin!server
<1>2. \E s : Answered(t, s) /\ s.at = "failed" /\ s.rev = 0
  BY <1>1, Answers
<1> QED BY <1>1, <1>2

\* Another page: n loads its list, and s is what t is there.
Forgot(t, s) ==
  /\ t.at = "asked" /\ Posting(t) /\ s = [t EXCEPT !.here = FALSE]
  /\ s \in Job /\ s.todo = t.todo /\ s.at = "asked" /\ ~s.here
  /\ s.saves = t.saves /\ s.draft = t.draft /\ s.id = t.id /\ s.rev = t.rev
Departed(n) ==
  /\ n \in Job /\ Orderly(n.todo) /\ Head(n.todo).kind = "list"
  /\ \A k : Loads(n.todo, k) <=> k = "list"
  /\ n.at = "asked" /\ n.rev = 0 /\ n.here /\ ~n.saves /\ n.draft = 0 /\ n.id = clicks + 1
  /\ n \in tasks'
  /\ \A s \in tasks' : s = n \/ \E t \in tasks : Forgot(t, s)
  /\ \A t \in tasks : t.at = "asked" /\ Posting(t) => \E s \in tasks' : Forgot(t, s)
  /\ patient' \in BOOLEAN /\ (patient' => \A s \in tasks' : s = n)
  /\ clicks < MaxClicks /\ clicks' = clicks + 1
  /\ UNCHANGED <<rev, links, moved, made, unsure, typed>>
  /\ page' \in Admin!Pages
  /\ view' \in View /\ view'.rows = Unloaded /\ view'.loading /\ ~view'.saving /\ view'.draft = 0
  /\ ~view'.open /\ view'.active = NoUser /\ view'.form = NoUser /\ ~view'.cardsLoading
  /\ view'.cards.user = NoUser /\ view'.cards.rev = 0

\* What Navigate does: of the old page only the changes under way are left.
LEMMA Leaves ==
  ASSUME Panel, NEW p \in Admin!Pages, Admin!Navigate(p)
  PROVE  \E n : Departed(n)
<1>1. PICK n : n = Admin!Task(<<Admin!LoadList>>, FALSE, 0)
  OBVIOUS
<1>2. PICK a : a = Admin!LoadList
  OBVIOUS
<1>3. a \in Step /\ a.kind = "list" /\ Proper(a)
  <2>1. "load" \in Ops /\ NoUser \in Anyone
    BY DEF Ops, Anyone
  <2> QED BY <1>2, <2>1, StepTypes
<1>4. PICK o : o = <<a>>
  OBVIOUS
<1>5. Orderly(o) /\ Head(o) = a /\ \A k : Loads(o, k) <=> k = "list"
  BY <1>3, <1>4, OneStep
<1>6. o \in Seq(Step) /\ clicks + 1 \in Nat
  BY <1>5 DEF Orderly, Panel
<1>7. /\ n \in Job /\ n.todo = o /\ n.at = "asked" /\ n.rev = 0 /\ n.here /\ ~n.saves
      /\ n.draft = 0 /\ n.id = clicks + 1
  BY <1>1, <1>2, <1>4, <1>6 DEF Admin!Task, Job
<1>8. PICK pending : pending = {t \in tasks : t.at = "asked" /\ Head(t.todo).kind = "post"}
  OBVIOUS
<1>9. /\ tasks' = {[t EXCEPT !.here = FALSE] : t \in pending} \cup {n}
      /\ patient' = (pending = {})
  BY <1>1, <1>8 DEF Admin!Navigate
<1>10. ASSUME NEW t \in pending
       PROVE  Forgot(t, [t EXCEPT !.here = FALSE])
  <2>1. t \in Job /\ t.at = "asked" /\ Posting(t)
    BY <1>8 DEF Panel, Posting
  <2> QED BY <2>1 DEF Forgot, Job
<1>11. \A s \in tasks' : s = n \/ \E t \in tasks : Forgot(t, s)
  BY <1>8, <1>9, <1>10
<1>12. \A t \in tasks : t.at = "asked" /\ Posting(t) => \E s \in tasks' : Forgot(t, s)
  BY <1>8, <1>9, <1>10 DEF Posting
<1>13. patient' \in BOOLEAN /\ (patient' => \A s \in tasks' : s = n)
  BY <1>9
<1>14. /\ view' \in View /\ view'.rows = Unloaded /\ view'.loading /\ ~view'.saving
       /\ view'.draft = 0
       /\ ~view'.open /\ view'.active = NoUser /\ view'.form = NoUser /\ ~view'.cardsLoading
       /\ view'.cards.user = NoUser /\ view'.cards.rev = 0
  BY DEF Admin!Navigate, Admin!Mounted, View, Anyone, Ages
<1>15. /\ clicks < MaxClicks /\ clicks' = clicks + 1 /\ page' \in Admin!Pages
       /\ UNCHANGED <<rev, links, moved, made, unsure, typed>>
  BY DEF Admin!Navigate
<1>16. Orderly(n.todo) /\ Head(n.todo).kind = "list" /\ (\A k : Loads(n.todo, k) <=> k = "list")
  BY <1>3, <1>5, <1>7
<1>17. n \in tasks'
  BY <1>9
<1> QED BY <1>7, <1>11, <1>12, <1>13, <1>14, <1>15, <1>16, <1>17 DEF Departed

-----------------------------------------------------------------------------
(* The types of the panel.                                                  *)

\* The types are kept.
LEMMA PanelStep ==
  ASSUME Panel, Admin!Next
  PROVE  Panel'
<1>n. MaxDrafts \in Nat /\ MaxClicks \in Nat
  BY BrowserAssumption DEF Admin!AdminPagesAssumption
<1>1. ASSUME NEW n, Ran(n)
      PROVE  Panel'
  BY <1>1 DEF Ran, Panel
<1>2. ASSUME NEW n, Departed(n)
      PROVE  Panel'
  <2>1. ASSUME NEW s \in tasks'
        PROVE  s \in Job /\ Orderly(s.todo) /\ (~s.here => s.at = "asked")
    BY <1>2 DEF Departed, Forgot, Panel
  <2> QED BY <1>2, <2>1 DEF Departed, Panel
<1>3. CASE Admin!Fill
  <2>1. view' = [view EXCEPT !.draft = typed + 1] /\ typed' = typed + 1 /\ typed < MaxDrafts
        /\ patient' = (patient /\ tasks = {})
        /\ UNCHANGED <<page, tasks, rev, links, moved, made, unsure, clicks>>
    BY <1>3 DEF Admin!Fill
  <2>2. view' \in View /\ view'.open = view.open /\ view'.active = view.active
        /\ view'.form = view.form
    BY <2>1 DEF Panel, View
  <2>3. typed' \in 0 .. MaxDrafts
    BY <1>n, <2>1 DEF Panel
  <2> QED BY <2>1, <2>2, <2>3 DEF Panel
<1>4. CASE Admin!closeDrawer
  <2>1. view' = [view EXCEPT !.open = FALSE]
        /\ UNCHANGED <<page, tasks, rev, links, moved, made, unsure, clicks, typed, patient>>
    BY <1>4 DEF Admin!closeDrawer, Admin!server
  <2>2. view' \in View /\ ~view'.open
    BY <2>1 DEF Panel, View
  <2> QED BY <2>1, <2>2 DEF Panel
<1>5. ASSUME NEW u \in Users, Admin!EditUser(u)
      PROVE  Panel'
  <2>1. view' = [view EXCEPT !.form = u] /\ patient' = FALSE /\ view.open
        /\ UNCHANGED <<page, tasks, rev, links, moved, made, unsure, clicks, typed>>
    BY <1>5 DEF Admin!EditUser, Admin!server, Admin!InDrawer
  <2>2. view' \in View /\ view'.active = view.active /\ view'.form = u
    BY <2>1 DEF Panel, View, Anyone
  <2> QED BY <2>1, <2>2 DEF Panel
<1>6. ASSUME NEW t \in tasks, Admin!Deliver(t)
      PROVE  Panel'
  <2>1. t \in Job /\ Orderly(t.todo) /\ (~t.here => t.at = "asked")
    BY DEF Panel
  <2>2. Delivered(t)
    BY <1>6, Delivers
  <2>3. tasks' \subseteq Job /\ \A s \in tasks' : Orderly(s.todo) /\ (~s.here => s.at = "asked")
    <3>1. CASE Ended(t)
      BY <3>1 DEF Ended, Panel
    <3>2. ASSUME NEW n, Goes(t, n), Orderly(Tail(t.todo))
          PROVE  tasks' \subseteq Job /\ \A s \in tasks' : Orderly(s.todo) /\ (~s.here => s.at = "asked")
      BY <3>2 DEF Goes, Panel
    <3> QED BY <1>6, <3>1, <3>2, Delivers
  <2>4. patient' \in BOOLEAN
    BY <2>1, <2>2 DEF Delivered, Panel, Job
  <2>5. view' \in View /\ (view'.open => view'.active \in Users /\ view'.form \in Users)
    <3>1. view.open => view.active \in Users /\ view.form \in Users
      BY DEF Panel
    <3>2. t.at = "failed" \/ t.at = "served"
      BY <2>1, <2>2 DEF Delivered, Job
    <3>3. view'.open => view'.form \in Users
      <4>1. Head(t.todo).op = "save" => Head(t.todo).user \in Users
        BY <2>1, FirstStep DEF Proper
      <4> QED BY <2>2, <3>1, <3>2, <4>1 DEF Delivered
    <3> QED BY <2>2, <3>1, <3>3 DEF Delivered
  <2> QED BY <2>2, <2>3, <2>4, <2>5 DEF Delivered, Panel
<1>7. ASSUME NEW t \in tasks, NEW s, Answered(t, s)
      PROVE  /\ tasks' \subseteq Job /\ \A x \in tasks' : Orderly(x.todo) /\ (~x.here => x.at = "asked")
             /\ UNCHANGED <<page, view, typed, clicks, patient>>
  BY <1>7 DEF Answered, Panel
<1>8. ASSUME NEW t \in tasks, Admin!Refuse(t)
      PROVE  Panel'
  BY <1>7, <1>8, Refuses DEF Panel
<1>9. ASSUME NEW t \in tasks, NEW at \in {"served", "failed"}, Admin!Serve(t, at)
      PROVE  Panel'
  <2>1. CASE ~Posting(t)
    BY <1>7, <1>9, <2>1, Serves DEF Panel
  <2>2. CASE Posting(t)
    <3>1. /\ rev' \in [Admin!Pages -> Nat] /\ links' \in [Users -> Nat] /\ moved' \in BOOLEAN
          /\ made' \in [Admin!Drafts -> Nat] /\ unsure' \subseteq Admin!Drafts
      BY <1>9, <2>2, ServesPost DEF Panel
    <3> QED BY <1>7, <1>9, <3>1, Serves DEF Panel
  <2> QED BY <2>1, <2>2
<1> QED BY <1>1, <1>2, <1>3, <1>4, <1>5, <1>6, <1>8, <1>9, Clicks, Runs, Leaves

-----------------------------------------------------------------------------
(* Spinners and saves.                                                      *)

Spinning(v, todo) ==
  /\ v.loading => \E t \in todo : t.here /\ Head(t.todo).kind = "list"
  /\ v.cardsLoading => \E t \in todo : t.here /\ Head(t.todo).kind = "links"
  /\ v.saving <=> \E t \in todo : t.here /\ t.saves

\* SpinnersEnd, with its LET expanded.
LEMMA Spinners == Admin!SpinnersEnd <=> Spinning(view, tasks)
BY DEF Admin!SpinnersEnd, Spinning

\* A flag is set with its function and cleared with it; a save waits for the one before.
LEMMA SpinnersStep ==
  ASSUME Panel, Admin!SpinnersEnd, OneSave, Admin!Next
  PROVE  Admin!SpinnersEnd' /\ OneSave'
<1>w. Spinning(view, tasks)
  BY Spinners
<1>1. ASSUME NEW n, Ran(n)
      PROVE  Spinning(view, tasks)' /\ OneSave'
  BY <1>1, <1>w DEF Ran, Spinning, OneSave
<1>2. ASSUME NEW n, Departed(n)
      PROVE  Spinning(view, tasks)' /\ OneSave'
  <2>1. \A s \in tasks' : ~(s.here /\ s.saves)
    BY <1>2 DEF Departed, Forgot
  <2>2. /\ n \in tasks' /\ n.here /\ Head(n.todo).kind = "list" /\ ~view'.cardsLoading
        /\ ~view'.saving
    BY <1>2 DEF Departed
  <2> QED BY <2>1, <2>2 DEF Spinning, OneSave
<1>3. ASSUME UNCHANGED <<view.loading, view.cardsLoading, view.saving, tasks>>
      PROVE  Spinning(view, tasks)' /\ OneSave'
  BY <1>3, <1>w DEF Spinning, OneSave
<1>4. ASSUME Admin!Fill \/ Admin!closeDrawer \/ \E u \in Users : Admin!EditUser(u)
      PROVE  Spinning(view, tasks)' /\ OneSave'
  <2>1. UNCHANGED <<view.loading, view.cardsLoading, view.saving, tasks>>
    BY <1>4 DEF Admin!Fill, Admin!closeDrawer, Admin!EditUser, Panel, View
  <2> QED BY <1>3, <2>1
<1>5. ASSUME NEW t \in tasks, Admin!Deliver(t)
      PROVE  Spinning(view, tasks)' /\ OneSave'
  <2>1. t.here
    BY <1>5, Delivers DEF Delivered, Panel
  <2>2. CASE Ended(t)
    <3>1. view'.loading => \E x \in tasks' : x.here /\ Head(x.todo).kind = "list"
      BY <1>w, <2>2 DEF Ended, Spinning
    <3>2. view'.cardsLoading => \E x \in tasks' : x.here /\ Head(x.todo).kind = "links"
      BY <1>w, <2>2 DEF Ended, Spinning
    <3>3. view'.saving <=> \E x \in tasks' : x.here /\ x.saves
      BY <1>w, <2>1, <2>2 DEF Ended, Spinning, OneSave
    <3>4. OneSave'
      BY <2>2 DEF Ended, OneSave
    <3> QED BY <3>1, <3>2, <3>3, <3>4 DEF Spinning
  <2>3. ASSUME NEW n, Goes(t, n)
        PROVE  Spinning(view, tasks)' /\ OneSave'
    <3>0. n \in tasks' /\ n.here /\ n.saves = t.saves /\ tasks' = (tasks \ {t}) \cup {n}
      BY <2>1, <2>3 DEF Goes
    <3>1. view'.loading => \E x \in tasks' : x.here /\ Head(x.todo).kind = "list"
      BY <1>w, <2>3, <3>0 DEF Goes, Spinning
    <3>2. view'.cardsLoading => \E x \in tasks' : x.here /\ Head(x.todo).kind = "links"
      BY <1>w, <2>3, <3>0 DEF Goes, Spinning
    <3>3. view'.saving <=> \E x \in tasks' : x.here /\ x.saves
      BY <1>w, <2>1, <2>3, <3>0 DEF Goes, Spinning
    <3>4. OneSave'
      BY <2>1, <3>0 DEF OneSave
    <3> QED BY <3>1, <3>2, <3>3, <3>4 DEF Spinning
  <2> QED BY <1>5, <2>2, <2>3, Delivers
<1>6. ASSUME NEW t \in tasks, NEW s, Answered(t, s)
      PROVE  Spinning(view, tasks)' /\ OneSave'
  <2>0. /\ s.todo = t.todo /\ s.saves = t.saves /\ s.here = t.here /\ view' = view
        /\ t.here => tasks' = (tasks \ {t}) \cup {s}
        /\ ~t.here => tasks' = tasks \ {t}
    BY <1>6 DEF Answered
  <2>1. Spinning(view, tasks)'
    BY <1>w, <2>0 DEF Spinning
  <2>2. OneSave'
    BY <2>0 DEF OneSave
  <2> QED BY <2>1, <2>2
<1>7. Spinning(view, tasks)' /\ OneSave'
  BY <1>1, <1>2, <1>4, <1>5, <1>6, Clicks, Runs, Leaves, Refuses, Serves
<1> QED BY <1>7 DEF Admin!SpinnersEnd, Spinning

-----------------------------------------------------------------------------
(* What is typed is saved once.                                             *)

\* A step that leaves what has been saved as it is: nothing but the form and the
\* functions need be looked at.
LEMMA UnsavedKept ==
  ASSUME Panel, Unsaved, UNCHANGED <<page, typed, made, unsure>>,
         view'.draft \in {0, view.draft},
         \A s \in tasks' :
           \/ s \in tasks
           \/ s.draft = 0 /\ ~Posting(s)
           \/ \E t \in tasks : s.draft = t.draft /\ s.saves = t.saves /\ (s.here => t.here)
                               /\ s.todo = t.todo /\ s.at # "asked"
           \/ \E t \in tasks : s.draft = t.draft /\ s.saves = t.saves /\ ~Posting(s),
         view'.draft # 0 => \A t \in tasks : t.here /\ t.saves /\ Posting(t) /\ t.at = "served" => t \in tasks'
  PROVE  Unsaved'
<1>1. ASSUME NEW s \in tasks'
      PROVE  /\ s.draft <= typed
             /\ s.draft # 0 => s.saves
             /\ s.here /\ Posting(s) /\ Head(s.todo).op \in Admin!Lists => page = Head(s.todo).op
             /\ s.here /\ Posting(s) /\ s.at = "asked" /\ s.draft # 0 /\ page \in Admin!Lists =>
                  Clean(s.draft)
  <2>0. 0 <= typed
    BY DEF Panel
  <2> QED BY <2>0 DEF Unsaved, Posting
<1>2. view'.draft # 0 => (Clean(view.draft)' <=> Clean(view.draft))
  BY DEF Clean
<1>3. page \in Admin!Lists /\ view'.draft # 0 =>
        Clean(view.draft)' \/ \E t \in tasks' : t.here /\ t.saves /\ Posting(t) /\ t.at = "served"
  BY <1>2 DEF Unsaved
<1>4. view'.draft <= typed /\ (page \notin Admin!Lists \cup {"settings"} => view'.draft = 0)
  BY DEF Unsaved, Panel
<1>5. \A d \in Admin!Drafts : d > typed => made[d] = 0
  BY DEF Unsaved
<1>6. \A s \in tasks' : Clean(s.draft)' <=> Clean(s.draft)
  BY DEF Clean
<1>7. \A s : Posting(s)' <=> Posting(s)
  BY DEF Posting
<1> QED BY <1>1, <1>3, <1>4, <1>5, <1>6, <1>7 DEF Unsaved

\* A save empties the form it was made from before another can be made from it.
LEMMA UnsavedStep ==
  ASSUME Panel, Admin!SpinnersEnd, OneSave, Unsaved, Admin!SavedOnce, Admin!Next
  PROVE  Unsaved' /\ Admin!SavedOnce'
<1>n. MaxDrafts \in Nat /\ Admin!Drafts = 1 .. MaxDrafts /\ typed \in 0 .. MaxDrafts
  BY BrowserAssumption DEF Admin!AdminPagesAssumption, Admin!Drafts, Panel
<1>k. ASSUME UNCHANGED <<made, unsure>>
      PROVE  Admin!SavedOnce'
  BY <1>k DEF Admin!SavedOnce
<1>1. ASSUME NEW n, Ran(n)
      PROVE  Unsaved' /\ Admin!SavedOnce'
  <2>1. n.draft # 0 /\ page \in Admin!Lists => Clean(n.draft)
    <3>1. n.saves => \A t \in tasks : ~(t.here /\ t.saves)
      BY <1>1, Spinners DEF Ran, Spinning
    <3> QED BY <1>1, <3>1 DEF Ran, Unsaved
  <2>2. n.draft <= typed /\ (n.draft # 0 => n.saves)
    BY <1>1, <1>n DEF Ran, Unsaved
  <2>3. /\ tasks' = tasks \cup {n} /\ view'.draft = view.draft
        /\ UNCHANGED <<page, typed, made, unsure>>
        /\ Posting(n) /\ Head(n.todo).op \in Admin!Lists => page = Head(n.todo).op
    BY <1>1 DEF Ran
  <2>4. Unsaved'
    BY <2>1, <2>2, <2>3 DEF Unsaved, Clean, Posting
  <2> QED BY <1>k, <2>3, <2>4
<1>2. ASSUME NEW n, Departed(n)
      PROVE  Unsaved' /\ Admin!SavedOnce'
  <2>1. ASSUME NEW s \in tasks'
        PROVE  /\ s.draft <= typed /\ (s.draft # 0 => s.saves) /\ ~(s.here /\ Posting(s))
    <3>1. CASE s = n
      BY <1>2, <1>n, <3>1 DEF Departed, Posting
    <3>2. CASE s # n
      BY <1>2, <3>2 DEF Departed, Forgot, Unsaved
    <3> QED BY <3>1, <3>2
  <2>2. view'.draft = 0 /\ UNCHANGED <<typed, made, unsure>>
    BY <1>2 DEF Departed
  <2>3. Unsaved'
    BY <1>n, <2>1, <2>2 DEF Unsaved, Posting
  <2> QED BY <1>k, <2>2, <2>3
<1>3. ASSUME Admin!Fill
      PROVE  Unsaved' /\ Admin!SavedOnce'
  <2>1. view' = [view EXCEPT !.draft = typed + 1] /\ typed' = typed + 1 /\ typed < MaxDrafts
        /\ page \in Admin!Lists \cup {"settings"}
        /\ UNCHANGED <<page, tasks, made, unsure>>
    BY <1>3 DEF Admin!Fill
  <2>2. view'.draft = typed + 1
    BY <2>1 DEF Panel, View
  <2>3. made[typed + 1] = 0
    BY <1>n, <2>1 DEF Unsaved
  <2>4. ASSUME NEW t \in tasks
        PROVE  /\ t.draft <= typed + 1
               /\ t.draft # 0 => t.saves
               /\ t.here /\ Posting(t) /\ Head(t.todo).op \in Admin!Lists => page = Head(t.todo).op
               /\ t.here /\ Posting(t) /\ t.at = "asked" /\ t.draft # 0 /\ page \in Admin!Lists =>
                    Clean(t.draft)
    <3>1. t.draft \in Nat /\ t.draft <= typed
      BY DEF Unsaved, Panel, Job
    <3>2. t.draft <= typed + 1
      BY <1>n, <3>1
    <3> QED BY <3>2 DEF Unsaved
  <2>5. \A d \in Admin!Drafts : d > typed + 1 => made[d] = 0
    BY <1>n DEF Unsaved
  <2>6. Unsaved'
    BY <1>n, <2>1, <2>2, <2>3, <2>4, <2>5 DEF Unsaved, Clean, Posting
  <2> QED BY <1>k, <2>1, <2>6
<1>4. ASSUME Admin!closeDrawer \/ \E u \in Users : Admin!EditUser(u)
      PROVE  Unsaved' /\ Admin!SavedOnce'
  <2>1. UNCHANGED <<page, view.draft, tasks, typed, made, unsure>>
    BY <1>4 DEF Admin!closeDrawer, Admin!EditUser, Admin!server, Panel, View
  <2>2. Unsaved'
    BY <2>1, UnsavedKept
  <2> QED BY <1>k, <2>1, <2>2
<1>5. ASSUME NEW t \in tasks, Admin!Deliver(t)
      PROVE  Unsaved' /\ Admin!SavedOnce'
  <2>0. t \in Job /\ t.here /\ Orderly(t.todo)
    BY <1>5, Delivers DEF Delivered, Panel
  <2>1. Delivered(t)
    BY <1>5, Delivers
  <2>2. view'.draft \in {0, view.draft} /\ UNCHANGED <<page, typed, made, unsure>>
    BY <2>0, <2>1 DEF Delivered, Job
  <2>3. view'.draft # 0 /\ page \in Admin!Lists => ~(t.saves /\ Posting(t) /\ t.at = "served")
    BY <2>1 DEF Delivered
  <2>4. tasks' = tasks \ {t} \/ \E n : Goes(t, n) /\ ~Posting(n)
    <3>1. CASE Ended(t)
      BY <3>1 DEF Ended
    <3>2. ASSUME NEW n, Goes(t, n), Tail(t.todo) # <<>>
          PROVE  ~Posting(n)
      BY <2>0, <3>2, Rest DEF Goes, Posting
    <3> QED BY <1>5, <3>1, <3>2, Delivers
  <2>5. \A s \in tasks' :
          \/ s \in tasks
          \/ \E x \in tasks : s.draft = x.draft /\ s.saves = x.saves /\ ~Posting(s)
    BY <2>4 DEF Goes
  <2>6. \A x \in tasks : x # t => x \in tasks'
    BY <2>4 DEF Goes
  <2>7. CASE view'.draft = 0 \/ page \in Admin!Lists
    BY <1>k, <2>2, <2>3, <2>5, <2>6, <2>7, UnsavedKept
  <2>8. CASE page \notin Admin!Lists
    <3>1. Unsaved'
      <4>1. ASSUME NEW s \in tasks'
            PROVE  /\ s.draft <= typed
                   /\ s.draft # 0 => s.saves
                   /\ s.here /\ Posting(s) /\ Head(s.todo).op \in Admin!Lists => page = Head(s.todo).op
        BY <2>5 DEF Unsaved
      <4>2. view'.draft <= typed /\ (page \notin Admin!Lists \cup {"settings"} => view'.draft = 0)
        BY <1>n, <2>2 DEF Unsaved
      <4> QED BY <2>2, <2>8, <4>1, <4>2 DEF Unsaved, Posting
    <3> QED BY <1>k, <2>2, <3>1
  <2> QED BY <2>7, <2>8
<1>6. ASSUME NEW t \in tasks, NEW s, Answered(t, s), UNCHANGED <<made, unsure>>
      PROVE  Unsaved' /\ Admin!SavedOnce'
  <2>1. /\ UNCHANGED <<page, typed, view>> /\ t.at = "asked"
        /\ s.draft = t.draft /\ s.saves = t.saves /\ s.here = t.here /\ s.todo = t.todo /\ s.at # "asked"
        /\ tasks' = (tasks \ {t}) \cup {s} \/ tasks' = tasks \ {t}
    BY <1>6 DEF Answered, Panel, Job
  <2>2. \A x \in tasks' :
          \/ x \in tasks
          \/ \E y \in tasks : x.draft = y.draft /\ x.saves = y.saves /\ (x.here => y.here)
                              /\ x.todo = y.todo /\ x.at # "asked"
    BY <2>1
  <2>3. \A x \in tasks : x.at = "served" => x \in tasks'
    BY <2>1
  <2>4. Unsaved'
    BY <1>6, <2>1, <2>2, <2>3, UnsavedKept
  <2> QED BY <1>6, <1>k, <2>4
<1>7. ASSUME NEW t \in tasks, Admin!Refuse(t)
      PROVE  Unsaved' /\ Admin!SavedOnce'
  BY <1>6, <1>7, Refuses
<1>8. ASSUME NEW t \in tasks, NEW at \in {"served", "failed"}, Admin!Serve(t, at)
      PROVE  Unsaved' /\ Admin!SavedOnce'
  <2>1. CASE ~Posting(t)
    BY <1>6, <1>8, <2>1, Serves
  <2>2. CASE Posting(t)
    <3>1. PICK s : Answered(t, s) /\ s.at = at
      BY <1>8, Serves
    <3>2. /\ made' = [d \in Admin!Drafts |-> IF d # t.draft THEN made[d]
                                             ELSE IF Head(t.todo).op \in Admin!Lists
                                                  THEN made[d] + 1 ELSE 1]
          /\ unsure' = unsure \cup ({t.draft} \cap
                                      IF at = "failed" \/ ~t.here THEN Admin!Drafts ELSE {})
      BY <1>8, <2>2, ServesPost
    <3>3. /\ t.at = "asked" /\ UNCHANGED <<page, typed, view>>
          /\ s.draft = t.draft /\ s.saves = t.saves /\ s.here = t.here /\ s.todo = t.todo
          /\ t.here => tasks' = (tasks \ {t}) \cup {s}
          /\ ~t.here => tasks' = tasks \ {t}
      BY <3>1 DEF Answered
    <3>4. unsure \subseteq unsure' /\ unsure \subseteq Admin!Drafts /\ made \in [Admin!Drafts -> Nat]
      BY <3>2 DEF Panel
    <3>5. t.draft \in Nat /\ t.draft <= typed /\ (t.draft # 0 => t.saves /\ t.draft \in Admin!Drafts)
      BY <1>n DEF Unsaved, Panel, Job
    <3>6. \A d \in Admin!Drafts : d # t.draft => made'[d] = made[d]
      BY <3>2
    <3>7. t.draft # 0 /\ (at = "failed" \/ ~t.here) => t.draft \in unsure'
      BY <3>2, <3>5
    <3>8. t.here /\ Head(t.todo).op \in Admin!Lists => page = Head(t.todo).op
      BY <2>2 DEF Unsaved
    <3>9. Admin!SavedOnce'
      <4>1. SUFFICES ASSUME NEW d \in Admin!Drafts, made'[d] > 1
                     PROVE  d \in unsure'
        BY DEF Admin!SavedOnce
      <4>2. CASE d # t.draft
        BY <3>4, <3>6, <4>1, <4>2 DEF Admin!SavedOnce
      <4>3. CASE d = t.draft
        <5>1. Head(t.todo).op \in Admin!Lists /\ made'[d] = made[d] + 1
          BY <3>2, <4>1, <4>3
        <5>2. d # 0
          BY <1>n
        <5>3. t.here => Clean(t.draft)
          BY <2>2, <3>3, <3>8, <4>3, <5>1, <5>2 DEF Unsaved
        <5>4. CASE made[d] = 0
          BY <4>1, <5>1, <5>4
        <5> QED BY <3>4, <3>7, <4>3, <5>2, <5>3, <5>4 DEF Clean
      <4> QED BY <4>2, <4>3
    <3>10. \A d \in Admin!Drafts : Clean(d) => d = t.draft \/ Clean(d)'
      BY <3>4, <3>6 DEF Clean
    <3>11. ASSUME NEW x \in tasks'
           PROVE  /\ x.draft <= typed
                  /\ x.draft # 0 => x.saves
                  /\ x.here /\ Posting(x) /\ Head(x.todo).op \in Admin!Lists => page = Head(x.todo).op
                  /\ x.here /\ Posting(x) /\ x.at = "asked" /\ x.draft # 0 /\ page \in Admin!Lists =>
                       Clean(x.draft)'
      <4>1. CASE x = s
        BY <2>2, <3>1, <3>3, <3>5, <3>8, <4>1
      <4>2. CASE x # s
        <5>1. x \in tasks /\ x # t
          BY <3>3, <4>2
        <5>2. x.draft \in Nat /\ x.draft <= typed /\ (x.draft # 0 => x.draft \in Admin!Drafts)
          BY <1>n, <5>1 DEF Unsaved, Panel, Job
        <5>3. ASSUME x.here, Posting(x), x.at = "asked", x.draft # 0, page \in Admin!Lists
              PROVE  Clean(x.draft)'
          <6>1. Clean(x.draft) /\ x.saves
            BY <5>1, <5>3 DEF Unsaved
          <6>2. ~(t.here /\ t.saves)
            BY <5>1, <5>3, <6>1 DEF OneSave
          <6>3. x.draft = t.draft => x.draft \in unsure'
            BY <3>5, <3>7, <5>3, <6>2
          <6> QED BY <3>10, <5>2, <5>3, <6>1, <6>3 DEF Clean
        <5> QED BY <5>1, <5>3 DEF Unsaved
      <4> QED BY <4>1, <4>2
    <3>12. ASSUME page \in Admin!Lists, view.draft # 0
           PROVE  \/ Clean(view.draft)'
                  \/ \E x \in tasks' : x.here /\ x.saves /\ Posting(x) /\ x.at = "served"
      <4>1. view.draft \in Nat /\ view.draft <= typed
        BY DEF Unsaved, Panel, View
      <4>d. view.draft \in Admin!Drafts
        BY <1>n, <3>12, <4>1
      <4>2. CASE view.draft = t.draft
        <5>1. CASE at = "failed" \/ ~t.here
          <6>1. view.draft \in unsure'
            BY <3>7, <3>12, <4>2, <5>1
          <6> QED BY <3>3, <6>1 DEF Clean
        <5>2. CASE at = "served" /\ t.here
          BY <2>2, <3>1, <3>3, <3>5, <3>12, <4>2, <5>2 DEF Posting
        <5> QED BY <5>1, <5>2
      <4>3. CASE view.draft # t.draft
        <5>1. CASE Clean(view.draft)
          <6>1. made'[view.draft] = 0 \/ view.draft \in unsure'
            BY <3>4, <3>6, <4>3, <4>d, <5>1 DEF Clean
          <6> QED BY <3>3, <6>1 DEF Clean
        <5>2. CASE ~Clean(view.draft)
          <6>1. PICK x \in tasks : x.here /\ x.saves /\ Posting(x) /\ x.at = "served"
            BY <3>12, <5>2 DEF Unsaved
          <6> QED BY <3>3, <6>1
        <5> QED BY <5>1, <5>2
      <4> QED BY <4>2, <4>3
    <3>13. \A d \in Admin!Drafts : d > typed => made'[d] = 0
      BY <1>n, <3>5, <3>6 DEF Unsaved
    <3>14. Unsaved'
      <4>1. view.draft <= typed /\ (page \notin Admin!Lists \cup {"settings"} => view.draft = 0)
        BY DEF Unsaved
      <4> QED BY <3>3, <3>11, <3>12, <3>13, <4>1 DEF Unsaved, Posting
    <3> QED BY <3>9, <3>14
  <2> QED BY <2>1, <2>2
<1> QED BY <1>1, <1>2, <1>3, <1>4, <1>5, <1>7, <1>8, Clicks, Runs, Leaves

-----------------------------------------------------------------------------
(* What a patient admin sees.                                               *)

\* The same function, with the same to do.
LEMMA TruthKept ==
  ASSUME Panel, Truth, UNCHANGED <<page, view, rev, links>>,
         NEW t \in tasks, NEW s, tasks' = {s}, s.todo = t.todo, s.here,
         s.at = "served" =>
           /\ Head(s.todo).kind = "list" => s.rev = rev[page]
           /\ Head(s.todo).kind = "links" => s.rev = links[Head(s.todo).user]
  PROVE  Truth'
<1>1. tasks = {t}
  BY DEF Truth
<1>2. \A k : Loads(s.todo, k) <=> Loads(t.todo, k)
  OBVIOUS
<1>3. Thorough(s.todo, view.active)
  BY DEF Truth
<1> QED BY <1>1, <1>2, <1>3 DEF Truth

\* What is changed is loaded again before the function of a patient admin ends.
LEMMA TruthStep ==
  ASSUME Panel, patient => Truth, Admin!Next, patient'
  PROVE  Truth'
<1>n. NoUser \notin Users
  BY BrowserAssumption DEF Admin!AdminPagesAssumption
<1>1. ASSUME NEW n, Ran(n)
      PROVE  Truth'
  <2>1. /\ tasks = {} /\ Truth /\ tasks' = {n} /\ n.here /\ n.at = "asked"
        /\ UNCHANGED <<page, rev, links>> /\ view'.rows = view.rows /\ view'.cards = view.cards
    BY <1>1 DEF Ran
  <2>2. /\ view.rows = rev[page]
        /\ view.active # NoUser =>
             /\ view.form = view.active
             /\ view.cards = [user |-> view.active, rev |-> links[view.active]]
    BY <2>1 DEF Truth
  <2>3. view.active # NoUser => view.cards.user \in {view.active, NoUser}
    BY <2>2
  <2>4. /\ Thorough(n.todo, view'.active)
        /\ view'.active # NoUser => view'.form = view'.active
        /\ view'.active \in {view.active, NoUser} \/ Loads(n.todo, "links")
    BY <1>1, <2>2, <2>3 DEF Ran
  <2> QED BY <2>1, <2>2, <2>4 DEF Truth
<1>2. ASSUME NEW n, Departed(n)
      PROVE  Truth'
  <2>1. tasks' = {n} /\ n.here /\ n.at = "asked" /\ view'.active = NoUser /\ Loads(n.todo, "list")
    BY <1>2 DEF Departed
  <2>2. Thorough(n.todo, NoUser)
    BY <1>2 DEF Departed, Thorough, Loads
  <2> QED BY <2>1, <2>2 DEF Truth
<1>3. ASSUME UNCHANGED <<page, view.rows, view.active, view.form, view.cards, tasks, rev, links>>, Truth
      PROVE  Truth'
  BY <1>3 DEF Truth
<1>4. ASSUME Admin!Fill \/ Admin!closeDrawer \/ \E u \in Users : Admin!EditUser(u)
      PROVE  Truth'
  <2>1. Truth
    BY <1>4 DEF Admin!Fill, Admin!closeDrawer, Admin!EditUser
  <2>2. UNCHANGED <<page, view.rows, view.active, view.form, view.cards, tasks, rev, links>>
    BY <1>4 DEF Admin!Fill, Admin!closeDrawer, Admin!EditUser, Admin!server, Panel, View
  <2> QED BY <1>3, <2>1, <2>2
<1>5. ASSUME NEW t \in tasks, Admin!Deliver(t)
      PROVE  Truth'
  <2>0. t \in Job /\ Orderly(t.todo) /\ t.at \in {"asked", "served", "failed"}
    BY DEF Panel, Job
  <2>1. Delivered(t)
    BY <1>5, Delivers
  <2>2. t.at = "served" /\ Truth /\ UNCHANGED <<page, rev, links, view.active>>
    BY <2>0, <2>1 DEF Delivered
  <2>3. tasks = {t} /\ t.here /\ Thorough(t.todo, view.active)
    BY <2>2 DEF Truth
  <2>a. PICK a : a = Head(t.todo)
    OBVIOUS
  <2>4. /\ a.kind = "links" => a.user = view.active
        /\ Posting(t) /\ a.op = "save" => a.user = view.active
    BY <2>0, <2>3, <2>a, FirstStep DEF Thorough, Posting
  <2>5. /\ a.kind = "list" => view'.rows = rev[page]
        /\ a.kind # "list" => view'.rows = view.rows
        /\ a.kind = "links" => view'.cards = [user |-> view.active, rev |-> links[view.active]]
        /\ a.kind # "links" => view'.cards = view.cards
        /\ view.active # NoUser => view'.form = view.active
    BY <2>1, <2>2, <2>4, <2>a DEF Delivered, Truth
  <2>6. CASE Ended(t) /\ Tail(t.todo) = <<>>
    <3>1. tasks' = {}
      BY <2>3, <2>6 DEF Ended
    <3>2. \A k : Loads(t.todo, k) <=> a.kind = k
      BY <2>0, <2>6, <2>a, Last
    <3>3. a.kind # "list" => view.rows = rev[page]
      BY <2>2, <2>3, <3>2 DEF Truth
    <3>4. a.kind # "links" /\ view.active # NoUser =>
            view.cards = [user |-> view.active, rev |-> links[view.active]]
      BY <2>2, <2>3, <3>2 DEF Truth
    <3> QED BY <2>2, <2>5, <3>1, <3>3, <3>4 DEF Truth
  <2>7. ASSUME NEW n, Goes(t, n), Tail(t.todo) # <<>>
        PROVE  Truth'
    <3>1. tasks' = {n} /\ n.here /\ n.at = "asked" /\ n.todo = Tail(t.todo)
      BY <2>3, <2>7 DEF Goes
    <3>2. /\ \A k : Loads(t.todo, k) <=> a.kind = k \/ Loads(n.todo, k)
          /\ Head(n.todo).kind # "post"
          /\ \A i \in 1 .. Len(n.todo) : i + 1 \in 1 .. Len(t.todo) /\ n.todo[i] = t.todo[i + 1]
      BY <2>0, <2>7, <2>a, <3>1, Rest
    <3>3. ~Loads(n.todo, "list") /\ a.kind # "list" => view.rows = rev[page]
      BY <2>2, <2>3, <3>2 DEF Truth
    <3>4. ~Loads(n.todo, "links") /\ a.kind # "links" /\ view.active # NoUser =>
            view.cards = [user |-> view.active, rev |-> links[view.active]]
      BY <2>2, <2>3, <3>2 DEF Truth
    <3>5. Thorough(n.todo, view.active)
      BY <2>3, <3>2 DEF Thorough
    <3> QED BY <2>2, <2>5, <3>1, <3>3, <3>4, <3>5 DEF Truth
  <2> QED BY <1>5, <2>2, <2>6, <2>7, Delivers
<1>6. ASSUME NEW t \in tasks, NEW s, Answered(t, s), UNCHANGED <<rev, links>>,
             s.at = "served" =>
               /\ Head(s.todo).kind = "list" => s.rev = rev[page]
               /\ Head(s.todo).kind = "links" => s.rev = links[Head(s.todo).user]
      PROVE  Truth'
  <2>1. Truth /\ s.todo = t.todo /\ s.here = t.here /\ UNCHANGED <<page, view>>
    BY <1>6 DEF Answered
  <2>2. tasks = {t} /\ t.here
    BY <2>1 DEF Truth
  <2>3. tasks' = {s}
    BY <1>6, <2>2 DEF Answered
  <2> QED BY <1>6, <2>1, <2>2, <2>3, TruthKept
<1>7. ASSUME NEW t \in tasks, Admin!Refuse(t)
      PROVE  Truth'
  BY <1>6, <1>7, Refuses
<1>8. ASSUME NEW t \in tasks, NEW at \in {"served", "failed"}, Admin!Serve(t, at)
      PROVE  Truth'
  <2>0. t \in Job /\ Orderly(t.todo)
    BY DEF Panel
  <2>a. PICK a : a = Head(t.todo)
    OBVIOUS
  <2>s. PICK s : /\ Answered(t, s) /\ s.at = at
                 /\ Head(t.todo).kind = "list" => s.rev = rev[page]
                 /\ Head(t.todo).kind = "links" => s.rev = links[Head(t.todo).user]
    BY <1>8, Serves
  <2>1. CASE ~Posting(t)
    <3>1. UNCHANGED <<rev, links>> /\ s.todo = t.todo
      BY <1>8, <2>1, <2>s, Serves DEF Answered
    <3> QED BY <1>6, <2>s, <3>1
  <2>2. CASE Posting(t)
    <3>1. Truth /\ s.todo = t.todo /\ s.here = t.here /\ UNCHANGED <<page, view>>
      BY <2>s DEF Answered
    <3>2. tasks = {t} /\ t.here /\ Thorough(t.todo, view.active)
      BY <3>1 DEF Truth
    <3>3. tasks' = {s} /\ s.here
      BY <2>s, <3>1, <3>2 DEF Answered
    <3>4. Loads(s.todo, "list") /\ Head(s.todo).kind = "post"
      BY <2>2, <3>1, <3>2 DEF Thorough, Posting
    <3>5. ASSUME view.active # NoUser, ~Loads(s.todo, "links")
          PROVE  links'[view.active] = links[view.active]
      <4>1. ~(a.user = view.active /\ a.op # "ban")
        BY <2>2, <2>a, <3>1, <3>2, <3>5 DEF Thorough, Posting
      <4>2. view.active \in Users
        BY <3>5 DEF Panel, View, Anyone
      <4>3. links' = [u \in Users |-> IF u = a.user /\ a.op # "ban"
                                      THEN links[u] + 1 ELSE links[u]]
        BY <1>8, <2>2, <2>a, ServesPost
      <4> QED BY <4>1, <4>2, <4>3
    <3>6. view.active # NoUser => view.form = view.active
      BY <3>1 DEF Truth
    <3>7. view.active # NoUser /\ ~Loads(s.todo, "links") =>
            view.cards = [user |-> view.active, rev |-> links[view.active]]
      BY <3>1, <3>2 DEF Truth
    <3>8. Thorough(s.todo, view.active)
      BY <3>1, <3>2
    <3> QED BY <3>1, <3>3, <3>4, <3>5, <3>6, <3>7, <3>8 DEF Truth
  <2> QED BY <2>1, <2>2
<1> QED BY <1>1, <1>2, <1>4, <1>5, <1>7, <1>8, Clicks, Runs, Leaves

-----------------------------------------------------------------------------
(* How often a list has changed.                                            *)

\* There are finitely many changes under way.
LEMMA PostedIs ==
  ASSUME Panel, Ticketed
  PROVE  IsFiniteSet(Posted) /\ Cardinality(Posted) \in Nat
<1>1. clicks \in Nat /\ IsFiniteSet(0 .. clicks)
  BY FS_Interval DEF Panel
<1>2. Posted \subseteq 0 .. clicks
  BY DEF Posted, Ticketed
<1> QED BY <1>1, <1>2, FS_Subset, FS_CardinalityType

\* One function takes the place of another, or of none.
LEMMA TicketPasses ==
  ASSUME Ticketed, NEW t \in tasks, NEW s, s.id = t.id, ~(s.at = "asked" /\ Posting(s)),
         tasks' = tasks \ {t} \/ tasks' = (tasks \ {t}) \cup {s}
  PROVE  /\ \A x \in tasks' : x.id \in 0 .. clicks
         /\ \A x, y \in tasks' : x.id = y.id => x = y
         /\ Posted' \subseteq Posted /\ t.id \notin Posted'
<1>0. \A x \in tasks' : x = s \/ (x \in tasks /\ x # t)
  OBVIOUS
<1>1. \A x \in tasks' : x.id \in 0 .. clicks
  BY <1>0 DEF Ticketed
<1>2. \A x, y \in tasks' : x.id = y.id => x = y
  BY <1>0 DEF Ticketed
<1>3. ASSUME NEW i \in Posted'
      PROVE  i \in Posted /\ i # t.id
  <2>1. PICK x \in tasks' : x.id = i /\ x.at = "asked" /\ Posting(x)
    BY <1>3 DEF Posted, Posting
  <2>2. x \in tasks /\ x # t
    BY <1>0, <2>1
  <2>3. x.id # t.id
    BY <2>2 DEF Ticketed
  <2> QED BY <2>1, <2>2, <2>3 DEF Posted
<1> QED BY <1>1, <1>2, <1>3

\* No list has changed.
LEMMA SpareStays ==
  ASSUME Panel, Ticketed, Spare, UNCHANGED <<rev, links>>,
         \/ clicks' = clicks /\ Posted' \subseteq Posted
         \/ clicks' = clicks + 1 /\ clicks < MaxClicks /\ Posted' \subseteq Posted \cup {clicks + 1}
  PROVE  Spare'
<1>0. /\ clicks \in Nat /\ clicks <= MaxClicks /\ MaxClicks \in Nat
      /\ rev \in [Admin!Pages -> Nat] /\ links \in [Users -> Nat]
  BY BrowserAssumption DEF Admin!AdminPagesAssumption, Panel, Spare
<1>1. IsFiniteSet(Posted) /\ Cardinality(Posted) \in Nat
  BY PostedIs
<1>2. /\ Cardinality(Posted') \in Nat /\ clicks' <= MaxClicks
      /\ Cardinality(Posted') + clicks <= Cardinality(Posted) + clicks' /\ clicks' \in Nat
  <2>1. CASE clicks' = clicks /\ Posted' \subseteq Posted
    <3>1. Cardinality(Posted') <= Cardinality(Posted) /\ Cardinality(Posted') \in Nat
      BY <1>1, <2>1, FS_Subset, FS_CardinalityType
    <3> QED BY <1>0, <1>1, <2>1, <3>1
  <2>2. CASE clicks' = clicks + 1 /\ clicks < MaxClicks /\ Posted' \subseteq Posted \cup {clicks + 1}
    <3>1. PICK W : W = Posted \cup {clicks + 1}
      OBVIOUS
    <3>2. IsFiniteSet(W) /\ Cardinality(W) \in {Cardinality(Posted), Cardinality(Posted) + 1}
      BY <1>1, <3>1, FS_AddElement
    <3>3. Cardinality(Posted') <= Cardinality(W) /\ Cardinality(Posted') \in Nat
      BY <2>2, <3>1, <3>2, FS_Subset, FS_CardinalityType
    <3> QED BY <1>0, <1>1, <2>2, <3>2, <3>3
  <2> QED BY <2>1, <2>2
<1>3. ASSUME NEW x \in Nat, x + Cardinality(Posted) <= clicks
      PROVE  x + Cardinality(Posted') <= clicks'
  BY <1>0, <1>1, <1>2, <1>3
<1>4. /\ \A p \in Admin!Pages : rev'[p] + Cardinality(Posted') <= clicks'
      /\ \A u \in Users : links'[u] + Cardinality(Posted') <= clicks'
  BY <1>0, <1>3 DEF Spare
<1> QED BY <1>2, <1>4 DEF Spare

\* What there is can be shown.
LEMMA RevsCounted ==
  ASSUME Panel, Ticketed, Spare
  PROVE  rev \in [Admin!Pages -> 0 .. MaxClicks] /\ links \in [Users -> 0 .. MaxClicks]
<1>1. /\ clicks \in Nat /\ clicks <= MaxClicks /\ MaxClicks \in Nat
      /\ rev \in [Admin!Pages -> Nat] /\ links \in [Users -> Nat]
  BY BrowserAssumption DEF Admin!AdminPagesAssumption, Panel, Spare
<1>2. Cardinality(Posted) \in Nat
  BY PostedIs
<1>3. ASSUME NEW x \in Nat, x + Cardinality(Posted) <= clicks
      PROVE  x \in 0 .. MaxClicks
  BY <1>1, <1>2, <1>3
<1>4. \A p \in Admin!Pages : rev[p] \in 0 .. MaxClicks
  BY <1>1, <1>3 DEF Spare
<1>5. \A u \in Users : links[u] \in 0 .. MaxClicks
  BY <1>1, <1>3 DEF Spare
<1> QED BY <1>1, <1>4, <1>5

\* A change takes its click with it.
LEMMA TalliedStep ==
  ASSUME Panel, Tallied, Admin!Next
  PROVE  Tallied'
<1>t. Ticketed /\ Spare /\ Recent
  BY DEF Tallied
<1>m. MaxClicks \in Nat /\ clicks \in Nat /\ 0 \in 0 .. MaxClicks /\ clicks <= MaxClicks
  BY <1>t, BrowserAssumption DEF Admin!AdminPagesAssumption, Panel, Spare
<1>1. ASSUME NEW n, Ran(n)
      PROVE  Tallied'
  <2>1. /\ n.id = clicks + 1 /\ n.rev = 0 /\ tasks' = tasks \cup {n}
        /\ clicks' = clicks + 1 /\ clicks < MaxClicks
        /\ UNCHANGED <<rev, links>> /\ view'.rows = view.rows /\ view'.cards = view.cards
    BY <1>1 DEF Ran
  <2>2. ASSUME NEW x \in tasks
        PROVE  x.id \in 0 .. clicks /\ x.id \in 0 .. clicks' /\ x.id # n.id
    BY <1>m, <1>t, <2>1 DEF Ticketed
  <2>3. n.id \in 0 .. clicks'
    BY <1>m, <2>1
  <2>4. Ticketed'
    BY <1>t, <2>1, <2>2, <2>3 DEF Ticketed
  <2>5. Posted' \subseteq Posted \cup {clicks + 1}
    BY <2>1 DEF Posted, Posting
  <2>6. Spare'
    BY <1>t, <2>1, <2>5, SpareStays
  <2>7. Recent'
    BY <1>m, <1>t, <2>1 DEF Recent
  <2> QED BY <2>4, <2>6, <2>7 DEF Tallied
<1>2. ASSUME NEW n, Departed(n)
      PROVE  Tallied'
  <2>1. /\ n.id = clicks + 1 /\ n.rev = 0 /\ ~Posting(n)
        /\ \A s \in tasks' : s = n \/ \E t \in tasks : Forgot(t, s)
        /\ clicks' = clicks + 1 /\ clicks < MaxClicks
        /\ UNCHANGED <<rev, links>> /\ view'.rows = Unloaded /\ view'.cards.rev = 0
    BY <1>2 DEF Departed, Posting
  <2>2. ASSUME NEW t \in tasks, NEW s, Forgot(t, s)
        PROVE  /\ s.id = t.id /\ s.rev = t.rev /\ t.at = "asked" /\ Posting(t)
               /\ s = [t EXCEPT !.here = FALSE]
               /\ t.id \in 0 .. clicks /\ t.id \in 0 .. clicks' /\ t.id # n.id
    BY <1>m, <1>t, <2>1, <2>2 DEF Ticketed, Forgot
  <2>3. n.id \in 0 .. clicks'
    BY <1>m, <2>1
  <2>4. \A x \in tasks' : x.id \in 0 .. clicks'
    BY <2>1, <2>2, <2>3
  <2>5. ASSUME NEW x \in tasks', NEW y \in tasks', x.id = y.id
        PROVE  x = y
    <3>1. CASE x = n \/ y = n
      BY <2>1, <2>2, <2>5, <3>1
    <3>2. CASE x # n /\ y # n
      <4>1. PICK t \in tasks : Forgot(t, x)
        BY <2>1, <3>2
      <4>2. PICK r \in tasks : Forgot(r, y)
        BY <2>1, <3>2
      <4>3. t = r
        BY <1>t, <2>2, <2>5, <4>1, <4>2 DEF Ticketed
      <4>4. x = [t EXCEPT !.here = FALSE] /\ y = [r EXCEPT !.here = FALSE]
        BY <2>2, <4>1, <4>2
      <4> QED BY <4>3, <4>4, Zenon
    <3> QED BY <3>1, <3>2
  <2>6. Ticketed'
    BY <2>4, <2>5 DEF Ticketed
  <2>7. ASSUME NEW i \in Posted'
        PROVE  i \in Posted
    <3>1. PICK x \in tasks' : x.id = i /\ x.at = "asked" /\ Posting(x)
      BY <2>7 DEF Posted, Posting
    <3>2. PICK t \in tasks : Forgot(t, x)
      BY <2>1, <3>1
    <3>3. t.id = i /\ t.at = "asked" /\ Posting(t)
      BY <2>2, <3>1, <3>2
    <3> QED BY <3>3 DEF Posted
  <2>8. Spare'
    BY <1>t, <2>1, <2>7, SpareStays
  <2>9. Recent'
    <3>1. \A x \in tasks' : x.rev \in 0 .. MaxClicks
      BY <1>m, <1>t, <2>1, <2>2 DEF Recent
    <3> QED BY <1>m, <2>1, <3>1 DEF Recent
  <2> QED BY <2>6, <2>8, <2>9 DEF Tallied
<1>3. ASSUME UNCHANGED <<view.rows, view.cards, tasks, rev, links, clicks>>
      PROVE  Tallied'
  <2>1. Posted' = Posted
    BY <1>3 DEF Posted
  <2> QED BY <1>3, <1>t, <2>1 DEF Tallied, Ticketed, Spare, Recent
<1>4. ASSUME Admin!Fill \/ Admin!closeDrawer \/ \E u \in Users : Admin!EditUser(u)
      PROVE  Tallied'
  <2>1. UNCHANGED <<view.rows, view.cards, tasks, rev, links, clicks>>
    BY <1>4 DEF Admin!Fill, Admin!closeDrawer, Admin!EditUser, Admin!server, Panel, View
  <2> QED BY <1>3, <2>1
\* One function takes the place of another.
<1>5. ASSUME NEW t \in tasks, NEW s, s.id = t.id, ~(s.at = "asked" /\ Posting(s)),
             s.rev \in 0 .. MaxClicks,
             tasks' = tasks \ {t} \/ tasks' = (tasks \ {t}) \cup {s},
             UNCHANGED clicks, Spare',
             view'.rows \in 0 .. MaxClicks \cup {Unloaded}, view'.cards.rev \in 0 .. MaxClicks
      PROVE  Tallied'
  <2>1. Ticketed'
    BY <1>5, <1>t, TicketPasses DEF Ticketed
  <2>2. Recent'
    BY <1>5, <1>t DEF Recent
  <2> QED BY <1>5, <2>1, <2>2 DEF Tallied
<1>6. ASSUME NEW t \in tasks, Admin!Deliver(t)
      PROVE  Tallied'
  <2>0. t \in Job /\ Orderly(t.todo) /\ t.rev \in 0 .. MaxClicks
    BY <1>t DEF Panel, Recent
  <2>1. Delivered(t)
    BY <1>6, Delivers
  <2>2. /\ UNCHANGED <<clicks, rev, links>> /\ t.at # "asked"
        /\ view'.rows \in {t.rev, view.rows}
        /\ view'.cards = view.cards \/ view'.cards = [user |-> Head(t.todo).user, rev |-> t.rev]
    BY <2>0, <2>1 DEF Delivered, Job
  <2>3. view'.rows \in 0 .. MaxClicks \cup {Unloaded} /\ view'.cards.rev \in 0 .. MaxClicks
    BY <1>t, <2>0, <2>2 DEF Recent
  <2>4. CASE Ended(t)
    <3>1. tasks' = tasks \ {t}
      BY <2>4 DEF Ended
    <3>2. Posted' \subseteq Posted
      BY <1>t, <2>2, <3>1, TicketPasses
    <3>3. Spare'
      BY <1>t, <2>2, <3>2, SpareStays
    <3> QED BY <1>5, <2>0, <2>2, <2>3, <3>1, <3>3
  <2>5. ASSUME NEW n, Goes(t, n), Tail(t.todo) # <<>>
        PROVE  Tallied'
    <3>1. /\ n.id = t.id /\ n.rev = 0 /\ tasks' = (tasks \ {t}) \cup {n}
      BY <2>5 DEF Goes
    <3>n. ~Posting(n)
      BY <2>0, <2>5, Rest DEF Goes, Posting
    <3>2. Posted' \subseteq Posted
      BY <1>t, <3>1, <3>n, TicketPasses
    <3>3. Spare'
      BY <1>t, <2>2, <3>2, SpareStays
    <3> QED BY <1>5, <1>m, <2>2, <2>3, <3>1, <3>3, <3>n
  <2> QED BY <1>6, <2>4, <2>5, Delivers
<1>7. ASSUME NEW t \in tasks, NEW s, Answered(t, s), UNCHANGED <<rev, links>>,
             s.rev \in 0 .. MaxClicks
      PROVE  Tallied'
  <2>1. /\ s.id = t.id /\ s.at # "asked" /\ UNCHANGED <<view, clicks>>
        /\ tasks' = tasks \ {t} \/ tasks' = (tasks \ {t}) \cup {s}
    BY <1>7 DEF Answered, Panel, Job
  <2>2. Posted' \subseteq Posted
    BY <1>t, <2>1, TicketPasses
  <2>3. Spare'
    BY <1>7, <1>t, <2>1, <2>2, SpareStays
  <2> QED BY <1>5, <1>7, <1>t, <2>1, <2>3 DEF Recent
<1>8. ASSUME NEW t \in tasks, Admin!Refuse(t)
      PROVE  Tallied'
  BY <1>7, <1>8, <1>m, Refuses
<1>9. ASSUME NEW t \in tasks, NEW at \in {"served", "failed"}, Admin!Serve(t, at)
      PROVE  Tallied'
  <2>0. t \in Job /\ Head(t.todo) \in Step /\ Proper(Head(t.todo))
    BY FirstStep DEF Panel
  <2>s. PICK s : /\ Answered(t, s) /\ s.at = at
                 /\ Posting(t) => s.rev = 0
                 /\ Head(t.todo).kind = "list" => s.rev = rev[page]
                 /\ Head(t.todo).kind = "links" => s.rev = links[Head(t.todo).user]
    BY <1>9, Serves
  <2>1. CASE ~Posting(t)
    <3>1. UNCHANGED <<rev, links>>
      BY <1>9, <2>1, Serves
    <3>2. s.rev \in 0 .. MaxClicks
      <4>1. CASE Head(t.todo).kind = "list"
        BY <1>t, <2>s, <4>1, RevsCounted DEF Panel
      <4>2. CASE Head(t.todo).kind = "links"
        BY <1>t, <2>0, <2>s, <4>2, RevsCounted DEF Proper
      <4> QED BY <2>0, <2>1, <4>1, <4>2 DEF Posting, Step
    <3> QED BY <1>7, <2>s, <3>1, <3>2
  <2>2. CASE Posting(t)
    <3>1. /\ s.id = t.id /\ s.at # "asked" /\ t.at = "asked" /\ UNCHANGED <<view, clicks>>
          /\ tasks' = tasks \ {t} \/ tasks' = (tasks \ {t}) \cup {s}
      BY <2>s DEF Answered
    <3>2. t.id \in Posted
      BY <2>2, <3>1 DEF Posted
    <3>3. Posted' \subseteq Posted /\ t.id \notin Posted'
      BY <1>t, <3>1, TicketPasses
    <3>4. IsFiniteSet(Posted) /\ Cardinality(Posted) \in Nat
      BY <1>t, PostedIs
    <3>5. PICK W : W = Posted \ {t.id}
      OBVIOUS
    <3>6. IsFiniteSet(W) /\ Cardinality(W) = Cardinality(Posted) - 1
      BY <3>2, <3>4, <3>5, FS_RemoveElement
    <3>7. Cardinality(Posted') <= Cardinality(W) /\ Cardinality(Posted') \in Nat
      BY <3>3, <3>5, <3>6, FS_Subset, FS_CardinalityType
    <3>8. /\ \A p \in Admin!Pages : rev[p] \in Nat /\ rev'[p] \in {rev[p], rev[p] + 1}
          /\ \A u \in Users : links[u] \in Nat /\ links'[u] \in {links[u], links[u] + 1}
      BY <1>9, <2>2, ServesPost DEF Panel
    <3>9. ASSUME NEW x \in Nat, NEW y \in {x, x + 1}, x + Cardinality(Posted) <= clicks
          PROVE  y + Cardinality(Posted') <= clicks
      BY <1>m, <3>4, <3>6, <3>7, <3>9
    <3>10. /\ \A p \in Admin!Pages : rev'[p] + Cardinality(Posted') <= clicks
           /\ \A u \in Users : links'[u] + Cardinality(Posted') <= clicks
      BY <1>t, <3>8, <3>9 DEF Spare
    <3>11. Spare'
      BY <1>m, <3>1, <3>10 DEF Spare
    <3> QED BY <1>5, <1>m, <1>t, <2>2, <2>s, <3>1, <3>11 DEF Recent
  <2> QED BY <2>1, <2>2
<1> QED BY <1>1, <1>2, <1>4, <1>6, <1>8, <1>9, Clicks, Runs, Leaves

-----------------------------------------------------------------------------
(* The panel begins so, and what follows from it.                           *)

\* A page that is mounted loads its list.
LEMMA AdminBegins ==
  ASSUME Admin!Init
  PROVE  /\ Panel /\ Admin!SpinnersEnd /\ OneSave /\ Unsaved /\ Admin!SavedOnce
         /\ Truth /\ Tallied
<1>m. MaxClicks \in Nat /\ MaxDrafts \in Nat
  BY BrowserAssumption DEF Admin!AdminPagesAssumption
<1>1. PICK a : a = Admin!LoadList
  OBVIOUS
<1>2. a \in Step /\ a.kind = "list" /\ Proper(a)
  <2>1. "load" \in Ops /\ NoUser \in Anyone
    BY DEF Ops, Anyone
  <2> QED BY <1>1, <2>1, StepTypes
<1>3. PICK o : o = <<a>>
  OBVIOUS
<1>4. Orderly(o) /\ Head(o) = a /\ \A k : Loads(o, k) <=> k = "list"
  BY <1>2, <1>3, OneStep
<1>5. o \in Seq(Step)
  BY <1>4 DEF Orderly
<1>6. PICK e : e = Admin!Task(<<Admin!LoadList>>, FALSE, 0)
  OBVIOUS
<1>7. e \in Job /\ e.todo = o /\ e.at = "asked" /\ e.rev = 0 /\ ~e.saves /\ e.draft = 0 /\ e.here
  BY <1>1, <1>3, <1>5, <1>6 DEF Admin!Task, Job, Admin!Init
<1>8. PICK t : t = [e EXCEPT !.id = 0]
  OBVIOUS
<1>9. /\ t \in Job /\ t.todo = o /\ t.at = "asked" /\ t.rev = 0 /\ ~t.saves /\ t.draft = 0
      /\ t.here /\ t.id = 0
  BY <1>7, <1>8 DEF Job
<1>10. /\ tasks = {t} /\ page \in Admin!Pages /\ clicks = 0 /\ rev = [p \in Admin!Pages |-> 0]
       /\ links = [u \in Users |-> 0] /\ moved = FALSE /\ made = [d \in Admin!Drafts |-> 0]
       /\ unsure = {} /\ typed = 0 /\ patient = TRUE
  BY <1>6, <1>8 DEF Admin!Init
<1>11. /\ view \in View /\ view.rows = Unloaded /\ view.loading /\ ~view.saving /\ view.draft = 0
       /\ ~view.open /\ view.active = NoUser /\ view.form = NoUser /\ ~view.cardsLoading
       /\ view.cards.rev = 0
  BY DEF Admin!Init, Admin!Mounted, View, Anyone, Ages
<1>12. Head(t.todo).kind = "list" /\ ~Posting(t)
  BY <1>2, <1>4, <1>9 DEF Posting
<1>13. Panel
  <2>1. /\ rev \in [Admin!Pages -> Nat] /\ links \in [Users -> Nat]
        /\ made \in [Admin!Drafts -> Nat] /\ unsure \subseteq Admin!Drafts
        /\ typed \in 0 .. MaxDrafts /\ clicks \in Nat
    BY <1>10, <1>m
  <2>2. tasks \subseteq Job /\ \A x \in tasks : Orderly(x.todo) /\ (~x.here => x.at = "asked")
    BY <1>4, <1>9, <1>10
  <2> QED BY <1>10, <1>11, <2>1, <2>2 DEF Panel
<1>14. Admin!SpinnersEnd /\ OneSave
  BY <1>9, <1>10, <1>11, <1>12 DEF Admin!SpinnersEnd, OneSave
<1>15. Unsaved /\ Admin!SavedOnce
  BY <1>9, <1>10, <1>11, <1>12 DEF Unsaved, Admin!SavedOnce
<1>16. Truth
  <2>1. Thorough(t.todo, NoUser)
    BY <1>4, <1>9, <1>12 DEF Thorough, Loads
  <2> QED BY <1>4, <1>9, <1>10, <1>11, <2>1 DEF Truth
<1>17. Tallied
  <2>1. Posted = {}
    BY <1>10, <1>12 DEF Posted
  <2>2. Cardinality(Posted) = 0
    BY <2>1, FS_EmptySet
  <2>3. Spare
    BY <1>10, <1>m, <2>2 DEF Spare
  <2>4. Ticketed /\ Recent
    BY <1>9, <1>10, <1>11, <1>m DEF Ticketed, Recent
  <2> QED BY <2>3, <2>4 DEF Tallied
<1> QED BY <1>13, <1>14, <1>15, <1>16, <1>17

\* When all functions of a patient admin have ended, nothing is left to be loaded.
LEMMA AdminSees ==
  ASSUME patient => Truth
  PROVE  Admin!PatientSeesTruth
BY DEF Truth, Admin!PatientSeesTruth

\* The types of AdminPages, with their bounds.
LEMMA AdminTypes ==
  ASSUME Panel, Unsaved, Tallied
  PROVE  Admin!TypeOK
<1>1. rev \in [Admin!Pages -> 0 .. MaxClicks] /\ links \in [Users -> 0 .. MaxClicks]
  BY RevsCounted DEF Tallied
<1>2. MaxDrafts \in Nat /\ typed \in 0 .. MaxDrafts /\ view.draft \in Nat /\ view.draft <= typed
  BY BrowserAssumption DEF Admin!AdminPagesAssumption, Panel, Unsaved, View
<1>3. view.draft \in Admin!Drafts \cup {0}
  BY <1>2 DEF Admin!Drafts
<1>4. \A t \in tasks : t.todo # <<>> /\ t.at \in {"asked", "served", "failed"}
  BY DEF Panel, Orderly, Job
<1>5. /\ view \in View /\ view.rows \in 0 .. MaxClicks \cup {Unloaded}
      /\ view.cards.rev \in 0 .. MaxClicks /\ page \in Admin!Pages
  BY DEF Panel, Tallied, Recent
<1>6. view.cards \in [user : Users \cup {NoUser}, rev : 0 .. MaxClicks]
  BY <1>5 DEF View, Anyone
<1>7. view \in [rows : 0 .. MaxClicks \cup {Unloaded}, loading : BOOLEAN, saving : BOOLEAN,
                draft : Admin!Drafts \cup {0}, open : BOOLEAN, active : Users \cup {NoUser},
                form : Users \cup {NoUser}, cardsLoading : BOOLEAN,
                cards : [user : Users \cup {NoUser}, rev : 0 .. MaxClicks]]
  BY <1>3, <1>5, <1>6 DEF View, Anyone
<1> QED BY <1>1, <1>4, <1>5, <1>7 DEF Admin!TypeOK

-----------------------------------------------------------------------------
(* The subscriber begins so, and what follows from it.                      *)

\* A tab in which nobody has signed in.
LEMMA UserBegins ==
  ASSUME User!Init
  PROVE  Account /\ Own /\ Entered /\ User!WaitsForSomething /\ Waited /\ Counted
<1>n. NoUser \notin Users /\ "landing" \notin User!Inside /\ MaxClicks \in Nat
  BY BrowserAssumption DEF User!UserPagesAssumption, User!Inside
<1>1. Account /\ Counted
  BY AccountBegins, CountedBegins
<1>2. /\ auth = NoUser /\ page = "landing" /\ tasks = {} /\ busy = {} /\ ~surprised
      /\ logins = {} /\ held = {} /\ dash.user = NoUser
  BY DEF User!Init, User!Fresh
<1>3. Own /\ Entered /\ User!WaitsForSomething
  BY <1>n, <1>2 DEF Own, Entered, User!WaitsForSomething
<1>4. Waited
  BY <1>n, <1>2 DEF Waited, Follows, Current
<1> QED BY <1>1, <1>3, <1>4

\* The invariant of the subscriber's pages is inductive.
LEMMA UserStays ==
  ASSUME Account, Own, Entered, User!WaitsForSomething, Waited, Counted, User!Next
  PROVE  (Account /\ Own /\ Entered /\ User!WaitsForSomething /\ Waited /\ Counted)'
<1>1. Account' /\ Own' /\ Entered' /\ User!WaitsForSomething' /\ Counted'
  BY AccountStep, OwnStep, EnteredStep, WaitsStep, CountedStep
<1>2. Follows' /\ ~surprised' /\ (patient' => Current')
  BY FollowsStep, SurprisesNobody, CurrentStep DEF Waited
<1> QED BY <1>1, <1>2 DEF Waited

\* When the function of a patient user has ended, the account is shown as it is.
LEMMA UserSees ==
  ASSUME Account, Own, Waited
  PROVE  User!PatientSeesAccount
<1>1. ASSUME patient, User!Quiet, page \in User!Inside, auth # NoUser
      PROVE  /\ dash.info = rev[auth] /\ dash.subscribe = rev[auth] /\ dash.remind = remind[auth]
  <2>1. \A t \in tasks : t.todo = <<"password">>
    BY <1>1 DEF User!Quiet, Current, Waited
  <2> QED BY <1>1, <2>1 DEF Waited, Current
<1> QED BY <1>1 DEF User!PatientSeesAccount, Waited, Follows

\* The types of UserPages, with their bounds.
LEMMA UserTypes ==
  ASSUME Account, Counted
  PROVE  User!TypeOK
<1>1. \A u \in Users : rev[u] \in 0 .. MaxClicks
  BY RevsSeen DEF Counted
<1>2. rev \in [Users -> 0 .. MaxClicks]
  BY <1>1 DEF Account
<1>3. dash \in [loading : BOOLEAN, user : Users \cup {NoUser}, info : User!Revs, subscribe : User!Revs,
                remind : BOOLEAN]
  BY DEF Account, Board, Counted, Seen
<1>4. \A t \in tasks : t.todo # <<>> /\ t.at \in {"asked", "served", "failed"}
  <2>1. \A o \in Orders : o # <<>>
    BY DEF Orders
  <2> QED BY <2>1 DEF Account, Errand
<1>5. logins \subseteq [step : {"login", "check"}, user : Users, button : User!Entries,
                      here : BOOLEAN, id : 1 .. MaxClicks]
  <2>1. 1 .. clicks \subseteq 1 .. MaxClicks
    BY BrowserAssumption DEF User!UserPagesAssumption, Account, Counted, Room
  <2> QED BY <2>1 DEF Account, Entry, Counted, Issued
<1> QED BY <1>2, <1>3, <1>4, <1>5 DEF Account, User!TypeOK

-----------------------------------------------------------------------------
(* The theorems.  Each part has its invariant, and no step of one is a step *)
(* of another.                                                              *)

\* The invariant of the addresses,
LEMMA TrailAlways == Spec => []TrailHolds
<1>1. Init => TrailHolds
  BY TrailBegins DEF Init, TrailHolds
<1>2. TrailHolds /\ [Next]_vars => TrailHolds'
  <2> SUFFICES ASSUME TrailHolds, [Next]_vars
               PROVE  TrailHolds'
    OBVIOUS
  <2>1. CASE RoutesStep
    BY <2>1, TrailStep DEF RoutesStep, TrailHolds
  <2>2. CASE AdminStep \/ UserStep
    BY <2>2 DEF AdminStep, UserStep, TrailHolds
  <2>3. CASE UNCHANGED vars
    BY <2>3 DEF vars, routes, TrailHolds, Trail, Named, Known, Hopped, OnTheWay, Routes!Tails,
       Routes!configuredAdminPath, Routes!aliases, Routes!Settled, Routes!Target,
       Routes!UserRoute, Routes!AdminRoute, Routes!Here, Routes!In, Routes!UserPages, Routes!AdminPages
  <2> QED BY <2>1, <2>2, <2>3 DEF Next
<1> QED BY <1>1, <1>2, PTL DEF Spec

\* of the subscriber
LEMMA UserAlways == Spec => []UserHolds
<1>1. Init => UserHolds
  BY UserBegins DEF Init, UserHolds
<1>2. UserHolds /\ [Next]_vars => UserHolds'
  <2> SUFFICES ASSUME UserHolds, [Next]_vars
               PROVE  UserHolds'
    OBVIOUS
  <2>1. CASE UserStep
    BY <2>1, UserStays DEF UserStep, UserHolds
  <2>2. CASE AdminStep \/ RoutesStep
    BY <2>2 DEF AdminStep, RoutesStep, UserHolds
  <2>3. CASE UNCHANGED vars
    <3>1. UNCHANGED <<part, page, tasks, rev, clicks, patient, auth, logins, dash, list, form, busy,
                      remind, surprised, held, late>>
      BY <2>3 DEF vars, shared, userOnly
    <3>2. Account => Account'
      BY <3>1 DEF Account
    <3>3. Own => Own'
      BY <3>1 DEF Own, Orphan
    <3>7. Entered => Entered'
      BY <3>1 DEF Entered
    <3>4. User!WaitsForSomething => User!WaitsForSomething'
      BY <3>1 DEF User!WaitsForSomething
    <3>5. Waited => Waited'
      BY <3>1 DEF Waited, Follows, Current, Informed
    <3>6. Counted => Counted'
      <4>1. \A u : Waiting(u)' = Waiting(u)
        BY <3>1 DEF Waiting
      <4> QED BY <3>1, <4>1 DEF Counted, Numbered, Issued, Room, Seen
    <3> QED BY <3>1, <3>2, <3>3, <3>4, <3>5, <3>6, <3>7 DEF UserHolds
  <2> QED BY <2>1, <2>2, <2>3 DEF Next
<1> QED BY <1>1, <1>2, PTL DEF Spec

\* and of the panel.
LEMMA AdminAlways == Spec => []AdminHolds
<1>1. Init => AdminHolds
  BY AdminBegins DEF Init, AdminHolds
<1>2. AdminHolds /\ [Next]_vars => AdminHolds'
  <2> SUFFICES ASSUME AdminHolds, [Next]_vars
               PROVE  AdminHolds'
    OBVIOUS
  <2>1. CASE AdminStep
    <3>1. ASSUME part = "admin"
          PROVE  (Panel /\ Admin!SpinnersEnd /\ OneSave /\ Unsaved /\ Admin!SavedOnce
                  /\ (patient => Truth) /\ Tallied)'
      <4>1. Admin!Next
        BY <2>1 DEF AdminStep
      <4>2. Panel' /\ Tallied'
        BY <3>1, <4>1, PanelStep, TalliedStep DEF AdminHolds
      <4>3. Admin!SpinnersEnd' /\ OneSave'
        BY <3>1, <4>1, SpinnersStep DEF AdminHolds
      <4>4. Unsaved' /\ Admin!SavedOnce'
        BY <3>1, <4>1, UnsavedStep DEF AdminHolds
      <4>5. patient' => Truth'
        BY <3>1, <4>1, TruthStep DEF AdminHolds
      <4> QED BY <4>2, <4>3, <4>4, <4>5
    <3> QED BY <2>1, <3>1 DEF AdminStep, AdminHolds
  <2>2. CASE UserStep \/ RoutesStep
    BY <2>2 DEF UserStep, RoutesStep, AdminHolds
  <2>3. CASE UNCHANGED vars
    <3>1. UNCHANGED <<part, page, tasks, rev, clicks, patient, view, links, moved, made, unsure, typed>>
      BY <2>3 DEF vars, shared, adminOnly
    <3>2. Panel => Panel'
      BY <3>1 DEF Panel
    <3>3. (Admin!SpinnersEnd => Admin!SpinnersEnd') /\ (OneSave => OneSave')
      BY <3>1 DEF Admin!SpinnersEnd, OneSave
    <3>4. (Unsaved => Unsaved') /\ (Admin!SavedOnce => Admin!SavedOnce')
      BY <3>1 DEF Unsaved, Clean, Posting, Admin!SavedOnce
    <3>5. Truth => Truth'
      BY <3>1 DEF Truth
    <3>6. Tallied => Tallied'
      <4>1. Posted' = Posted
        BY <3>1 DEF Posted, Posting
      <4> QED BY <3>1, <4>1 DEF Tallied, Ticketed, Spare, Recent
    <3> QED BY <3>1, <3>2, <3>3, <3>4, <3>5, <3>6 DEF AdminHolds
  <2> QED BY <2>1, <2>2, <2>3 DEF Next
<1> QED BY <1>1, <1>2, PTL DEF Spec

\* No address is sent around, and the panel is where its path and every old path of it
\* lead: renderPage redirects (xboard_compat.go), and so do the Navigate elements of the
\* two trees (app.tsx), each by rules of its own.
THEOREM AddressesSettle == Spec => []RedirectsEnd
<1>1. TrailHolds => RedirectsEnd
  BY TrailEnds DEF TrailHolds, RedirectsEnd
<1> QED BY <1>1, TrailAlways, PTL

\* Whoever logs in after somebody else in the same tab sees nothing that was loaded for
\* the other: RequireUser unmounts UserDashboardProvider (app.tsx), and what comes in for
\* it later is not heard.  Only the accounts whose logins were answered while the provider
\* was mounted share what it shows: that takes a login and a registration sent together,
\* the second answered in the dashboard of the first.
THEOREM NobodyElsesData == Spec => []OwnDataOnly
<1>1. UserHolds => OwnDataOnly
  BY DEF UserHolds, OwnDataOnly, Own, User!OwnDataOnly
<1> QED BY <1>1, UserAlways, PTL

\* Every finally of the async functions of the pages (app.tsx) clears its flag, and none
\* clears that of another function that is still under way.  The one spinner that turns
\* without a request is that of a dashboard without a token, where loadOverview returns
\* before it begins: such a dashboard is shown only if a session of the tab has been
\* given up while a check of a token was under way.
THEOREM SpinnersWaitForRequests == Spec => []SpinnersHaveCause
<1>1. AdminHolds /\ UserHolds => SpinnersHaveCause
  BY DEF AdminHolds, UserHolds, SpinnersHaveCause
<1> QED BY <1>1, AdminAlways, UserAlways, PTL

\* What an admin types becomes one plan, node, notice or set of settings, however late
\* the answer to the save: the forms of savePlan, saveServer and saveNotice (app.tsx)
\* are emptied by it, and their buttons wait for it.
THEOREM TypedOnce == Spec => []SavedOnce
<1>1. AdminHolds => SavedOnce
  BY DEF AdminHolds, SavedOnce
<1> QED BY <1>1, AdminAlways, PTL

\* Who waits for every answer, and gets it, sees what the server has: after each change
\* the pages of the panel and of the subscriber (app.tsx) load all of it again that they
\* show.
THEOREM PatienceShows == Spec => []PatientSeesTruth
<1>1. AdminHolds /\ UserHolds => PatientSeesTruth
  BY AdminSees, UserSees DEF AdminHolds, UserHolds, PatientSeesTruth
<1> QED BY <1>1, AdminAlways, UserAlways, PTL

\* The states of App (app.tsx), of its pages and of the address have their types, and
\* what is shown is no newer than what the server has had.
THEOREM BrowserTypes == Spec => []TypeOK
<1>1. TrailHolds => (part = "routes" => Routes!TypeOK)
  BY DEF TrailHolds, Trail, Named, Known, Routes!TypeOK
<1>2. AdminHolds => (part = "admin" => Admin!TypeOK)
  BY AdminTypes DEF AdminHolds
<1>3. UserHolds => (part = "user" => User!TypeOK)
  BY UserTypes DEF UserHolds
<1>4. TrailHolds /\ AdminHolds /\ UserHolds => TypeOK
  BY <1>1, <1>2, <1>3 DEF TypeOK
<1> QED BY <1>4, TrailAlways, AdminAlways, UserAlways, PTL
==============================================================================
