----------------------------- MODULE AdminPages ------------------------------
(***************************************************************************)
(* The pages of the admin panel (src/frontend/src/app.tsx): overview,      *)
(* users with the drawer of a user's links, plans, servers, notices and    *)
(* settings.                                                               *)
(*                                                                         *)
(* Each loads what it shows when it is mounted.  What the admin does there *)
(* is an async function: a request that changes something, then the        *)
(* requests that load what it may have changed, one after the other.       *)
(* Several of them run at a time, none is ever cancelled, and what comes   *)
(* in is shown whatever has happened since.                                *)
(*                                                                         *)
(* Abstractions: of a table, a form or the links of a user there is a      *)
(* revision, which every change of it on the server raises; of what is     *)
(* typed into a form, a number.  The user ids of requests are those        *)
(* captured at the click, as the closures have them.  Only one panel       *)
(* writes.  The spinner over a table stops the mouse but not the keyboard, *)
(* so it guards nothing here.                                              *)
(***************************************************************************)
EXTENDS Integers, Sequences, FiniteSets

CONSTANTS
  Users, NoUser, \* the users of the list; no user
  Unloaded,      \* the revision of a list that has not come in
  MaxClicks,     \* bound: what the admin does, visits of pages included
  MaxDrafts      \* bound: what the admin types into forms

\* What Browser assumes of them.
AdminPagesAssumption ==
  NoUser \notin Users /\ MaxClicks \in Nat /\ MaxDrafts \in Nat /\ Unloaded = -1

VARIABLES
  page,    \* the page that is mounted
  view,    \* its state
  tasks,   \* the async functions that have not ended
  rev,     \* what the server has of each page's list: its revision
  links,   \* and of the links of each user
  moved,   \* has the secure path been changed
  made,    \* what has been typed: how many rows (or settings) it has become
  unsure,  \* history: what was saved without an answer
  typed,   \* how much has been typed
  clicks,
  patient  \* history: the admin has waited for every answer so far, and got it

vars == <<page, view, tasks, rev, links, moved, made, unsure, typed, clicks, patient>>
server == <<rev, links, moved, made, unsure>>

Lists == {"plans", "servers", "notices"}
Pages == Lists \cup {"overview", "users", "settings"}
Drafts == 1 .. MaxDrafts

\* The steps of an async function: change something, load the list of the page, or
\* the links of a user.
Post(op, u) == [kind |-> "post", op |-> op, user |-> u]
LoadList == [kind |-> "list", op |-> "load", user |-> NoUser]
LoadLinks(u) == [kind |-> "links", op |-> "load", user |-> u]

\* One of them: what it has left to do, and how far its first step is.
Task(steps, saves, draft) ==
  [todo |-> steps, at |-> "asked", rev |-> 0, saves |-> saves, draft |-> draft,
   here |-> TRUE, id |-> clicks + 1]

\* What the admin sees of a step that begins.
Begun(v, step) ==
  [v EXCEPT !.loading = @ \/ step.kind = "list", !.cardsLoading = @ \/ step.kind = "links"]

\* A click: the function runs up to its first request.
Run(v, steps, saves, draft) ==
  /\ clicks < MaxClicks
  /\ clicks' = clicks + 1
  /\ tasks' = tasks \cup {Task(steps, saves, draft)}
  /\ view' = Begun([v EXCEPT !.saving = @ \/ saves], Head(steps))
  /\ patient' = (patient /\ tasks = {})
  /\ UNCHANGED <<page, rev, links, moved, made, unsure, typed>>

-----------------------------------------------------------------------------
(* The pages.                                                              *)

\* A page that is mounted: its states' initial values; then its effect loads.
Mounted ==
  [rows |-> Unloaded, loading |-> TRUE, saving |-> FALSE, draft |-> 0,
   open |-> FALSE, active |-> NoUser, form |-> NoUser,
   cards |-> [user |-> NoUser, rev |-> 0], cardsLoading |-> FALSE]

\* AdminLayout: another page is mounted.  What the old one runs goes on, but only
\* the requests it has not sent through matter still.
Navigate(p) ==
  /\ p # page /\ clicks < MaxClicks
  /\ page' = p
  /\ clicks' = clicks + 1
  /\ view' = Mounted
  /\ LET pending == {t \in tasks : t.at = "asked" /\ Head(t.todo).kind = "post"}
     IN  /\ tasks' = {[t EXCEPT !.here = FALSE] : t \in pending}
                       \cup {Task(<<LoadList>>, FALSE, 0)}
         /\ patient' = (pending = {})
  /\ UNCHANGED <<rev, links, moved, made, unsure, typed>>

\* The admin types into the form of the page.
Fill ==
  /\ page \in Lists \cup {"settings"}
  /\ typed < MaxDrafts
  /\ typed' = typed + 1
  /\ view' = [view EXCEPT !.draft = typed + 1]
  /\ patient' = (patient /\ tasks = {})
  /\ UNCHANGED <<page, tasks, rev, links, moved, made, unsure, clicks>>

\* AdminOverviewPage
loadStats ==
  /\ page = "overview" /\ ~view.loading
  /\ Run(view, <<LoadList>>, FALSE, 0)

\* savePlan, saveServer, saveNotice: their forms require what is typed into them,
\* and their buttons wait for the save before.
Save(p) ==
  /\ page = p /\ ~view.saving /\ view.draft # 0
  /\ Run(view, <<Post(p, NoUser), LoadList>>, TRUE, view.draft)
savePlan == Save("plans")
saveServer == Save("servers")
saveNotice == Save("notices")

\* dropPlan, dropServer, dropNotice: of a row that is shown.
Drop(p) ==
  /\ page = p /\ view.rows # Unloaded
  /\ Run(view, <<Post(p, NoUser), LoadList>>, FALSE, 0)
dropPlan == Drop("plans")
dropServer == Drop("servers")
dropNotice == Drop("notices") /\ ~view.loading

\* saveSettings: the whole form, which need not have been loaded or touched.
saveSettings(path) ==
  /\ page = "settings" /\ ~view.saving
  /\ Run(view, <<Post(IF path THEN "path" ELSE "settings", NoUser), LoadList>>, TRUE, view.draft)

-----------------------------------------------------------------------------
(* AdminUsersPage.                                                         *)

\* The drawer's mask covers the page; its cards give way to a spinner.
OnPage == page = "users" /\ ~view.open
OnRow(u) == OnPage /\ view.rows # Unloaded /\ u \in Users
InDrawer == page = "users" /\ view.open
OnCard == InDrawer /\ ~view.cardsLoading /\ view.cards.user # NoUser

createUser ==
  /\ OnPage /\ ~view.saving
  /\ Run(view, <<Post("generate", NoUser), LoadList>>, TRUE, 0)

toggleBan(u) ==
  /\ OnRow(u)
  /\ Run(view, <<Post("ban", u), LoadList>>, FALSE, 0)

\* The links are loaded, too, if the drawer was opened for this user last.
resetSecret(u) ==
  /\ OnRow(u)
  /\ Run(view, IF view.active = u THEN <<Post("secret", u), LoadList, LoadLinks(u)>>
               ELSE <<Post("secret", u), LoadList>>, FALSE, 0)

\* Mutant: the form keeps the user it was for.
openSubscriptionDrawerOnly(u) ==
  /\ OnRow(u)
  /\ Run([view EXCEPT !.active = u, !.open = TRUE], <<LoadLinks(u)>>, FALSE, 0)
openSubscriptionDrawer(u) ==
  /\ OnRow(u)
  /\ Run([view EXCEPT !.active = u, !.form = u, !.open = TRUE], <<LoadLinks(u)>>, FALSE, 0)

closeDrawer ==
  /\ InDrawer
  /\ view' = [view EXCEPT !.open = FALSE]
  /\ UNCHANGED <<page, tasks, typed, clicks, patient, server>>

\* The user id of the form is a field like the others.
EditUser(u) ==
  /\ InDrawer /\ u # view.form
  /\ view' = [view EXCEPT !.form = u]
  /\ patient' = FALSE
  /\ UNCHANGED <<page, tasks, typed, clicks, server>>

\* saveSubscription works on the user of the form, the other two on the one the
\* drawer is open for.
saveSubscription ==
  /\ InDrawer /\ ~view.saving
  /\ Run(view, <<Post("save", view.form), LoadLinks(view.form), LoadList>>, TRUE, 0)

resetSubscriptions ==
  /\ InDrawer
  /\ Run(view, <<Post("reset", view.active), LoadLinks(view.active), LoadList>>, FALSE, 0)

\* Mutant: only the list is loaded again.
dropSubscriptionOnly ==
  /\ OnCard
  /\ Run(view, <<Post("drop", view.cards.user), LoadList>>, FALSE, 0)
\* A link is dropped by its id, that of the card.
dropSubscription ==
  /\ OnCard
  /\ Run(view, <<Post("drop", view.cards.user), LoadLinks(view.active), LoadList>>, FALSE, 0)

\* The button of the drawer.
refreshDrawer ==
  /\ InDrawer
  /\ Run(view, <<LoadLinks(view.active)>>, FALSE, 0)

-----------------------------------------------------------------------------
(* An answer comes in: the function goes on.                               *)

\* Without one, finally clears the flags of the step and of the function.
\* Mutant: the flag of the function stays.
FailedKeepsSaving(v, t) ==
  LET step == Head(t.todo)
  IN  [v EXCEPT !.loading = @ /\ step.kind # "list",
                !.cardsLoading = @ /\ step.kind # "links"]
Failed(v, t) ==
  LET step == Head(t.todo)
  IN  [v EXCEPT !.loading = @ /\ step.kind # "list",
                !.cardsLoading = @ /\ step.kind # "links",
                !.saving = @ /\ ~t.saves]

\* Mutant: the form stays as it was after a save.
AppliedKeepsForm(v, t) ==
  LET step == Head(t.todo)
  IN  CASE step.kind = "list"  -> [v EXCEPT !.rows = t.rev, !.loading = FALSE]
        [] step.kind = "links" ->
             [v EXCEPT !.cards = [user |-> step.user, rev |-> t.rev], !.cardsLoading = FALSE]
        [] step.kind = "post"  -> IF step.op = "save" THEN [v EXCEPT !.form = step.user] ELSE v
\* setUsers, setPlans, ... ; setSubscriptions; form.resetFields, and for a user's new
\* link setFieldsValue with the user it was for.  A load fills the settings form.
Applied(v, t) ==
  LET step == Head(t.todo)
  IN  CASE step.kind = "list"  ->
             [v EXCEPT !.rows = t.rev, !.loading = FALSE,
                       !.draft = IF page = "settings" THEN 0 ELSE @]
        [] step.kind = "links" ->
             [v EXCEPT !.cards = [user |-> step.user, rev |-> t.rev], !.cardsLoading = FALSE]
        [] step.kind = "post"  ->
             [v EXCEPT !.form = IF step.op = "save" THEN step.user ELSE @,
                       !.draft = IF t.saves /\ page \in Lists THEN 0 ELSE @]

Deliver(t) ==
  /\ t \in tasks /\ t.at # "asked"
  /\ IF t.at = "failed"
     THEN /\ view' = Failed(view, t)
          /\ tasks' = tasks \ {t}
          /\ patient' = FALSE
     ELSE /\ LET shown == Applied(view, t)
                 rest == Tail(t.todo)
             IN  IF rest = <<>>
                 THEN /\ view' = [shown EXCEPT !.saving = @ /\ ~t.saves]
                      /\ tasks' = tasks \ {t}
                 ELSE /\ view' = Begun(shown, Head(rest))
                      /\ tasks' = (tasks \ {t})
                           \cup {[t EXCEPT !.todo = rest, !.at = "asked", !.rev = 0]}
          /\ patient' = patient
  /\ UNCHANGED <<page, typed, clicks, server>>

-----------------------------------------------------------------------------
(* The server and the network.                                             *)

\* Which lists show what a change is about.
Touched(op) ==
  CASE op \in Lists              -> {op, "overview", "users"}
    [] op = "generate"           -> {"users", "overview", "plans"}
    [] op \in {"settings", "path"} -> {"settings", "users"}
    [] OTHER                     -> {"users"}

\* What a request has brought, or that it has not; nobody waits for those of a page
\* that is gone.
Answer(t, at, r) ==
  tasks' = (tasks \ {t}) \cup {u \in {[t EXCEPT !.at = at, !.rev = r]} : t.here}

Serve(t, at) ==
  LET step == Head(t.todo)
  IN  /\ t \in tasks /\ t.at = "asked" /\ ~moved
      /\ at \in {"served", "failed"}
      /\ IF step.kind = "post"
         THEN /\ rev' = [p \in Pages |-> IF p \in Touched(step.op) THEN rev[p] + 1 ELSE rev[p]]
              /\ links' = [u \in Users |->
                             IF u = step.user /\ step.op # "ban" THEN links[u] + 1 ELSE links[u]]
              /\ made' = [d \in Drafts |-> IF d # t.draft THEN made[d]
                                          ELSE IF step.op \in Lists THEN made[d] + 1 ELSE 1]
              /\ unsure' = unsure \cup ({t.draft} \cap IF at = "failed" \/ ~t.here THEN Drafts ELSE {})
              /\ moved' = (step.op = "path")
         ELSE UNCHANGED server
      /\ Answer(t, at, CASE step.kind = "post"  -> 0
                         [] step.kind = "list"  -> rev[page]
                         [] step.kind = "links" -> links[step.user])
  /\ UNCHANGED <<page, view, typed, clicks, patient>>

\* Refused, as everything is under a path that is no longer the admin's; or the
\* request is lost.
Refuse(t) ==
  /\ t \in tasks /\ t.at = "asked"
  /\ Answer(t, "failed", 0)
  /\ UNCHANGED <<page, view, typed, clicks, patient, server>>

-----------------------------------------------------------------------------
Init ==
  /\ page \in Pages /\ view = Mounted
  /\ clicks = 0
  /\ tasks = {[Task(<<LoadList>>, FALSE, 0) EXCEPT !.id = 0]}
  /\ rev = [p \in Pages |-> 0] /\ links = [u \in Users |-> 0]
  /\ moved = FALSE
  /\ made = [d \in Drafts |-> 0] /\ unsure = {} /\ typed = 0
  /\ patient = TRUE

UsersPage ==
  \/ createUser \/ closeDrawer
  \/ saveSubscription \/ resetSubscriptions \/ dropSubscription \/ refreshDrawer
  \/ \E u \in Users : toggleBan(u) \/ resetSecret(u) \/ openSubscriptionDrawer(u) \/ EditUser(u)

Next ==
  \/ \E p \in Pages : Navigate(p)
  \/ Fill
  \/ loadStats
  \/ savePlan \/ dropPlan
  \/ saveServer \/ dropServer
  \/ saveNotice \/ dropNotice
  \/ \E path \in BOOLEAN : saveSettings(path)
  \/ UsersPage
  \/ \E t \in tasks : Deliver(t) \/ Refuse(t) \/ (\E at \in {"served", "failed"} : Serve(t, at))

Spec == Init /\ [][Next]_vars

-----------------------------------------------------------------------------
(* Properties.                                                             *)

TypeOK ==
  /\ page \in Pages
  /\ view \in [rows : 0 .. MaxClicks \cup {Unloaded}, loading : BOOLEAN, saving : BOOLEAN,
               draft : Drafts \cup {0}, open : BOOLEAN, active : Users \cup {NoUser},
               form : Users \cup {NoUser}, cardsLoading : BOOLEAN,
               cards : [user : Users \cup {NoUser}, rev : 0 .. MaxClicks]]
  /\ \A t \in tasks : t.todo # <<>> /\ t.at \in {"asked", "served", "failed"}
  /\ rev \in [Pages -> 0 .. MaxClicks] /\ links \in [Users -> 0 .. MaxClicks]

\* An admin who waits for every answer, and gets it, sees what the server has: the
\* list of the page and, in the drawer, the links of the user it is open for, with
\* the form for new links set to the same user.  Every function loads again all
\* that it has changed of what is on the page.
PatientSeesTruth ==
  patient /\ tasks = {} =>
    /\ view.rows = rev[page]
    /\ view.active # NoUser =>
         /\ view.cards = [user |-> view.active, rev |-> links[view.active]]
         /\ view.form = view.active

\* A spinner turns, and a button waits, only while a request is under way, whatever
\* fails or overtakes.
SpinnersEnd ==
  LET under == {t \in tasks : t.here}
  IN  /\ view.loading => \E t \in under : Head(t.todo).kind = "list"
      /\ view.cardsLoading => \E t \in under : Head(t.todo).kind = "links"
      /\ view.saving <=> \E t \in under : t.saves

\* What is typed once is saved once, however often the button is clicked -- unless
\* the answer did not come, or the page was left before: then saving it again, which
\* the form still invites to, makes it twice.
SavedOnce == \A d \in Drafts : made[d] > 1 => d \in unsure
=============================================================================
