------------------------------- MODULE Browser -------------------------------
(***************************************************************************)
(* A tab of the browser.  An address is followed until it is settled       *)
(* (Navigation); then App (src/frontend/src/app.tsx) has mounted one of    *)
(* two trees and never the other, UserRoot with UserPages or AdminRoot     *)
(* with AdminPages.  What the pages do does not depend on the address and  *)
(* sends nobody to another one, so the three are checked side by side.     *)
(*                                                                         *)
(* The tasks, the page and the bounds are those of the tree that is        *)
(* mounted; the state of what is not there is fixed.                       *)
(***************************************************************************)
EXTENDS Integers, Sequences, FiniteSets

CONSTANTS
  Users, NoUser, Unloaded, MaxClicks, MaxDrafts, MaxLogins, \* of the pages
  Paths, Reserved, Malformed, MaxMoves \* of Navigation

VARIABLES
  part,                                      \* "routes", "admin" or "user"
  page, tasks, rev, clicks, patient,         \* of either
  view, links, moved, made, unsure, typed,   \* of AdminPages
  auth, logins, dash, list, form, busy, remind, surprised, held, late, \* of UserPages
  cfgPath, secure, who, tree, base, seg, tail, hops, asked, moves \* of Navigation

shared == <<page, tasks, rev, clicks, patient>>
adminOnly == <<view, links, moved, made, unsure, typed>>
userOnly == <<auth, logins, dash, list, form, busy, remind, surprised, held, late>>
routes == <<cfgPath, secure, who, tree, base, seg, tail, hops, asked, moves>>
vars == <<part, shared, adminOnly, userOnly, routes>>

Admin == INSTANCE AdminPages
User == INSTANCE UserPages
Routes == INSTANCE Navigation

ASSUME BrowserAssumption ==
  Admin!AdminPagesAssumption /\ User!UserPagesAssumption /\ Routes!NavigationAssumption

-----------------------------------------------------------------------------
NoPages == page = NoUser /\ tasks = {} /\ rev = <<>> /\ clicks = 0 /\ patient = TRUE
NoAdmin ==
  /\ view = NoUser /\ links = <<>> /\ moved = FALSE /\ made = <<>> /\ unsure = {} /\ typed = 0
NoSubscriber ==
  /\ auth = NoUser /\ dash = NoUser /\ list = NoUser /\ form = NoUser /\ busy = {}
  /\ logins = {} /\ remind = <<>> /\ surprised = FALSE /\ held = {} /\ late = FALSE
NoRoutes ==
  /\ cfgPath = "" /\ secure = "" /\ who = "" /\ tree = "" /\ base = "" /\ seg = "" /\ tail = ""
  /\ hops = 0 /\ asked = "" /\ moves = 0

Init ==
  \/ part = "routes" /\ Routes!Init /\ NoPages /\ NoAdmin /\ NoSubscriber
  \/ part = "admin" /\ Admin!Init /\ NoSubscriber /\ NoRoutes
  \/ part = "user" /\ User!Init /\ NoAdmin /\ NoRoutes

RoutesStep == part = "routes" /\ Routes!Next /\ UNCHANGED <<part, shared, adminOnly, userOnly>>
AdminStep == part = "admin" /\ Admin!Next /\ UNCHANGED <<part, userOnly, routes>>
UserStep == part = "user" /\ User!Next /\ UNCHANGED <<part, adminOnly, routes>>

Next == RoutesStep \/ AdminStep \/ UserStep

Spec == Init /\ [][Next]_vars

-----------------------------------------------------------------------------
(* Properties.                                                             *)

TypeOK ==
  /\ part = "routes" => Routes!TypeOK
  /\ part = "admin" => Admin!TypeOK
  /\ part = "user" => User!TypeOK

\* A user or an admin who waits for every answer, and gets it, sees what the server
\* has: every function of a page loads again all that it has changed of what is shown.
PatientSeesTruth ==
  /\ part = "admin" => Admin!PatientSeesTruth
  /\ part = "user" => User!PatientSeesAccount

\* A button waits, and a spinner turns, only while a request of its function is under
\* way, whatever fails or overtakes.  The one exception is a subscriber's dashboard
\* without a token, which is said to be loading and asks for nothing; it only comes about
\* in a tab that gave up a session while the check of a token was under way.
SpinnersHaveCause ==
  /\ part = "admin" => Admin!SpinnersEnd
  /\ part = "user" => User!WaitsForSomething

\* What an admin types once is saved once, however often the button is clicked -- unless
\* the answer did not come, or the page was left before.
SavedOnce == part = "admin" => Admin!SavedOnce

\* What was loaded for one account is not shown to another that logs in after it in the
\* same tab, however late the answers for the first come in: the dashboard shows only
\* what belongs to an account it has had the token of since it was mounted.  That is the
\* one that is signed in, unless a login and a registration were sent along with each
\* other.
OwnDataOnly == part = "user" => User!OwnDataOnly

\* No address is sent around: two redirects at most, and the page is there that the
\* visitor may see; the path of the panel and every old one end in the panel.
RedirectsEnd == part = "routes" => Routes!RedirectsEnd
=============================================================================
