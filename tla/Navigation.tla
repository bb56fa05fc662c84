------------------------------ MODULE Navigation -----------------------------
(***************************************************************************)
(* Where an address leads: the server's renderPage, which shows the user   *)
(* tree or the admin tree of the single-page application or redirects an   *)
(* old admin path (src/internal/httpapi/xboard_compat.go), and the routes  *)
(* of the two trees, which redirect by who is signed in                    *)
(* (src/frontend/src/app.tsx).  The three sets of rules are written apart  *)
(* and meet only here.                                                     *)
(*                                                                         *)
(* Abstractions: an address is its first segment and the rest as one name; *)
(* a session that is being checked shows a spinner and routes nothing, so  *)
(* here it is known.  The settings are read as they are (see               *)
(* SettingsCache), or fail to be read every time.                          *)
(***************************************************************************)
EXTENDS Naturals, FiniteSets

CONSTANTS
  Paths,     \* what may be saved, or configured, as the path of the admin panel
  Reserved,  \* those of them isReservedAdminPath names
  Malformed, \* those with a character isValidAdminPath does not allow; no slash
  MaxMoves   \* bound: what the user does

\* What Browser assumes of them.
NavigationAssumption ==
  "" \in Malformed /\ "admin" \notin Reserved \cup Malformed /\ "dashboard" \in Reserved

VARIABLES
  cfgPath, \* cfg.AdminPath
  secure,  \* the setting secure_path, or "" if it cannot be read
  who,     \* the session: "nobody", "user" or "admin"
  tree,    \* what is mounted: "none" while the page is loaded, "user" or "admin"
  base,    \* the admin path the page came with
  seg,     \* the address: its first segment
  tail,    \* and the rest
  hops,    \* history: redirects since the user has done something
  asked,   \* history: the first segment the user has asked for
  moves

vars == <<cfgPath, secure, who, tree, base, seg, tail, hops, asked, moves>>

-----------------------------------------------------------------------------
(* The server.                                                             *)

\* firstNonEmpty, normalizeAdminPath, isValidAdminPath
configuredAdminPath ==
  LET candidate == IF secure = "" THEN cfgPath ELSE secure
  IN  IF candidate \in Reserved \cup Malformed THEN "admin" ELSE candidate

\* The paths that lead to the panel by a redirect.
aliases == {cfgPath, "admin"} \ {configuredAdminPath}

\* The page for an address.
Render ==
  /\ tree = "none" /\ seg \notin aliases
  /\ tree' = IF seg = configuredAdminPath THEN "admin" ELSE "user"
  /\ base' = configuredAdminPath
  /\ UNCHANGED <<cfgPath, secure, who, seg, tail, hops, asked, moves>>

\* legacyAdminRedirectTarget keeps what follows the alias.
Redirect ==
  /\ tree = "none" /\ seg \in aliases
  /\ seg' = configuredAdminPath
  /\ hops' = hops + 1
  /\ UNCHANGED <<cfgPath, secure, who, tree, base, tail, asked, moves>>

-----------------------------------------------------------------------------
(* The routes of UserRoot and AdminRoot: where an address is sent on to.   *)

AdminPages == {"overview", "users", "plans", "servers", "notices", "settings"}
UserPages == {"", "servers", "plans", "settings"}
In(s, t) == [seg |-> s, tail |-> t]
Here == In(seg, tail)

\* PublicLanding, RequireUser, UserFallbackRedirect
UserRoute ==
  IF seg = "" \/ (seg = "dashboard" /\ tail \in UserPages)
  THEN IF who = "nobody" THEN In("", "")
       ELSE IF seg = "" THEN In("dashboard", "") ELSE Here
  ELSE IF who = "nobody" THEN In("", "") ELSE In("dashboard", "")

\* AdminLoginPage, RequireAdmin, AdminFallbackRedirect.  Mutant: the login page sends
\* on whoever is signed in.
AdminRouteAnybody ==
  CASE tail = "login" -> IF who # "nobody" THEN In(seg, "overview") ELSE Here
    [] tail # "login" /\ who # "admin" -> In(seg, "login")
    [] OTHER -> IF tail \in AdminPages THEN Here
                ELSE In(seg, IF tail = "subscription-links" THEN "users" ELSE "overview")
AdminRoute ==
  CASE tail = "login" -> IF who = "admin" THEN In(seg, "overview") ELSE Here
    [] tail # "login" /\ who # "admin" -> In(seg, "login")
    [] OTHER -> IF tail \in AdminPages THEN Here
                ELSE In(seg, IF tail = "subscription-links" THEN "users" ELSE "overview")

Target == IF tree = "user" THEN UserRoute ELSE AdminRoute

Route ==
  /\ tree # "none" /\ Target # Here
  /\ seg' = Target.seg /\ tail' = Target.tail
  /\ hops' = hops + 1
  /\ UNCHANGED <<cfgPath, secure, who, tree, base, asked, moves>>

Settled == tree # "none" /\ Target = Here

-----------------------------------------------------------------------------
(* The user.                                                               *)

Move ==
  /\ moves < MaxMoves /\ moves' = moves + 1
  /\ hops' = 0
  /\ UNCHANGED cfgPath

\* An address is typed, or a link followed; at any time.
Visit(s, t) ==
  /\ Move
  /\ s = "" => t = ""
  /\ seg' = s /\ tail' = t /\ tree' = "none" /\ asked' = s
  /\ UNCHANGED <<secure, who, base>>

\* A login on the landing page, after which the effect of the page goes on, or on the
\* login page of the panel, which goes on itself.
Login(as) ==
  /\ Move
  /\ Settled /\ who # "admin" /\ (tree = "user" => who = "nobody")
  /\ as \in {"user", "admin"}
  /\ who' = as
  /\ tail' = IF tree = "admin" THEN "overview" ELSE tail
  /\ UNCHANGED <<secure, tree, base, seg, asked>>

\* A logout, or a session that has ended by the next check.
Leave ==
  /\ Move
  /\ who # "nobody" /\ tree # "none"
  /\ who' = "nobody"
  /\ UNCHANGED <<secure, tree, base, seg, tail, asked>>

\* The button of UserLayout: a route of the tree it is in, which knows no panel and
\* sends it back to the dashboard.
AdminEntry ==
  /\ Move
  /\ Settled /\ tree = "user" /\ seg = "dashboard" /\ who = "admin"
  /\ seg' = base /\ tail' = "" /\ asked' = ""
  /\ UNCHANGED <<secure, who, tree, base>>

\* adminConfigSave, from here or elsewhere: a string is checked, but a number is not and
\* may have a point in it.
SaveSettings(path) ==
  /\ Move
  /\ secure # "" /\ path \notin Reserved \cup {""}
  /\ secure' = path
  /\ asked' = ""
  /\ UNCHANGED <<who, tree, base, seg, tail>>

-----------------------------------------------------------------------------
Tails == AdminPages \cup {"", "login", "subscription-links", "other"}

Init ==
  /\ cfgPath \in Paths \ {""} /\ secure \in Paths
  /\ who \in {"nobody", "user", "admin"}
  /\ tree = "none" /\ base = configuredAdminPath
  /\ seg = "" /\ tail = "" /\ asked = ""
  /\ hops = 0 /\ moves = 0

Next ==
  \/ Render \/ Redirect \/ Route
  \/ \E s \in Paths \cup {"", "dashboard", "admin"}, t \in Tails : Visit(s, t)
  \/ \E as \in {"user", "admin"} : Login(as)
  \/ Leave \/ AdminEntry
  \/ \E path \in Paths : SaveSettings(path)

Spec == Init /\ [][Next]_vars

-----------------------------------------------------------------------------
(* Properties.                                                             *)

\* No address is sent around: two redirects at most, of the server and of the routes
\* together, and the page is there that the visitor may see.  Whatever is saved as the
\* path of the panel, that path and every old one end in the panel, for an admin behind
\* its login page and for others on it; and the dashboard's never does, unless it was
\* configured as the path.
RedirectsEnd ==
  /\ hops <= 2
  /\ Settled =>
       /\ tree = "admin" => (tail \in AdminPages) = (who = "admin")
       /\ tree = "user" => (seg = "dashboard") = (who # "nobody")
  /\ tree # "none" =>
       /\ asked \in {configuredAdminPath, cfgPath, "admin"} => tree = "admin"
       /\ asked = "dashboard" /\ cfgPath # "dashboard" => tree = "user"

TypeOK ==
  /\ {cfgPath, secure} \subseteq Paths /\ tree \in {"none", "user", "admin"}
  /\ seg \in Paths \cup {"", "dashboard", "admin"} /\ tail \in Tails
=============================================================================
