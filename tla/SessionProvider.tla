--------------------------- MODULE SessionProvider ---------------------------
(***************************************************************************)
(* The session as the browser sees it: SessionProvider of the single-page  *)
(* application (src/frontend/src/app.tsx), in one or more tabs of one      *)
(* browser, with the answers of the server coming in late, in any order,   *)
(* or not at all.                                                          *)
(*                                                                         *)
(* A tab keeps the token it uses in its state and in localStorage, which   *)
(* all tabs share.  Whenever its token changes, an effect asks the server  *)
(* who that is, and what is shown depends on the last answer that came in. *)
(* No request is ever cancelled, and an answer is applied whatever has     *)
(* happened since.                                                         *)
(*                                                                         *)
(* Abstractions: a transition (startTransition) shows its state at once;   *)
(* what a tab shows is its shell, not the page in it; the field checking,  *)
(* which nothing reads, is left out; of the server there are the tokens    *)
(* that are valid (see Sessions) and one quick-login code (see QuickLogin).*)
(* The production build runs an effect once.                               *)
(***************************************************************************)
EXTENDS Integers, FiniteSets

CONSTANTS
  Tabs, AdminTabs, \* tabs, and those of them that show the admin panel
  Tokens, Admins,  \* tokens the server may issue, and those it issues to admins
  NoAuth,          \* the empty token
  Unseen,          \* what an effect has seen that has not run yet
  MaxLoads         \* bound: loads of a page that the user asks for

ASSUME SessionProviderAssumption ==
  /\ AdminTabs \subseteq Tabs /\ Admins \subseteq Tokens
  /\ NoAuth \notin Tokens /\ Unseen \notin Tokens \cup {NoAuth}
  /\ MaxLoads \in Nat

VARIABLES
  stored, \* localStorage: the token all tabs start with
  tab,    \* the state of SessionProvider in each tab
  calls,  \* the requests each tab waits for
  issued, \* the tokens the server has issued
  live,   \* those of them that are valid
  code,   \* is the quick-login code still unused
  loads   \* how often the user has loaded a page

sessionVars == <<stored, tab, calls, issued, live, code, loads>>

Auths == Tokens \cup {NoAuth}

\* A page that has just been loaded.  verify: its address carries the code.
Loaded(auth, verify) ==
  [auth |-> auth, seen |-> Unseen, ready |-> FALSE, authed |-> FALSE, admin |-> FALSE,
   verify |-> verify, consuming |-> FALSE, leaving |-> FALSE, late |-> FALSE]

\* A request; n tells those apart that ask the same.
Calls == [kind : {"check", "login", "consume"}, token : Auths, n : 1 .. 3,
          answer : {"none", "yes", "no", "lost"}]
Call(t, kind, token) ==
  [kind |-> kind, token |-> token, answer |-> "none",
   n |-> CHOOSE n \in 1 .. 3 :
           /\ \A c \in calls[t] : c.kind = kind /\ c.token = token => c.n # n
           /\ \A m \in 1 .. (n - 1) : \E c \in calls[t] : c.kind = kind /\ c.token = token /\ c.n = m]

\* RequireUser, RequireAdmin, and the pages for those who are not signed in.
Shown(t) ==
  IF tab[t].consuming \/ ~tab[t].ready THEN "loading"
  ELSE IF tab[t].authed /\ (t \in AdminTabs => tab[t].admin) THEN "panel"
  ELSE "login"

-----------------------------------------------------------------------------
(* What the user does.                                                     *)

Logins(t) == {c \in calls[t] : c.kind = "login"}

\* login or register.  Each button waits for its own request: the landing page has the
\* two of them, the login page of the panel has one.  Bound: no third login is sent by
\* a landing page that was mounted anew while two are under way.
Submit(t) ==
  /\ Shown(t) = "login"
  /\ \A c, d \in Logins(t) : c = d /\ t \notin AdminTabs
  /\ calls' = [calls EXCEPT ![t] = @ \cup {Call(t, "login", NoAuth)}]
  /\ UNCHANGED <<stored, tab, issued, live, code, loads>>

Logout(t) ==
  /\ Shown(t) = "panel"
  /\ stored' = NoAuth
  /\ tab' = [tab EXCEPT ![t].auth = NoAuth, ![t].authed = FALSE, ![t].admin = FALSE]
  /\ UNCHANGED <<calls, issued, live, code, loads>>

\* The page is loaded again, or a quick-login link is opened in its place.
Load(t, verify) ==
  /\ loads < MaxLoads
  /\ loads' = loads + 1
  /\ verify => tab[t].verify \/ t \notin AdminTabs
  /\ tab' = [tab EXCEPT ![t] = Loaded(stored, verify)]
  /\ calls' = [calls EXCEPT ![t] = {}]
  /\ UNCHANGED <<stored, issued, live, code>>

-----------------------------------------------------------------------------
(* What the tab does.                                                      *)

\* The effects: verifySession(authData) after a change of authData and on mount,
\* consumeQuickLogin on mount.
Effect(t) ==
  LET auth == tab[t].auth
      consume == tab[t].seen = Unseen /\ tab[t].verify
      signedOut == [tab[t] EXCEPT !.ready = TRUE, !.authed = FALSE, !.admin = FALSE,
                                  !.late = FALSE]
      verified == IF auth = NoAuth THEN signedOut ELSE tab[t]
  IN  /\ tab[t].seen # auth
      /\ tab' = [tab EXCEPT ![t] =
                   [verified EXCEPT !.seen = auth, !.consuming = @ \/ consume]]
      /\ calls' = [calls EXCEPT ![t] = @
                     \cup {Call(t, "check", auth) : x \in {auth} \ {NoAuth}}
                     \cup {Call(t, "consume", NoAuth) : x \in {TRUE} \cap {consume}}]
      /\ UNCHANGED <<stored, issued, live, code, loads>>

\* Does the token stay?  Mutant: always.
KeepsAlways(t, c) == TRUE
Keeps(t, c) == c.answer = "yes"

\* verifySession goes on.  Without a yes -- refused, or no answer at all -- the
\* token is forgotten: the one the tab has by then, and the stored one.
\* History: late if the answer is about another one.
DeliverCheck(t, c) ==
  /\ c \in calls[t] /\ c.kind = "check" /\ c.answer # "none"
  /\ calls' = [calls EXCEPT ![t] = @ \ {c}]
  /\ stored' = IF Keeps(t, c) THEN stored ELSE NoAuth
  /\ tab' = [tab EXCEPT ![t].auth = IF Keeps(t, c) THEN @ ELSE NoAuth,
                        ![t].ready = TRUE,
                        ![t].authed = (c.answer = "yes"),
                        ![t].admin = (c.answer = "yes" /\ c.token \in Admins),
                        ![t].late = (c.token # tab[t].auth)]
  /\ UNCHANGED <<issued, live, code, loads>>

\* Mutant: a refused login forgets the token as a refused check does.
DeliverLoginForgets(t, c) ==
  /\ c \in calls[t] /\ c.kind = "login" /\ c.answer # "none"
  /\ stored' = c.token
  /\ tab' = [tab EXCEPT ![t].auth = c.token]
  /\ calls' = [calls EXCEPT ![t] = @ \ {c}]
  /\ UNCHANGED <<issued, live, code, loads>>
\* login goes on with applyAuth; AdminLoginPage then asks who this is, too.
DeliverLogin(t, c) ==
  /\ c \in calls[t] /\ c.kind = "login" /\ c.answer # "none"
  /\ IF c.answer = "yes"
     THEN /\ stored' = c.token
          /\ tab' = [tab EXCEPT ![t].auth = c.token]
          /\ calls' = [calls EXCEPT ![t] = (@ \ {c})
                         \cup {Call(t, "check", c.token) : x \in {t} \cap AdminTabs}]
     ELSE /\ calls' = [calls EXCEPT ![t] = @ \ {c}]
          /\ UNCHANGED <<stored, tab>>
  /\ UNCHANGED <<issued, live, code, loads>>

\* Mutant: without a token the page stays.
DeliverConsumeStays(t, c) ==
  /\ c \in calls[t] /\ c.kind = "consume" /\ c.answer # "none"
  /\ calls' = [calls EXCEPT ![t] = @ \ {c}]
  /\ stored' = IF c.answer = "yes" THEN c.token ELSE stored
  /\ tab' = [tab EXCEPT ![t].auth = IF c.answer = "yes" THEN c.token ELSE @,
                        ![t].leaving = (c.answer = "yes")]
  /\ UNCHANGED <<issued, live, code, loads>>
\* consumeQuickLogin goes on: location.replace, with the new token or without.
DeliverConsume(t, c) ==
  /\ c \in calls[t] /\ c.kind = "consume" /\ c.answer # "none"
  /\ calls' = [calls EXCEPT ![t] = @ \ {c}]
  /\ stored' = IF c.answer = "yes" THEN c.token ELSE stored
  /\ tab' = [tab EXCEPT ![t].auth = IF c.answer = "yes" THEN c.token ELSE @,
                        ![t].leaving = TRUE]
  /\ UNCHANGED <<issued, live, code, loads>>

\* The address it was sent to, which carries no code, is loaded a little later.
Leave(t) ==
  /\ tab[t].leaving
  /\ tab' = [tab EXCEPT ![t] = Loaded(stored, FALSE)]
  /\ calls' = [calls EXCEPT ![t] = {}]
  /\ UNCHANGED <<stored, issued, live, code, loads>>

-----------------------------------------------------------------------------
(* What the server and the network do.                                     *)

Answered(t, c, token, answer) ==
  calls' = [calls EXCEPT ![t] = (@ \ {c}) \cup {[c EXCEPT !.token = token, !.answer = answer]}]

\* userCheckLogin, behind userMiddleware.
ServeCheck(t, c) ==
  /\ c \in calls[t] /\ c.kind = "check" /\ c.answer = "none"
  /\ Answered(t, c, c.token, IF c.token \in live THEN "yes" ELSE "no")
  /\ UNCHANGED <<stored, tab, issued, live, code, loads>>

\* passportLogin, passportRegister, passportToken2Login: refused, or a new token.
Refuse(t, c) ==
  /\ c \in calls[t] /\ c.answer = "none"
  /\ c.kind = "login" \/ (c.kind = "consume" /\ ~code)
  /\ Answered(t, c, NoAuth, "no")
  /\ UNCHANGED <<stored, tab, issued, live, code, loads>>

\* Mutant: the random token is one that was drawn before.
IssueReused(t, c, k) ==
  /\ c \in calls[t] /\ c.answer = "none"
  /\ c.kind = "login" \/ (c.kind = "consume" /\ code)
  /\ live' = live \cup {k}
  /\ code' = (code /\ c.kind = "login")
  /\ Answered(t, c, k, "yes")
  /\ UNCHANGED <<stored, tab, issued, loads>>
IssueToken(t, c, k) ==
  /\ c \in calls[t] /\ c.answer = "none"
  /\ c.kind = "login" \/ (c.kind = "consume" /\ code)
  /\ k \notin issued
  /\ issued' = issued \cup {k} /\ live' = live \cup {k}
  /\ code' = (code /\ c.kind = "login")
  /\ Answered(t, c, k, "yes")
  /\ UNCHANGED <<stored, tab, loads>>

\* A request or its answer is lost, and fetch rejects.  To those who wait for a
\* token that is a refusal.
Lose(t, c) ==
  /\ c \in calls[t]
  /\ \/ c.kind = "check" /\ c.answer = "none" /\ Answered(t, c, c.token, "lost")
     \/ c.kind # "check" /\ c.answer = "yes" /\ Answered(t, c, NoAuth, "no")
     \/ c.kind = "consume" /\ c.answer = "none" /\ Answered(t, c, NoAuth, "no")
  /\ UNCHANGED <<stored, tab, issued, live, code, loads>>

\* A ban, a removed session, a lifetime that is over.
Revoke(k) ==
  /\ k \in live
  /\ live' = live \ {k}
  /\ UNCHANGED <<stored, tab, calls, issued, code, loads>>

-----------------------------------------------------------------------------
SessionInit ==
  /\ stored = NoAuth /\ issued = {} /\ live = {}
  /\ tab = [t \in Tabs |-> Loaded(NoAuth, FALSE)]
  /\ calls = [t \in Tabs |-> {}]
  /\ code = TRUE /\ loads = 0

Serve(t, c) ==
  ServeCheck(t, c) \/ Refuse(t, c) \/ (\E k \in Tokens : IssueToken(t, c, k)) \/ Lose(t, c)

Deliver(t, c) == DeliverCheck(t, c) \/ DeliverLogin(t, c) \/ DeliverConsume(t, c)

SessionNext ==
  \/ \E t \in Tabs :
       \/ Submit(t)
       \/ Logout(t)
       \/ \E verify \in BOOLEAN : Load(t, verify)
       \/ Effect(t)
       \/ Leave(t)
       \/ \E c \in calls[t] : Serve(t, c) \/ Deliver(t, c)
  \/ \E k \in Tokens : Revoke(k)

SessionSpec == SessionInit /\ [][SessionNext]_sessionVars

-----------------------------------------------------------------------------
(* Properties.                                                             *)

SessionTypeOK ==
  /\ stored \in Auths
  /\ live \subseteq issued /\ issued \subseteq Tokens
  /\ code \in BOOLEAN /\ loads \in 0 .. MaxLoads
  /\ \A t \in Tabs :
       /\ calls[t] \subseteq Calls
       /\ tab[t] \in [auth : issued \cup {NoAuth}, seen : issued \cup {NoAuth, Unseen},
                      ready : BOOLEAN, authed : BOOLEAN, admin : BOOLEAN, verify : BOOLEAN,
                      consuming : BOOLEAN, leaving : BOOLEAN, late : BOOLEAN]

Checks(t) == {c \in calls[t] : c.kind = "check"}

\* When a tab has nothing more to ask, it shows what its token is worth: the panel
\* to those who are signed in, the admin panel to admins only -- unless the last
\* answer was one about a token the tab had given up, by a logout or a login,
\* before it came in: then it may show a panel without a token.
ShowsItsToken ==
  \A t \in Tabs :
    tab[t].ready /\ tab[t].seen = tab[t].auth /\ Checks(t) = {} /\ ~tab[t].late =>
      /\ tab[t].authed = (tab[t].auth # NoAuth)
      /\ tab[t].admin = (tab[t].auth \in Admins)

\* A login is kept in the browser until somebody logs out, its session ends on
\* the server, the network fails -- or an answer about another token comes in,
\* in this tab or in another, and takes it along.
LoginIsKept ==
  [][stored # NoAuth /\ stored' = NoAuth =>
       \/ \E t \in Tabs : Shown(t) = "panel" /\ tab'[t].auth = NoAuth /\ calls' = calls
       \/ \E t \in Tabs : \E c \in Checks(t) \ calls'[t] :
            c.token # stored \/ c.answer = "lost" \/ stored \notin live]_sessionVars

\* A tab that shows a spinner waits for something: an effect, an answer, a page
\* that is being loaded.  No order of answers, and no lost one, leaves it for ever
\* with a session that is not ready or a quick-login link that is not followed up.
NeverStuck ==
  \A t \in Tabs : Shown(t) = "loading" =>
    \/ tab[t].seen # tab[t].auth \/ tab[t].leaving
    \/ \E c \in calls[t] : c.kind = IF tab[t].consuming THEN "consume" ELSE "check"
=============================================================================
