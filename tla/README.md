# A verification project for pixia-airboard

pixia-airboard is a subscription panel: a Go server (`src/cmd`, `src/internal`) over one SQLite
database, with an optional Redis cache, and a single-page application (`src/frontend`). People
register and log in, get subscription links and fetch their subscription with a client; nodes
pull the users they may serve and push the traffic they served; admins manage all of it.

This directory holds TLA+ models of the parts of the server that keep state and of the pages in the
browser, the TLC runs that check them on small instances, and proofs that TLAPS checks for every size.
`PROJECT.json` lists components, runs, mutants, the source lines each definition stands for, findings,
hazards and theorems.

To run a check: `tlc -config UserRows_rows.cfg MCUserRows`; to check proofs:
`tlapm UserRowsProofs.tla`.

## 1. How the server runs, and what that means for the models

- The database has one connection (`db.SetMaxOpenConns(1)`, store.go). A statement or a
  transaction is therefore one atomic action, and no two overlap. Everything *between* two
  statements of a handler is open to other handlers. So each model has a set `Procs` of
  handlers in flight, and a variable (`op`, `req`) that holds what each one has read and where
  it is.
- Every handler runs under the context of its request. When the client goes away, the next
  statement or Redis call fails, and the handler ends half-way. Each model has `Abort`
  (`NodeUsers` calls the two `Requests` and `HangUp`).
- Redis is optional. Every one of its errors is dropped (`_ = s.cache...`), so a handler without
  Redis does what a handler does whose every call to Redis fails. With `CacheFails` any call may
  fail, all of them included; a key may vanish at any time.
- There are no foreign keys. Ids are `AUTOINCREMENT`, so no id is used twice.
- The program may die and start again; what it does at a start (`bootstrap`, `seed`,
  `EnsureDefaultSubscriptionLinks`) runs before the first request is served.
- In the browser a component calls async functions that nothing cancels. Several run at a time, each
  does its requests one after the other, and what comes in is shown whatever has happened since. The
  models of pages keep them in a set `tasks`, each with the requests it has left to do; any request
  may fail, before or after the server has done what it asked for.

## 2. Inventory

| Component | State | Operations | What is hard | What makes it correct |
|---|---|---|---|---|
| Subscription links (store.go 840-1040, admin.go, server.go 1270-1396) | table `subscription_links`: owner, suffix, primary, enabled | create account, admin create / save / drop, reset, delete user, default links at a start | read-modify-write over several statements; a reset writes a list read once; crash between the two transactions of an account | one primary link at most; a reset revokes what it listed; the primary link is not lost by accident; a start gives everyone a link |
| User rows and traffic (store.go 240-397, handlers of accounts) | a row of `users` | login, profile, rotation, ban, edit, password, traffic push, deletion | full-row writes of old copies against single-column writes | nothing is charged twice; a password change sticks; what can be lost is lost to an overlap only |
| Settings and admin path (store.go 184-238, server.go 1554-1567) | table `settings`, one Redis key | read through the cache, save and invalidate, path check | late fills, lost deletes | requests get in on the current path; reads are snapshots; the cache heals |
| Sessions and authentication (store.go 645-792, auth.go) | table `sessions`, key per session, list per user | login, authenticate, list, remove, ban, delete | two layers of state, purge in three steps | a revoked session is refused; a valid one never |
| Quick login (store.go 794-838, auth.go 100-127) | table `quick_logins` | ask for a code, show it | races for one code, the clock, cut-off requests | one login per code, in time; no code wasted |
| Subscription output (server.go 695-780, subscription.go) | rendered bodies in Redis | fetch by token or link | key completeness, rotations in two statements | a body is made for the row that was read; a rotation cuts off |
| Node API (server.go 782-942, 1825-1922) | lists of users in Redis, rows of nodes | pull, push, heartbeat | invalidation against pulls in flight and new nodes | answered pushes are told; edits of nodes stick |
| Redis client (cache.go) | connection | get, set, delete | silent failure | nothing by itself; seen through its users |
| Bootstrap and seeding (store.go 58-182) | settings, users, plans, servers, notices | seed what is empty | crash half-way | each default is there once, or is known to be missing |
| Accounts (server.go 144-199, 302-370, 1116-1268, store.go 240-330) | addresses in `users` | register, generate in batches, edit | lookups fold case, the index does not; look up, then insert | an owner signs in to the account registered |
| Plans (server.go 998-1110, 2299-2321, store.go 424-492) | table `plans` | save, sort, drop | quota in bytes and GiB, told apart by size | a round trip through a form keeps the quota |
| Notices, servers (store.go 494-643, server.go 1398-1521, xboard_compat.go 265-616) | one table each | single statements | full-row writes of servers | an edit of a node sticks |
| Admin paths and pages (xboard_compat.go 19-134) | none | match, redirect, render | old paths, nested paths, bad settings | a redirect ends at the panel |
| Routes of the application (app.tsx 181-290, 505-590) | the address | redirect by who is signed in | three sets of rules written apart | no address is sent around |
| User pages (app.tsx 291-504, 591-1192) | what was loaded, form, buttons | log in and out, load, refresh, reset, save, change password | answers that come late, part of a load that fails, two logins under way | no data of an account that is gone; who waits sees the truth |
| Admin pages (app.tsx 1193-2174) | lists, drawer, form, buttons | load, save, drop, links of a user, secure path | tasks of several requests that overlap, clicks while one runs | nothing is saved twice; spinners end with their requests; who waits sees the truth |
| Session of the application (app.tsx 77-180, api.ts) | session in the browser | verify, log in and out, consume a code | answers that come late | a late answer never replaces a newer session |
| Payload decoding (server.go 1998-2272) | none | coerce fields | many spellings | - |
| Process lifecycle (main.go, config.go, app.go) | the process | start, serve, drain, stop | deadline of the drain | shutdown ends; handlers end before the database closes |
| Legacy scripts (`web/static/app.js`, `xboard-admin-bridge.js`, `admin-subscriptions.js`) | none | - | - | - |
| Vendored and built assets (`web/static`: umi, locales, built spa) | none | - | - | - |

Interactions. `ParseUser` (sessions, then the user's row) stands in front of every handler of a
signed-in user, `adminPathMiddleware` (settings) and `adminMiddleware` in front of every admin
handler, `authorizeNodeRequest` (settings, then the server's row) in front of the node API.
Bans and deletions purge sessions after writing the user's row. Rotations write the user's row,
then reset the links. A push adds traffic to user rows, then deletes the cached lists of all nodes.
Account creation writes a user, then a link. Quick-login codes end in a session. The page the server
renders carries the admin path, by which the application chooses which of its two trees to mount.

## 3. Modules

| Module | Models | State and actions |
|---|---|---|
| `SubscriptionLinks` | subscription links, account creation and deletion, links at a start | `links` is the table; `op[p].todo` the rows a handler holds; one action per statement or transaction: `InsertUser`, `LinkUser`, `AdminCreate`, `AdminSaveRead`/`AdminSaveWrite`, `AdminDrop`, `DeleteUser`, `ResetList`/`ResetStep`/`ResetReply`, `SeedUser`, `EnsureList`, `EnsureUser`, `Serve`, `Crash`, `Abort` |
| `UserRows` | every write of one row of `users` | `Read` and `Write` of a full-row update for each kind of handler, `WritePassword`, the push in `PushLookup`/`PushFound`/`PushById`, `Delete` |
| `SettingsCache` | settings, their cache, the admin path check | `Arrive`, `CacheGet`, `Query`, `Fill`, `Check`, `Fetch`, `Answer`, `Save`, `Invalidate`, `Expire`, `Abort`, `Crash` |
| `Sessions` | sessions of one user in table and Redis | logins, `StartAuth`...`Admit`, removals, listings, and the purge `SelectIds`, `DeleteAll`, `UncacheAll` |
| `QuickLogin` | quick-login codes | `Create`/`Save`, `Show`, `Consume` or `NotFound`, `CheckExpiry`, `Lookup`, `Issue`, `Tick`, `Destroy` |
| `OneTimeCodes` | what `QuickLogin` promises: the abstract specification it implements | `Create`, `Claim`, `Login`, `Lose` |
| `SubscriptionBody` | what a subscription request is answered with | `ByToken`, `BySuffix`, `ReadUser`, `ReadServers`, `Get`, `Fill`, `Deliver`, rotation in `RotateRow`/`RotateLink` |
| `NodeUsers` | the lists of users that nodes pull | pull: `Pull`, `Get`, `ReadNode`, `ReadUsers`, `Fill`, `Answer`; push: `Push`, `Add`, `ListServers`, `DeleteKeys`; rows of nodes: `Alive`/`Beat`, `ManageRead`/`ManageSave`, `EditNode`, `CreateNode`, `DropNode` |
| `SessionProvider` | the session in the tabs of one browser (app.tsx, api.ts) | `stored` is localStorage, `tab[t]` the state of a tab, `calls[t]` the requests it waits for; the user's `Submit`, `Logout`, `Load`; the tab's `Effect`, `DeliverCheck`, `DeliverLogin`, `DeliverConsume`, `Leave`; the server's `ServeCheck`, `Refuse`, `IssueToken`, `Revoke`; the network's `Lose` |
| `UserPages` | the pages of a subscriber (app.tsx) | `dash` is `UserDashboardProvider`, `list`, `form`, `busy` the page; `tasks` the async functions, `logins` the logins and checks of tokens; `Submit`, `LoginGranted`, `LoginSwaps`, `LoginFails`, `CheckPasses`, `CheckFails`, `Logout`, `Visit`, `Refresh`, `Press`, `Toggle`; `Deliver` for what comes in; the server's `ServePart`, `ServePost`, `Refuse` |
| `AdminPages` | the pages of the admin panel (app.tsx) | `page`, `view`, `tasks`; `Navigate`, `Fill`, `Save`, `Drop`, the drawer and its cards, `EditUser`; `Deliver` with `Applied` and `Failed`; the server's `Serve` and `Refuse` |
| `Navigation` | where an address leads: `renderPage` (xboard_compat.go) and the routes of the two trees (app.tsx) | `seg`, `tail` are the address; `Render`, `Redirect`, `Route`, `Move`; the visitor's `Visit`, `Login`, `Leave`, `AdminEntry`; the admin's `SaveSettings` |
| `Browser` | a tab: the three above, side by side | instances of `Navigation`, `AdminPages`, `UserPages`; one is active, the others are fixed |
| `Plans` | the table of plans and the two conversions of a quota | `adminPlanCreate`, `adminPlanSave`, `SaveUntouched`, `adminPlanSort`, `adminPlanDrop` |
| `Accounts` | how accounts come to be, and which one an address signs in to | `passportRegister` and its steps `RegisterLooks`, `RegisterInserts`, `RegisterAnswers`; `adminUserGenerate`/`GenerateInserts`; `adminUserUpdate` |
| `Process` | the life of the process over `Plans` and `Accounts` | `Start`, `SeedOne`, `SkipDemo`, `NextTable`; `Ask`, `Proceed` for requests; `EditPlan`, `DropRow`, `EditUser`; `Signal`, `Drained`, `Deadline`, `ListenEnds`, `ListenFails`, `CleanUp`, `Exit`, `Fatal`, `Crash` |
| `MC...` | the small instances for TLC | constants and symmetry |
| `SubscriptionLinksProofs`, `SettingsCacheProofs`, `SessionsProofs`, `SubscriptionBodyProofs`, `ProcessProofs`, `BrowserProofs` | the theorems about the modules they are named for; `ProcessProofs` and `BrowserProofs` also about the parts of those | |
| `UserRowsProofs` | the theorems about `UserRows` and, in its second half, about `NodeUsers` | |
| `QuickLoginProofs` | the theorems about `QuickLogin` and `OneTimeCodes` and, in its second half, about `SessionProvider` | |

`NodeUsers` and `SessionProvider` name their specifications `NodesSpec` and `SessionSpec` (and so their
parts): the modules of their proofs extend another component too.

Definitions whose comment begins with "Mutant" are variants of the definition that follows them,
with a plausible mistake. They take no part in any specification; for every property of every run
`PROJECT.json` names one that breaks it.

Some variables are history: they never guard an action, and only let a property speak about the
past. These are `watch` (SubscriptionLinks), `version`, `pushed`, `wish`, `overwritten` (UserRows),
`past`, `open`, `raced` (SettingsCache), `leaked`, `revoked` (Sessions), `logins`, `cut`
(QuickLogin; `saved` also bounds which codes are shown: only codes that existed), `retired`
(SubscriptionBody), `settled`, `late` and the fields `owed`, `excused`, `behind` of `op`
(NodeUsers), the field `late` of a tab (SessionProvider), `patient` and `unsure` (AdminPages),
`patient`, `surprised`, `held` and `late` (UserPages), `hops` and `asked` (Navigation), `told` (Accounts), `late`,
`cut`, `dropped` and `given` (Process).

### What the models abstract

- *SubscriptionLinks.* An id stands for its rank in `ORDER BY created_at, id`. A random suffix is a
  number never drawn before. Names and timestamps are left out; they are written where `enabled`
  is. A typed suffix keeps its normal form (`normalizeSuffix` is `Canon`, and draws a random one
  for a blank). "Resolves" does not look at `enabled`, which makes `ResetRevokes` stronger than
  what `/sub/{suffix}` needs.
- *UserRows.* `u` and `d` are one counter; uuid and token, always replaced together, are one
  secret; the other columns go where the secret goes. Amounts of traffic are naturals: what
  a node may report below zero is not judged here. `passportRegister` writes the whole row in the
  way `passportLogin` does. The model may stop, because the row may be deleted and the number of
  writes is bounded, so deadlock is not checked there.
- *SettingsCache.* Of the settings, the admin path is told apart from the rest, which is one value. A
  handler that reads the settings itself, as `adminConfigFetch` does, reads them once (`Fetch`).
- *Sessions.* One user. A session id is a number. Where the code walks a list, any order.
- *QuickLogin.* One user. The clock counts the seconds that `time.Now().Unix()` tells. The copy of
  a code in Redis is written and deleted, and never read, so it is left out. A ban is left
  out because neither side reads it: a code of a banned user still leads to a session, which
  `ParseUser` then refuses until the ban is over. Deadlock is not checked: codes and time run out.
- *SubscriptionBody.* One user with one link; the table of servers is a counter of its edits; a
  body is named by what it was rendered from. A failed call to Redis is a key that vanishes then.
- *NodeUsers.* One user, two nodes; a push carries one unit; the plans of a node stand for every
  column of its row. Deadlock is not checked: all nodes may be dropped, and edits are bounded.
- *SessionProvider.* A transition of React shows its state at once, and an effect runs some time after
  the change it depends on. What a tab shows is its shell (spinner, login, panel). The server is the
  set of tokens it accepts and one quick-login code; how it comes to accept them is `Sessions` and
  `QuickLogin`. The field `checking` is left out, as nothing reads it. The landing page has two buttons
  that wait each for itself, so two logins may be under way in a tab; a third one, sent by a landing page
  that was mounted anew while both are, is bounded away (`Submit`). The admin tab has one button. TLC takes states for one (`View`, in
  `MCSessionProvider`) in which equal requests with equal answers have other numbers.
- *AdminPages*, *UserPages*. What the server has of a list, of a user's links or of an account is a
  revision, which each change raises: to see the truth is to see the last one. What is typed into a
  form is a number. The user of a request is the one captured at the click, as the closures have it.
  One admin writes. The page stays usable with the keyboard while a spinner is over it, so a spinner
  guards nothing. What depends on the address is in `Navigation`. `UserPages` has the part of the
  session that mounts and unmounts the pages: logins, registrations, the checks of their tokens, and
  the logout. An account stands for each token it is given. Links, reloads and other tabs are in
  `SessionProvider`.
- *Navigation*. An address is its first segment and the rest as one name. Paths stand for the classes
  the server tells apart: reserved, malformed, fit. The session is known; until it is, the
  application shows a spinner and routes nothing.
- *Plans*. Of a row there are name, quota, whether it is shown, and its place. A save writes all of
  them, as `UpdatePlan` does: a client that sends no place puts the plan at 99. In `Process` a plan
  that is saved stays where it is and is hidden, or is shown at 99, and keeps its name or gets
  another.
- *Accounts*. An address is a name and whether it is written with capitals. Drawn addresses never
  meet another. What a user's row has besides is in `UserRows`, its links in `SubscriptionLinks`.
- *Process*. Of the seeded settings there is the token of the nodes, which every start draws anew and
  only the first stores. Of the four seeded servers there are two. One process uses the database at a
  time. Deadlock is not checked: starts are bounded.

## 4. Runs

| Run | Question | Bounds | Result |
|---|---|---|---|
| `links` | `AtMostOnePrimary`, `ResetRevokes`, `ResetPreserves`, `PrimaryLostOnlyByUpdate`, `StartupRepairs` while two handlers interleave with aborts, crashes and restarts | 2 handlers, 2 users, 2 links, 3 draws | holds |
| `user_rows` | `NeverOvercharged`, `PasswordSticks`, `LostOnlyByOverlap` | 2 handlers, 4 writes, amounts 1 and 2 | holds |
| `user_traffic` | `TrafficAddsUp`, as app_test.go expects, with one kind of handler, `profile` | 1 handler, 2 writes, amount 1 | violated: `userUpdate` writes old usage back |
| `settings_redis` | `TypeOK`, `ServesSnapshots`, `DecidesOnCurrentPath` and `EventuallyFresh` with a failing Redis | 2 requests, 2 paths, 2 saves | holds |
| `settings_stale` | `AdmitsCurrentPath` with a Redis that never fails | 2 requests, 1 save | violated: a late fill |
| `sessions_redis` | `TypeOK`, `RevokedIsRefused`, `RefusedOnlyIfRevoked` with a failing Redis | 2 handlers, 2 sessions | holds |
| `quick_codes` | `NoLateLogin`, `NotWasted`, and `OneTime`: the steps of `QuickLogin` are steps of `OneTimeCodes` | 3 requests, 2 codes, life of 1 second, 3 seconds | holds |
| `body` | `TypeOK`, `CarriesOwnAccess`, `RotatedIsDead` | 2 requests, 2 plans, 1 rotation, 1 edit of the servers | holds |
| `nodes` | `NodesTypeOK`, `PushIsTold`, `EditsStick` with a failing Redis | 2 requests, 2 nodes (one hidden), 1 unit, 1 edit, 1 heartbeat | holds |
| `spa_session` | `SessionTypeOK`, `ShowsItsToken`, `NeverStuck`, `LoginIsKept` | 2 tabs, one of them the admin panel, 2 tokens, 1 load | holds |
| `pages` | `TypeOK`, `PatientSeesTruth`, `SpinnersHaveCause`, `SavedOnce`, `OwnDataOnly`, `RedirectsEnd` in a tab whose requests may fail, before or after they were served | 2 users, 3 clicks, 2 drafts, 2 logins or checks at once; 6 paths, 2 moves | holds |
| `process` | `TypeOK`, `DefaultsAccountedFor`, `DrainedFirst`, `OwnerSignsIn`, `EditKeepsQuota`, `ShutdownEnds` with kills anywhere | 2 starts, 1 edit, 2 requests, 4 plans, 4 accounts, a GiB of 1024 | holds |

Why the bounds are enough to be worth something. Each hazard here is an overlap of two handlers,
at times followed by a third that notices; handlers are reused once they are idle, so two
processes give "one late, others after it", and three give "two overlap while a third looks".
Two links are the least with which "the other one" exists; two sessions the least with which a
purge may miss one and a list may lose one; two saves let an older value come back over a newer;
two codes let a race for one be distinguished from the other's use; two nodes let one be missed by
an invalidation. With three clicks a page can be left and come back to while a task of the first
click still runs, or a form be saved twice before the first answer; with two users the drawer can be
open for another than the one whose links come in, and a login and a registration for two accounts
be answered one after the other. With two starts a first may be cut short in every
statement of the seed and a second serve; with two requests and four rows a registration can overlap
another one for the same address beside the two accounts of the seed. A GiB of 1024 keeps what
matters of the real one: 512 of them stay below a GiB of GiBs, and one of the quotas that are sent is
a number of GiB, the other one of bytes. `MaxUser`, `MaxLink`, `MaxDraw`, `MaxVersion`, `MaxSaves`,
`MaxSession`, `MaxCode`, `MaxTime`, `MaxSecret`, `MaxServers`, `MaxUsed`, `MaxEdits`, `MaxBeats`,
`MaxLoads`, `MaxClicks`, `MaxLogins`, `MaxDrafts`, `MaxMoves`, `MaxStarts`, `MaxPlans`, `MaxUsers` and
`MaxRequests` bound counters in guards and nothing else.
What must not depend on them is proved (section 6).

Heartbeats are bounded together with the edits they may undo: two of them for one node at the
same time, each holding what the other has just replaced, could take turns for ever. Two tabs are
the least with which one takes from the other what they share; a second token lets an answer be
about another one.

The type invariants of `SubscriptionLinks`, `UserRows` and `QuickLogin` are proved (section 6) and
not checked again. `links` draws its suffixes; that typed ones do no harm is proved only.

Symmetry is used for handlers, which are interchangeable, and for the users of `pages`, and only in
runs without liveness.

### What the violations show

- `user_traffic`. The trace has three steps. A request to `userUpdate` (server.go 623-637) has the row
  that `userMiddleware` read; a node's push adds traffic in the database; `userUpdate` writes the row
  back through `UpdateUser` (store.go 327), `u` and `d` as they were. The run has only this handler,
  so that its trace is always this one; the others that write the whole row, `passportLogin` among
  them, do the same, and `user_rows` has them all. There `LostOnlyByOverlap` says that this is the only
  way, `NeverOvercharged` that it is never to the user's cost. Bans and rotations are lost in the
  same way.
- `settings_stale`. A request reads the settings, a save commits and deletes the key, the request
  stores what it read. For up to five minutes the old admin path opens and the new one does not,
  although README.md and app_test.go promise the opposite. `DecidesOnCurrentPath` names the only
  other way there: a delete that failed or was never reached.

### What else the models made visible

These hold in the code as it is and are stated in the properties' exceptions.

- A session key outlives its session when a copy read before the DELETE is stored after it, when
  the session was issued between the SELECT and the DELETE of `DeleteSessionsByUserID`, or when the
  delete of the keys fails or is cut off. It is refused again only after its 30 days, or when the
  user is gone or banned.
- Of two bans at the same time, the second may see no rows and answer before the first has deleted
  the keys.
- A quick-login code is deleted before its expiry and its user are looked at, so a request that
  is cut off there wastes it. Codes nobody shows are never removed.
- A rotation writes the row before the links, so until it is answered, or for good if it is cut off
  there, the old link hands out the new credentials.
- Nothing but a push deletes the cached list of a node: a ban takes up to 30 seconds to arrive.
- An update of a link that was dropped meanwhile commits the demotion of the others and nothing
  else: the user is left without a primary link.
- A heartbeat undoes an admin's edit of its node that falls between its two statements.
- In the browser, the answer to a check is applied to whatever token is there by then. A late yes
  after a logout shows a panel without a token, until the next check. A late no takes away a token
  that has come in since, by a login or in another tab. A network failure logs out, and a
  logout forgets the token without ending the session on the server.
- The pages show whatever comes in last. `PatientSeesTruth` holds for who waits for every answer and
  gets it; who clicks on may be left with an older list, or with the links of a user in the drawer of
  another, whose form a late save sets back too (app.tsx 1461). An answer that did not come leaves the
  form as it was, so that saving again makes the row twice; nothing on the server tells them apart.
- A subscriber who saves a reminder before the overview has come in turns the other one off.
- A dashboard that is shown without a token says it is loading for ever: `loadOverview` returns at
  once (app.tsx 321) and nothing clears the flag. `SpinnersHaveCause` excepts it by name, and says that it
  only comes about when a session was given up while the check of a token was under way.
- The landing page lets a login and a registration be sent along with each other. When the first has
  led to the dashboard, the second puts another token under it, and `UserDashboardProvider` keeps its
  state: what was loaded for the first account is shown until the overview of the second comes in, and
  stays if that fails; an overview of the first that comes in later replaces that of the second.
  `OwnDataOnly` excepts exactly this. No test or document speaks of it, so it is no finding.
- The button that leads admins to the panel never gets there (app.tsx 704): it changes the address
  within the user tree, which has no such route, and ends where it was.
- The list of plans formats a number of GiB as bytes (app.tsx 1786), and the form asks for bytes but
  what is below a GiB is taken for a number of GiB.
- A path that is configured and reserved, such as `dashboard`, is never used for the panel but still
  redirects to it, so the subscriber's page of that name cannot be loaded: the list of old paths is
  not validated.
- Addresses are looked up without regard to case, but kept apart with it. An account that an admin
  gives an address with capitals can shadow the one registered, if it has the lower id. A batch that
  fails half-way keeps its rows.
- A start that is cut short within a table leaves the rest of its defaults out for good: the next
  start finds the table not empty. With the plans, an account of the seed may have none.
- After the deadline of a shutdown the database is closed under the handlers that still run.

## 5. Fairness

Most runs check safety only and assume no fairness; that no tab waits for nothing is an invariant
(`NeverStuck`, `SpinnersHaveCause`), as a tab has no fairness to count on: an answer may never come.

`FairSpec` of `SettingsCache` assumes weak fairness of each handler's own steps and of the expiry of
the key; no fairness of requests, saves, aborts or crashes. A goroutine that serves a request is
scheduled until it ends, its statements wait only for the one connection, and Redis removes a key
when its lifetime of five minutes is over. `EventuallyFresh` is of the form "in the end, and from
then on": the cache agrees with the table once the bounded saves are over, whatever raced or
failed before. The other caches have keys that expire in the same way, and hold what they hold in
the same way; that they are right in the end would say the same again.

`Spec` of `Process` assumes weak fairness of `WindUp`: the timer of the shutdown, the two goroutines
that end it, and the deferred cleanup of main. It assumes none of the handlers, so `ShutdownEnds`
holds even when one of them hangs.

## 6. Proofs

TLAPS proves the following for every number of handlers, users, links, writes, codes, seconds, paths,
saves, plans, starts, tabs, tokens, clicks, drafts, nodes, heartbeats, and for every size of a GiB. So
every safety property that a run checks and that holds is also a theorem. Each proof has the same
shape: an inductive invariant that is stronger than the property, one lemma for each action that
the invariant survives it, and the temporal step at the end. The new invariants were checked by TLC
on the instances of section 4 before they were proved.

What is assumed are the `...Assumption`s of the modules, which TLC evaluates in every run:
- that bounds are naturals and that the model values for "nothing" are no values;
- what `normalizeSuffix` yields (`SubscriptionLinks`);
- that there is an id for a node at all, and that a hidden one is a node (`NodeUsers`);
- that the kinds of handlers that are checked are kinds of handlers (`UserRows`);
- that tabs of the admin panel are tabs, and tokens of admins tokens (`SessionProvider`);
- that the paths no panel may have include `dashboard` and do not include `admin`, as
  `isReservedAdminPath` says (`Navigation`, xboard_compat.go 127-133);
- that the two accounts of the seed are two, and that a plan of the name `Starter` or `Pro` is the
  seed's (`Process`): the models know plans by their names, and an admin who gives another plan the
  name `Starter` is not what `DefaultsAccountedFor` counts. One who takes it away is on record.

- **SubscriptionLinksProofs**: `TypeCorrect`, `OnePrimaryPerUser` (`AtMostOnePrimary`),
  `ResetsRevoke` (`ResetRevokes`), `ResetsPreserve` (`ResetPreserves`), `PrimaryIsKept`
  (`PrimaryLostOnlyByUpdate`) and `StartsRepair` (`StartupRepairs`). None of them is inductive alone. That nobody gets two primary
  links needs that a row a handler writes back still belongs to the user it was read for
  (`HeldOwner` in `Inv`): the demotion in the transaction is by the row's user. That a
  reset revokes needs that, at every moment, what it has listed and not yet written is all that may
  still resolve, that suffixes are unique, and that fresh draws are none of those listed. `Creating`
  says who a handler that creates an account holds. The proof has one lemma for what each
  transaction makes of the table (`DemotedTable`, `InsertedTable`, `UpdatedTable`,
  `DeletedTable`), then one per action. That a reset leaves its user's links as it found them needs
  `Faithful`: it holds rows of its own user only, and as long as nobody else has written that user's
  links, which the history notes, the table has the rows it listed with the same flags. The same
  lemmas about the transactions say who can clear a primary flag, from which `PrimaryIsKept` follows;
  the one a drop promotes is the one of the least id, which exists (lemma `Least`). For start-ups,
  `Repairing` says that nobody else runs meanwhile, and that users already looked at have a link.
- **UserRowsProofs**: `TypeCorrect`, `NoOvercharge`, `PasswordsStick`, `LossNeedsOverlap`. The
  strengthening is `Copies`: a copy was never charged more than has been pushed by now, and a copy
  taken of the version at hand *is* the row, so writing it back loses nothing.
  For `NodeUsers`: `TrafficIsTold` (`PushIsTold`), `AdminEditsStick` (`EditsStick`) and `NodeTypes`.
  The invariant (`NodeInv`) is that the key of every node that is there tells what was answered, or
  holds nothing, or has an excuse on record (`NodesAreTold`), and says for each place of a request
  what it relies on (`Fits`): a pull's list tells what its node was owed when it began, a push has
  been told by every key it is not about to delete, and what a heartbeat or an admin's save holds of
  a row is the row until it is known to be behind. That keys of nodes yet to be created hold nothing
  is needed for a node that appears between the list of servers and the deletes.
- **QuickLoginProofs**: `ImplementsOneTime` (`QuickLogin` implements
  `OneTimeCodes` under a refinement mapping), `OncePerCode` (the abstract specification allows one
  login per code) and so `LoginOnce`; also `LateIsRefused` (`NoLateLogin`), `LinkIsGood` (`NotWasted`)
  and `TypeCorrect`. The mapping: created codes are those ever saved, live ones are in the table, claimed ones are in the
  hands of a request between the commit and its answer. The invariant needed is that a code names
  one row, that what a request is about to save is new, and that what it has consumed is neither in
  the table nor in other hands. Creating a code, showing one, failing and expiring are steps
  `Lose`, of which a stutter is one. `LinkIsGood` needs beside it that what a request has in hand is a
  row that was saved, with its expiry (`HoldsRow`).
  For `SessionProvider`: `SpinnerWaits` (`NeverStuck`), `TokenIsShown` (`ShowsItsToken`), `LoginStays`
  (`LoginIsKept`) and `SessionProviderTypes`. Two facts carry them. A token that an answer brings is
  nowhere else, in no tab, in no other request and not in localStorage (`BroughtOnce`): so a tab that
  takes it has not asked about it, and its effect will. And a tab is consistent with the requests it
  waits for (`TabFits`): before its first effect there are none; what it has not made up its mind
  about it has asked about; a check that was refused is about a token that is not valid. Whatever one
  tab does is an instance of one lemma (`TabStep`), whatever the server does of another
  (`AnswerStep`).
- **SettingsCacheProofs**: `Snapshot` (`ServesSnapshots`), `CurrentPath` (`DecidesOnCurrentPath`) and
  `TypeCorrect`. A save leaves the old value in the cache until it deletes it. So the invariant says
  where a cached path comes from: it is the table's, or one a save has replaced and has still to
  delete (`CacheExplained`); such a path is owed to everyone who asks (`Owed`, `Windows`), and so what
  a request was given is within its window (`Decided`).
- **SessionsProofs**: `Revocation` (`RevokedIsRefused`), `Continuity` (`RefusedOnlyIfRevoked`) and
  `TypeCorrect`. A revoked session has no row; a key without a row has leaked, or the handler that
  deleted the row has still to delete it (`KeysExplained`, `Cleans`). An authentication that came when
  nobody had finds neither the row nor the key (`Refused`). `World` says what every step leaves as
  it is; under it what a handler holds stays true (`FitsStays`), so that each action has only its own
  handler to look at.
- **SubscriptionBodyProofs**: `OwnAccess` (`CarriesOwnAccess`), `DeadIsRefused` (`RotatedIsDead`) and
  `TypeCorrect`.
  The invariant is that the cache keeps nothing under a key that does not name it (`Kept`), that what
  a request has to deliver is for its row (`Holds`), and that what was retired is older than what is
  there. The types need a count: the link has been replaced once for each time the row was, but for
  the rotations under way and those cut off (`Counted`).
- **ProcessProofs**: `DrainsFirst` (`DrainedFirst`), `QuotasKept` (`EditKeepsQuota`),
  `RegistrationsHold` (`OwnerSignsIn`), `DefaultsHold` (`DefaultsAccountedFor`) and `ProcessTypes`. The first
  needs that requests that run while main is about to clean up have outlived the deadline. The second
  is arithmetic over every size of a GiB: what `normalizeAdminPlanTransferLimit` stores is nothing or
  at least a GiB (`NormalStores`), and a round trip through `bytesToGiBValue` gives the whole number of
  GiB below (`RoundTrip`). That every row is stored so needs what the seed has still to insert
  (`Stored`), and one lemma for each way a row is written. That an owner signs in to the account
  whose registration was answered needs that addresses are shared by no two rows unless they were
  drawn or typed with capitals (`Owned`), and what each request of several steps relies on between
  them (`Progress`). For the defaults, `Defaulted` follows the seed through its four tables: a default
  is there once, or what stood in its way is on record, or it is still to come.
- **BrowserProofs**: `AddressesSettle` (`RedirectsEnd`), `NobodyElsesData` (`OwnDataOnly`),
  `SpinnersWaitForRequests` (`SpinnersHaveCause`), `TypedOnce` (`SavedOnce`), `PatienceShows`
  (`PatientSeesTruth`) and `BrowserTypes`. A tab shows one of three parts for good, so there are three
  invariants. `TrailHolds`: the number of redirects so far says who made them and where the address is
  now. `UserHolds`: what was begun in a dashboard that is gone is only a change under way; every
  overview that is asked for or shown is of an account in `held`; the dashboard is loading only if an
  overview is on its way or it has lost its token; and while the user waits there is one function,
  which knows what the server has. `AdminHolds`: one save at a
  time; what is in the form or on its way from there has not been saved; while the admin waits there
  is one function, and it has yet to load all that is not up to date.

Only model-checked: `EventuallyFresh` and `ShutdownEnds`, because liveness under fairness and ENABLED
are out of the prover's reach. The two properties that are violated (`TrafficAddsUp`,
`AdmitsCurrentPath`) have no theorem, of course; what holds in their stead has (`NeverOvercharged`
with `LostOnlyByOverlap`, `DecidesOnCurrentPath`). Facts about recursive definitions for every input
are out of reach, too; no module here needs a recursive operator.

## 7. Not modelled, and the plan

- *Payload decoding* (server.go 1998-2272) coerces fields of requests and keeps no state.
- *Formats of a subscription*, templates, statistics and configuration: texts and sums, no state that
  lasts. What a body is made of is in `SubscriptionBody`.
- *Notices and the visible part of servers*: single statements of one table. `AdminPages` has their
  forms and lists, `NodeUsers` the rows of servers that nodes write too, `Process` their seed.
- *The legacy scripts* are embedded and served under `/static`, but no page the server renders loads
  them: `renderPage` has two templates, and both mount the application.
- *Vendored and built assets* (umi, its locales, the built application) are not this program's own
  source. They are about 10,300 of the 14,731 lines of JavaScript and TypeScript in the repository,
  and the legacy scripts some 1,800 more; of what the application itself is written in, `app.tsx` and
  `api.ts`, the models cover the state and leave out the markup.

What would come next: an abstract register that is read as of some moment of the request, which
`SettingsCache` implements but for the races its history names, with the refinement proved as that of
`QuickLogin` is; and the same for revocation and `Sessions`.
