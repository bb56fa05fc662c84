-------------------------- MODULE SubscriptionLinks --------------------------
(***************************************************************************)
(* The subscription links of the panel: the table subscription_links, the  *)
(* store operations that write it (src/internal/store/store.go,            *)
(* src/internal/store/admin.go) and the HTTP handlers that call them       *)
(* (src/internal/httpapi/server.go).                                       *)
(*                                                                         *)
(* The database has one connection (db.SetMaxOpenConns(1)), so a statement *)
(* or a transaction is one atomic action.  A handler is not: it runs       *)
(* several of them, and other handlers, a cancelled request or a crash may *)
(* come in between.  Between two statements a handler keeps rows it has    *)
(* read in memory; they are its op[p].todo here.                           *)
(*                                                                         *)
(* Named abstractions.                                                     *)
(*  - A row's id stands for its rank in ORDER BY created_at, id: ids are   *)
(*    AUTOINCREMENT, and the wall clock is taken not to run backwards.     *)
(*  - A random suffix (48 bits) is a number never drawn before.            *)
(*  - The name and the timestamps of a row are left out: no property tells *)
(*    them apart, and the code writes them exactly where it writes enabled.*)
(*    TouchSubscriptionLink, which writes timestamps only, changes nothing.*)
(***************************************************************************)
EXTENDS Integers, FiniteSets

CONSTANTS
  Procs,           \* request handlers that may be in flight together
  TypedSuffixes,   \* the suffixes an admin types in by hand
  CustomSuffixes,  \* the normal forms of those
  Canon,           \* normalizeSuffix on TypedSuffixes; Blank if nothing is left
  Blank,           \* the empty string
  Boot,            \* the start-up sequence of the program, run before any handler
  MaxUser, MaxLink, MaxDraw  \* bounds: user ids, link ids, random draws

ASSUME ConstantsAssumption ==
  /\ Canon \in [TypedSuffixes -> CustomSuffixes \cup {Blank}]
  /\ Blank \notin CustomSuffixes \cup TypedSuffixes \cup Int
  /\ (TypedSuffixes \cup CustomSuffixes) \cap Int = {}
  /\ Boot \notin Procs
  /\ MaxUser \in Nat /\ MaxLink \in Nat /\ MaxDraw \in Nat

VARIABLES
  users,     \* ids in the table users
  lastUser,  \* its AUTOINCREMENT counter
  links,     \* the table subscription_links: a function from id to row
  lastLink,  \* its AUTOINCREMENT counter
  drawn,     \* how many random suffixes were drawn so far
  phase,     \* "seed" and "ensure" while the program starts, then "serving"
  seeds,     \* default accounts this start still has to create
  ensure,    \* users EnsureDefaultSubscriptionLinks still has to look at
  op,        \* what each handler, and the start-up sequence, is doing
  watch      \* history: what a reset listed, and who wrote since

vars == <<users, lastUser, links, lastLink, drawn, phase, seeds, ensure, op, watch>>

Actors == Procs \cup {Boot}
UserIds == 1 .. MaxUser
Idle == [kind |-> "idle", user |-> 0, todo |-> {}]
Quiet == [before |-> {}, typed |-> FALSE, touched |-> FALSE]

(* Rows of the table, and rows as a handler holds them in memory.          *)
Suffixes == CustomSuffixes \cup 1 .. drawn
Row == [user : UserIds, suffix : Suffixes, primary : BOOLEAN, enabled : BOOLEAN]
HeldRow == [id : 1 .. lastLink, user : UserIds, primary : BOOLEAN, enabled : BOOLEAN,
            suffix : Suffixes \cup TypedSuffixes]

Owned(L, u) == {i \in DOMAIN L : L[i].user = u}
HasPrimary(L, u) == \E i \in Owned(L, u) : L[i].primary
Taken(L, i, s) == \E j \in DOMAIN L \ {i} : L[j].suffix = s
Resolves(L, s) == \E j \in DOMAIN L : L[j].suffix = s
Held(i) == [id |-> i, user |-> links[i].user, suffix |-> links[i].suffix,
            primary |-> links[i].primary, enabled |-> links[i].enabled]

\* ListSubscriptionLinksByUserID.  Mutant: only the enabled links.
ListedEnabled(u) == {Held(i) : i \in {j \in Owned(links, u) : links[j].enabled}}
Listed(u) == {Held(i) : i \in Owned(links, u)}

-----------------------------------------------------------------------------
(* The SQL transactions, as functions of the table.                        *)

\* UPDATE ... SET is_primary = 0 WHERE user_id = ?, run for a primary link only.
Demoted(L, w) ==
  IF w.primary
  THEN [i \in DOMAIN L |-> IF L[i].user = w.user THEN [L[i] EXCEPT !.primary = FALSE] ELSE L[i]]
  ELSE L

\* Mutant: no transaction around the demotion and the INSERT.
InsertedNotAtomic(L, i, w) ==
  IF Taken(L, i, w.suffix) THEN Demoted(L, w)
  ELSE [j \in DOMAIN L \cup {i} |-> IF j = i THEN w ELSE Demoted(L, w)[j]]
\* CreateSubscriptionLink's transaction: the UNIQUE suffix rolls all of it back.
Inserted(L, i, w) ==
  IF Taken(L, i, w.suffix) THEN L
  ELSE [j \in DOMAIN L \cup {i} |-> IF j = i THEN w ELSE Demoted(L, w)[j]]

\* Mutants: the other links are not demoted; they are demoted after the write.
UpdatedNoDemotion(L, w) ==
  IF w.id \in DOMAIN L /\ Taken(L, w.id, w.suffix) THEN L
  ELSE [j \in DOMAIN L |->
         IF j = w.id
         THEN [L[j] EXCEPT !.suffix = w.suffix, !.primary = w.primary, !.enabled = w.enabled]
         ELSE L[j]]
UpdatedDemotesLast(L, w) ==
  IF w.id \in DOMAIN L /\ Taken(L, w.id, w.suffix) THEN L
  ELSE Demoted([j \in DOMAIN L |->
         IF j = w.id
         THEN [L[j] EXCEPT !.suffix = w.suffix, !.primary = w.primary, !.enabled = w.enabled]
         ELSE L[j]], w)
\* UpdateSubscriptionLink's transaction.  Without a row w.id the second UPDATE
\* matches nothing, which is no error: the demotion is committed all the same.
Updated(L, w) ==
  IF w.id \in DOMAIN L /\ Taken(L, w.id, w.suffix) THEN L
  ELSE [j \in DOMAIN L |->
         IF j = w.id
         THEN [L[j] EXCEPT !.suffix = w.suffix, !.primary = w.primary, !.enabled = w.enabled]
         ELSE Demoted(L, w)[j]]

\* Mutant: nobody is promoted.
DeletedNoHeir(L, i) == [j \in DOMAIN L \ {i} |-> L[j]]
\* DeleteSubscriptionLink's transaction: the user's oldest other link becomes
\* the primary one when the primary one goes.
Deleted(L, i) ==
  LET rest == DOMAIN L \ {i}
      heir(j) == /\ L[i].primary /\ L[j].user = L[i].user
                 /\ \A k \in rest : L[k].user = L[i].user => j <= k
  IN  [j \in rest |-> IF heir(j) THEN [L[j] EXCEPT !.primary = TRUE] ELSE L[j]]

\* normalizeSuffix: what is left of a typed suffix, or a random one.
Normal(s) ==
  IF s \notin TypedSuffixes THEN s
  ELSE IF Canon[s] = Blank THEN drawn + 1 ELSE Canon[s]
Draws(s) == s \in TypedSuffixes /\ Canon[s] = Blank

\* One random suffix is drawn when b holds.
Draw(b) == /\ b => drawn < MaxDraw
           /\ drawn' = IF b THEN drawn + 1 ELSE drawn

\* History only: actor a has written links of user u, with a suffix that a
\* person chose if typed holds; every reset in flight takes note.
Note(a, u, typed) ==
  watch' = [p \in Procs |->
             IF p # a /\ op[p].kind = "reset"
             THEN [watch[p] EXCEPT !.typed = @ \/ typed, !.touched = @ \/ op[p].user = u]
             ELSE watch[p]]

-----------------------------------------------------------------------------
(* Creating an account: Store.CreateUser runs two transactions.            *)

\* INSERT INTO users: the handler goes on with the new id.
InsertUser(a) ==
  /\ op[a] = Idle
  /\ lastUser < MaxUser
  /\ lastUser' = lastUser + 1
  /\ users' = users \cup {lastUser + 1}
  /\ op' = [op EXCEPT ![a] = [kind |-> "create", user |-> lastUser + 1, todo |-> {}]]
  /\ UNCHANGED <<links, lastLink, drawn, phase, ensure, watch>>

\* A primary, enabled link with a random suffix for user u.
InsertDefaultLink(a, u) ==
  /\ lastLink < MaxLink
  /\ Draw(TRUE)
  /\ lastLink' = lastLink + 1
  /\ links' = Inserted(links, lastLink + 1,
                [user |-> u, suffix |-> drawn + 1, primary |-> TRUE, enabled |-> TRUE])
  /\ Note(a, u, FALSE)

\* The second half.  UserByID comes first: if the account was deleted meanwhile,
\* that was before the look, which ends the handler, or after it, and the link is
\* created all the same.
LinkUser(a) ==
  /\ op[a].kind = "create"
  /\ op' = [op EXCEPT ![a] = Idle]
  /\ \/ InsertDefaultLink(a, op[a].user)
     \/ /\ op[a].user \notin users
        /\ UNCHANGED <<links, lastLink, drawn, watch>>
  /\ UNCHANGED <<users, lastUser, phase, seeds, ensure>>

-----------------------------------------------------------------------------
(* Handlers.                                                               *)

\* passportRegister, adminUserGenerate.
CreateUser(p) ==
  /\ phase = "serving"
  /\ InsertUser(p)
  /\ UNCHANGED seeds

\* adminSubscriptionSave without an id.  The user id is not looked up.
AdminCreate(p, u, s, primary) ==
  LET random == s = Blank \/ Draws(s)
      suffix == IF s = Blank THEN drawn + 1 ELSE Normal(s)
  IN  /\ phase = "serving" /\ op[p] = Idle
      /\ lastLink < MaxLink
      /\ Draw(random)
      /\ links' = Inserted(links, lastLink + 1,
                    [user |-> u, suffix |-> suffix, primary |-> primary, enabled |-> TRUE])
      /\ lastLink' = IF links' = links THEN lastLink ELSE lastLink + 1
      /\ Note(p, u, TRUE)
      /\ UNCHANGED <<users, lastUser, phase, seeds, ensure, op>>

\* adminSubscriptionSave with an id: the row is read, then changed in memory.
AdminSaveRead(p, i, s, primary, enabled) ==
  LET row == [Held(i) EXCEPT !.primary = primary, !.enabled = enabled,
                             !.suffix = IF s = Blank THEN @ ELSE s]
  IN  /\ phase = "serving" /\ op[p] = Idle
      /\ i \in DOMAIN links
      /\ op' = [op EXCEPT ![p] = [kind |-> "save", user |-> row.user, todo |-> {row}]]
      /\ UNCHANGED <<users, lastUser, links, lastLink, drawn, phase, seeds, ensure, watch>>

\* ... and written back, by its id.
AdminSaveWrite(p) ==
  /\ op[p].kind = "save"
  /\ \E w \in op[p].todo :
       /\ Draw(Draws(w.suffix))
       /\ links' = Updated(links, [w EXCEPT !.suffix = Normal(@)])
       /\ Note(p, w.user, TRUE)
  /\ op' = [op EXCEPT ![p] = Idle]
  /\ UNCHANGED <<users, lastUser, lastLink, phase, seeds, ensure>>

\* adminSubscriptionDrop.
AdminDrop(p, i) ==
  /\ phase = "serving" /\ op[p] = Idle
  /\ i \in DOMAIN links
  /\ links' = Deleted(links, i)
  /\ Note(p, links[i].user, FALSE)
  /\ UNCHANGED <<users, lastUser, lastLink, drawn, phase, seeds, ensure, op>>

\* adminUserDestroy: Store.DeleteUser's transaction.
DeleteUser(p, u) ==
  /\ phase = "serving" /\ op[p] = Idle
  /\ u \in users
  /\ users' = users \ {u}
  /\ links' = [i \in DOMAIN links \ Owned(links, u) |-> links[i]]
  /\ Note(p, u, FALSE)
  /\ UNCHANGED <<lastUser, lastLink, drawn, phase, seeds, ensure, op>>

\* ResetUserSubscriptionLinks, called by userResetSecurity, adminUserResetSecret
\* and adminSubscriptionReset: the rows are listed once ...
ResetList(p, u) ==
  /\ phase = "serving" /\ op[p] = Idle
  /\ op' = [op EXCEPT ![p] = [kind |-> "reset", user |-> u, todo |-> Listed(u)]]
  /\ watch' = [watch EXCEPT ![p] = [before |-> {Held(i) : i \in Owned(links, u)},
                                    typed |-> FALSE, touched |-> FALSE]]
  /\ UNCHANGED <<users, lastUser, links, lastLink, drawn, phase, seeds, ensure>>

\* ... and written back one by one, the primary one first, each with a new
\* suffix and with everything else as it was listed.
ResetStep(p) ==
  LET precedes(v, w) == \/ v.primary /\ ~w.primary
                        \/ v.primary = w.primary /\ v.id <= w.id
  IN  /\ op[p].kind = "reset"
      /\ \E w \in op[p].todo :
           /\ \A v \in op[p].todo : precedes(w, v)
           /\ Draw(TRUE)
           /\ links' = Updated(links, [w EXCEPT !.suffix = drawn + 1])
           /\ op' = [op EXCEPT ![p].todo = @ \ {w}]
      /\ Note(p, op[p].user, FALSE)
      /\ UNCHANGED <<users, lastUser, lastLink, phase, seeds, ensure>>

ResetReply(p) ==
  /\ op[p].kind = "reset" /\ op[p].todo = {}
  /\ op' = [op EXCEPT ![p] = Idle]
  /\ watch' = [watch EXCEPT ![p] = Quiet]
  /\ UNCHANGED <<users, lastUser, links, lastLink, drawn, phase, seeds, ensure>>

\* The client goes away: the request context is cancelled, and the handler's
\* next statement returns an error.
Abort(p) ==
  /\ op[p] # Idle
  /\ op' = [op EXCEPT ![p] = Idle]
  /\ watch' = [watch EXCEPT ![p] = Quiet]
  /\ UNCHANGED <<users, lastUser, links, lastLink, drawn, phase, seeds, ensure>>

-----------------------------------------------------------------------------
(* Start-up: bootstrap seeds two accounts in an empty database, then gives *)
(* a link to every user that has none.                                     *)

SeedUser ==
  /\ phase = "seed" /\ seeds > 0
  /\ InsertUser(Boot)
  /\ seeds' = seeds - 1

\* The second, demo account may fail to be created: that error is ignored.
SeedDemoFails ==
  /\ phase = "seed"
  /\ \/ seeds = 1 /\ op[Boot] = Idle
     \/ seeds = 0 /\ op[Boot] # Idle
  /\ seeds' = 0
  /\ op' = [op EXCEPT ![Boot] = Idle]
  /\ UNCHANGED <<users, lastUser, links, lastLink, drawn, phase, ensure, watch>>

\* Mutant: only the first start looks for users without a link.
EnsureListOnce ==
  /\ phase = "seed" /\ seeds = 0 /\ op[Boot] = Idle
  /\ phase' = "ensure"
  /\ ensure' = IF lastLink = 0 THEN users ELSE {}
  /\ UNCHANGED <<users, lastUser, links, lastLink, drawn, seeds, op, watch>>
EnsureList ==
  /\ phase = "seed" /\ seeds = 0 /\ op[Boot] = Idle
  /\ phase' = "ensure"
  /\ ensure' = users
  /\ UNCHANGED <<users, lastUser, links, lastLink, drawn, seeds, op, watch>>

\* One round of the loop: count the user's links, create one if there is none.
EnsureUser(u) ==
  /\ phase = "ensure"
  /\ u \in ensure
  /\ ensure' = ensure \ {u}
  /\ IF Owned(links, u) = {}
     THEN InsertDefaultLink(Boot, u)
     ELSE UNCHANGED <<links, lastLink, drawn, watch>>
  /\ UNCHANGED <<users, lastUser, phase, seeds, op>>

Serve ==
  /\ phase = "ensure" /\ ensure = {}
  /\ phase' = "serving"
  /\ UNCHANGED <<users, lastUser, links, lastLink, drawn, seeds, ensure, op, watch>>

\* The process dies, at any point, and starts again on the same database.
Crash ==
  /\ phase' = "seed"
  /\ seeds' = IF users = {} THEN 2 ELSE 0
  /\ ensure' = {}
  /\ op' = [a \in Actors |-> Idle]
  /\ watch' = [p \in Procs |-> Quiet]
  /\ UNCHANGED <<users, lastUser, links, lastLink, drawn>>

-----------------------------------------------------------------------------
Init ==
  /\ users = {} /\ lastUser = 0
  /\ links = [i \in {} |-> {}] /\ lastLink = 0
  /\ drawn = 0
  /\ phase = "seed" /\ seeds = 2 /\ ensure = {}
  /\ op = [a \in Actors |-> Idle]
  /\ watch = [p \in Procs |-> Quiet]

\* What an admin may type: something new, a suffix a form still shows, nothing.
Typed == TypedSuffixes \cup 1 .. drawn \cup {Blank}

Handler(p) ==
  \/ CreateUser(p)
  \/ LinkUser(p)
  \/ \E u \in UserIds, s \in Typed, b \in BOOLEAN : AdminCreate(p, u, s, b)
  \/ \E i \in DOMAIN links, s \in Typed, b \in BOOLEAN, e \in BOOLEAN : AdminSaveRead(p, i, s, b, e)
  \/ AdminSaveWrite(p)
  \/ \E i \in DOMAIN links : AdminDrop(p, i)
  \/ \E u \in UserIds : DeleteUser(p, u)
  \/ \E u \in UserIds : ResetList(p, u)
  \/ ResetStep(p)
  \/ ResetReply(p)
  \/ Abort(p)

Startup ==
  \/ SeedUser
  \/ LinkUser(Boot)
  \/ SeedDemoFails
  \/ EnsureList
  \/ \E u \in ensure : EnsureUser(u)
  \/ Serve
  \/ Crash

Next == Startup \/ \E p \in Procs : Handler(p)

Spec == Init /\ [][Next]_vars

-----------------------------------------------------------------------------
(* Properties.                                                             *)

\* The type invariant.
TypeOK ==
  /\ users \subseteq 1 .. lastUser
  /\ lastUser \in 0 .. MaxUser
  /\ lastLink \in 0 .. MaxLink
  /\ drawn \in 0 .. MaxDraw
  /\ DOMAIN links \subseteq 1 .. lastLink
  /\ \A i \in DOMAIN links : links[i] \in Row
  /\ phase \in {"seed", "ensure", "serving"}
  /\ seeds \in 0 .. 2
  /\ ensure \subseteq 1 .. lastUser
  /\ op \in [Actors -> [kind : {"idle", "create", "save", "reset"},
                        user : 0 .. MaxUser, todo : SUBSET HeldRow]]
  /\ watch \in [Procs -> [before : SUBSET HeldRow, typed : BOOLEAN, touched : BOOLEAN]]

\* However the handlers interleave, whatever stale rows they write back and
\* whatever they fail at, a user never has two primary links: nothing in the
\* schema says so, every writer has to demote the others in its transaction.
AtMostOnePrimary ==
  \A i, j \in DOMAIN links :
    links[i].user = links[j].user /\ links[i].primary /\ links[j].primary => i = j

\* A reset that has written its last link has revoked every suffix it listed,
\* whatever resets, drops, deletions and new accounts ran at the same time --
\* unless an admin's own suffix was saved meanwhile (a save that read the row
\* earlier writes the revoked suffix back).
ResetRevokes ==
  \A p \in Procs :
    op[p].kind = "reset" /\ op[p].todo = {} /\ ~watch[p].typed =>
      \A w \in watch[p].before : ~Resolves(links, w.suffix)

\* A reset alone with its user's links changes suffixes and nothing else: the
\* same links, the same primary one, the same enabled ones.
ResetPreserves ==
  \A p \in Procs :
    op[p].kind = "reset" /\ op[p].todo = {} /\ ~watch[p].touched =>
      /\ Owned(links, op[p].user) = {w.id : w \in watch[p].before}
      /\ \A w \in watch[p].before :
           links[w.id].primary = w.primary /\ links[w.id].enabled = w.enabled

LosesPrimary(u) ==
  HasPrimary(links, u) /\ ~HasPrimary(links', u) /\ Owned(links', u) # {}

\* A user who keeps some link loses the primary one only to an update that was
\* asked to clear it, or that still held a link deleted since.  A drop, a
\* refused duplicate suffix, a new link, an abort, a crash never does it.
PrimaryLostOnlyByUpdate ==
  [][\A u \in UserIds : LosesPrimary(u) =>
       \E p \in Procs : \E w \in op[p].todo \ op'[p].todo :
         /\ w.user = u
         /\ IF w.id \in DOMAIN links THEN links[w.id].primary /\ ~w.primary ELSE w.primary]_vars

\* Store.CreateUser may be cut between its two transactions, and an admin may
\* drop a user's last link: once a start-up is over every user has a link again.
StartupRepairs ==
  [][phase # "serving" /\ phase' = "serving" => \A u \in users : Owned(links, u) # {}]_vars
=============================================================================
