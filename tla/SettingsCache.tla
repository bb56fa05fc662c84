---------------------------- MODULE SettingsCache ----------------------------
(***************************************************************************)
(* The panel's settings and their cache: Store.AppSettings and             *)
(* Store.UpdateSettings (src/internal/store/store.go) under the admin      *)
(* requests that reach them through adminPathMiddleware                    *)
(* (src/internal/httpapi/server.go).                                       *)
(*                                                                         *)
(* The settings live in one table, written in one transaction.  With Redis *)
(* configured they are read through one cache key with a lifetime of five  *)
(* minutes; a save deletes the key after its commit.  Every error of Redis *)
(* is dropped by the code, so every cache call here may fail silently; a   *)
(* handler without Redis does what it does when all of them fail.          *)
(*                                                                         *)
(* Abstraction: of the settings only secure_path is told apart from the    *)
(* rest, and the rest is one value, title.  Who may call the admin API     *)
(* (adminMiddleware) is another module's matter.                           *)
(***************************************************************************)
EXTENDS Integers, FiniteSets

CONSTANTS
  Procs,      \* requests that may be in flight together
  Paths,      \* admin paths
  Titles,     \* values of the other settings
  Initial,    \* the settings the start-up stored
  Miss,       \* what the cache holds when it holds nothing
  CacheFails, \* may calls to Redis fail
  MaxSaves    \* bound: how many saves commit

Settings == [path : Paths, title : Titles]

ASSUME SettingsAssumption ==
  /\ Initial \in Settings
  /\ Miss \notin Settings
  /\ CacheFails \in BOOLEAN
  /\ MaxSaves \in Nat

VARIABLES
  db,     \* the table settings
  cache,  \* the Redis key with the settings, or Miss
  req,    \* what each request is doing
  saves,  \* how many saves have committed
  past,   \* history: every state of the settings that was asked for
  open,   \* history: paths replaced by saves that were not answered
  raced   \* history: what may have left an old value in the cache

vars == <<db, cache, req, saves, past, open, raced>>

Idle == [pc |-> "idle", path |-> Initial.path, got |-> Initial, old |-> Initial.path,
         window |-> {}, tainted |-> FALSE, again |-> FALSE]

\* A request moves on; r's other fields are given by the caller.
Goto(p, pc) == req' = [req EXCEPT ![p].pc = pc]

\* A save that is not yet answered is at pc "invalidate" or "reply".
Unanswered(p) == req[p].pc \in {"invalidate", "reply"}

-----------------------------------------------------------------------------
(* adminPathMiddleware and AppSettings.                                    *)

\* The request comes in on some path.  History: window collects the paths that
\* are current at some time while it runs; a save counts from its commit, and
\* what it replaced counts until it, or a later save, is answered.
Arrive(p, path) ==
  /\ req[p].pc = "idle"
  /\ req' = [req EXCEPT ![p] =
       [Idle EXCEPT !.pc = "get", !.path = path,
                    !.window = {db.path} \cup open]]
  /\ UNCHANGED <<db, cache, saves, past, open, raced>>

\* cache.GetJSON: a hit is final.  Mutant: a miss is taken for a hit.
CacheGetUnchecked(p) ==
  /\ req[p].pc = "get"
  /\ req' = [req EXCEPT ![p].pc = "check", ![p].got = cache, ![p].tainted = raced]
  /\ UNCHANGED <<db, cache, saves, past, open, raced>>
CacheGet(p) ==
  /\ req[p].pc = "get"
  /\ \/ /\ cache # Miss
        /\ req' = [req EXCEPT ![p].pc = "check", ![p].got = cache, ![p].tainted = raced]
     \/ /\ cache = Miss \/ CacheFails
        /\ Goto(p, "query")
  /\ UNCHANGED <<db, cache, saves, past, open, raced>>

\* SELECT key, value FROM settings.
Query(p) ==
  /\ req[p].pc = "query"
  /\ req' = [req EXCEPT ![p].pc = "fill", ![p].got = db]
  /\ UNCHANGED <<db, cache, saves, past, open, raced>>

\* cacheSettings: what was read goes into the cache, however long ago.
Fill(p) ==
  /\ req[p].pc = "fill"
  /\ \/ /\ cache' = req[p].got
        /\ raced' = (req[p].got # db)
     \/ /\ CacheFails
        /\ UNCHANGED <<cache, raced>>
  /\ Goto(p, "check")
  /\ UNCHANGED <<db, saves, past, open>>

\* The path of the URL is compared with configuredAdminPath: 404, or go on.  A
\* handler that has read the settings itself answers with them.
Check(p) ==
  /\ req[p].pc = "check"
  /\ IF req[p].path = req[p].got.path /\ ~req[p].again
     THEN Goto(p, "admitted")
     ELSE req' = [req EXCEPT ![p] = Idle]
  /\ UNCHANGED <<db, cache, saves, past, open, raced>>

-----------------------------------------------------------------------------
(* Handlers behind it.                                                     *)

\* adminConfigFetch, and the other handlers that read the settings: once more, after
\* the middleware has.
Fetch(p) ==
  /\ req[p].pc = "admitted"
  /\ req' = [req EXCEPT ![p].pc = "get", ![p].again = TRUE, ![p].tainted = FALSE]
  /\ UNCHANGED <<db, cache, saves, past, open, raced>>

\* A handler answers: one that needs no settings, or a save that is done.
Answer(p) ==
  /\ req[p].pc \in {"admitted", "reply"}
  /\ open' = IF req[p].pc = "reply"
              THEN {req[q].old : q \in {r \in Procs \ {p} : Unanswered(r)}}
              ELSE open
  /\ req' = [req EXCEPT ![p] = Idle]
  /\ UNCHANGED <<db, cache, saves, past, raced>>

\* The transaction of UpdateSettings.  Mutant: the connection is lost between
\* two statements that no transaction holds together.
CommittedTorn(new) == db' = [db EXCEPT !.path = new.path]
Committed(new) == db' = new

\* adminConfigSave, adminThemeSaveThemeConfig: new is what the upsert of the
\* given keys makes of the table.
Save(p, new) ==
  /\ req[p].pc = "admitted"
  /\ saves < MaxSaves
  /\ saves' = saves + 1
  /\ Committed(new)
  /\ past' = past \cup {new}
  /\ open' = open \cup {db.path}
  /\ req' = [q \in Procs |->
       IF q = p THEN [req[p] EXCEPT !.pc = "invalidate", !.old = db.path]
       ELSE IF req[q].pc = "idle" THEN Idle
       ELSE [req[q] EXCEPT !.window = @ \cup {new.path}]]
  /\ UNCHANGED <<cache, raced>>

\* cache.Delete after the commit.  Mutant: it is forgotten.
InvalidateNothing(p) ==
  /\ req[p].pc = "invalidate"
  /\ Goto(p, "reply")
  /\ UNCHANGED <<db, cache, saves, past, open, raced>>
Invalidate(p) ==
  /\ req[p].pc = "invalidate"
  /\ \/ /\ cache' = Miss
        /\ raced' = FALSE
     \/ /\ CacheFails
        /\ raced' = TRUE
        /\ UNCHANGED cache
  /\ Goto(p, "reply")
  /\ UNCHANGED <<db, saves, past, open>>

-----------------------------------------------------------------------------
(* What else happens.                                                      *)

\* The client goes away: the cancelled context fails the next statement or
\* cache call, a Delete included.
Abort(p) ==
  /\ req[p].pc # "idle"
  /\ raced' = (raced \/ req[p].pc = "invalidate")
  /\ req' = [req EXCEPT ![p] = Idle]
  /\ UNCHANGED <<db, cache, saves, past, open>>

\* The program dies and starts again; Redis and the database stay.
Crash ==
  /\ raced' = (raced \/ \E p \in Procs : req[p].pc = "invalidate")
  /\ req' = [p \in Procs |-> Idle]
  /\ UNCHANGED <<db, cache, saves, past, open>>

\* Redis drops the key: settingsCacheTTL is over, or someone flushes it.
\* Mutant: the key is set without a lifetime.
ExpireNever == FALSE /\ UNCHANGED vars
Expire ==
  /\ cache # Miss
  /\ cache' = Miss
  /\ raced' = FALSE
  /\ UNCHANGED <<db, req, saves, past, open>>

-----------------------------------------------------------------------------
Init ==
  /\ db = Initial
  /\ cache = Miss
  /\ req = [p \in Procs |-> Idle]
  /\ saves = 0
  /\ past = {Initial}
  /\ open = {}
  /\ raced = FALSE

\* The steps of a request that the program takes by itself.
Step(p) ==
  \/ CacheGet(p)
  \/ Query(p)
  \/ Fill(p)
  \/ Check(p)
  \/ Invalidate(p)
  \/ Answer(p)

Next ==
  \/ \E p \in Procs :
       \/ \E path \in Paths : Arrive(p, path)
       \/ Step(p)
       \/ Fetch(p)
       \/ \E new \in Settings \ {db} : Save(p, new)
       \/ Abort(p)
  \/ Crash
  \/ Expire

Spec == Init /\ [][Next]_vars

\* A handler, once started, runs on; a key with a lifetime goes away.  Nobody
\* has to send requests or save anything.
Fairness == WF_vars(Expire) /\ \A p \in Procs : WF_vars(Step(p))
FairSpec == Spec /\ Fairness

-----------------------------------------------------------------------------
(* Properties.                                                             *)

TypeOK ==
  /\ db \in Settings
  /\ cache \in Settings \cup {Miss}
  /\ saves \in 0 .. MaxSaves
  /\ past \subseteq Settings
  /\ open \subseteq Paths
  /\ raced \in BOOLEAN
  /\ req \in [Procs -> [pc : {"idle", "get", "query", "fill", "check", "admitted",
                              "invalidate", "reply"},
                        path : Paths, got : Settings, old : Paths, window : SUBSET Paths,
                        tainted : BOOLEAN, again : BOOLEAN]]

\* Settings are served as one save left them, never half of one and half of
\* another, from the cache as from the table.
ServesSnapshots ==
  \A p \in Procs : req[p].pc = "check" => req[p].got \in past

\* A request is let in only on a path that was current while it ran: once a
\* save is answered, the path it replaced no longer opens the admin API.
AdmitsCurrentPath ==
  \A p \in Procs : req[p].pc = "admitted" => req[p].path \in req[p].window

\* The only ways to decide on an old path, to let it in, to turn away the new one or
\* to show it to the admin, are a fill that was read before a commit and stored after it, and a
\* Delete that failed or was never reached -- and then until the key is deleted,
\* overwritten or over.  Without Redis there are none.
DecidesOnCurrentPath ==
  \A p \in Procs : req[p].pc = "check" /\ ~req[p].tainted => req[p].got.path \in req[p].window

\* Whatever has raced or failed, when the saves are over the cache ends up with
\* the current settings or with nothing.
EventuallyFresh == <>[](cache \in {Miss, db})
=============================================================================
