-------------------------- MODULE SettingsCacheProofs -------------------------
(***************************************************************************)
(* Proofs about SettingsCache, for any number of requests, paths, saves    *)
(* and settings, with calls to Redis that fail or not: what is served is   *)
(* what one save left, and a request that decides on a path that was not   *)
(* current while it ran has met one of the two known races.                *)
(***************************************************************************)
EXTENDS SettingsCache, TLAPS

\* A request that has not decided yet, or that may ask once more.
Asking(p) == req[p].pc \in {"get", "query", "fill", "check", "admitted"}

(* Why the deciding is right.  A save leaves the old value in the cache    *)
(* until it deletes it, so the cache is explained by the table or by a     *)
(* save that has still to delete; the path such a save replaced is still   *)
(* owed to everyone who asks, so it is in the windows of the requests that *)
(* run and in open for those that come.                                    *)

\* Everything that can be served is a state of the table.
Snapshots ==
  /\ {db, Initial} \subseteq past
  /\ cache \in past \cup {Miss}
  /\ \A p \in Procs : req[p].got \in past

\* The window of a request holds the current path and all that are owed.
Windows ==
  \A p \in Procs : Asking(p) =>
    /\ db.path \in req[p].window
    /\ \A q \in Procs : Unanswered(q) => req[q].old \in req[p].window

Owed == \A q \in Procs : Unanswered(q) => req[q].old \in open

CacheExplained ==
  ~raced /\ cache # Miss =>
    \/ cache.path = db.path
    \/ \E q \in Procs : req[q].pc = "invalidate" /\ req[q].old = cache.path

Decided ==
  \A p \in Procs : req[p].pc \in {"fill", "check"} /\ ~req[p].tainted =>
    req[p].got.path \in req[p].window

IInv == TypeOK /\ Snapshots /\ Windows /\ Owed /\ CacheExplained /\ Decided

-----------------------------------------------------------------------------
(* What a step does to the requests, field by field.                       *)

Request ==
  [pc : {"idle", "get", "query", "fill", "check", "admitted", "invalidate", "reply"},
   path : Paths, got : Settings, old : Paths, window : SUBSET Paths,
   tainted : BOOLEAN, again : BOOLEAN]

LEMMA TypeMeans ==
  ASSUME TypeOK
  PROVE  /\ db \in Settings /\ db.path \in Paths
         /\ cache \in Settings \cup {Miss}
         /\ past \subseteq Settings /\ open \subseteq Paths /\ raced \in BOOLEAN
         /\ saves \in Nat /\ MaxSaves \in Nat /\ saves <= MaxSaves
         /\ req \in [Procs -> Request]
  BY SettingsAssumption DEF TypeOK, Settings, Request

LEMMA IdleIs ==
  /\ Idle \in Request
  /\ Idle.pc = "idle" /\ Idle.got = Initial /\ Idle.window = {} /\ Idle.tainted = FALSE
  BY SettingsAssumption DEF Idle, Request, Settings

\* One request is given a new record.
Becomes(p, new) == req' = [req EXCEPT ![p] = new]

LEMMA BecomesDoes ==
  ASSUME NEW p \in Procs, req \in [Procs -> Request], NEW new \in Request, Becomes(p, new)
  PROVE  /\ req' \in [Procs -> Request]
         /\ req'[p] = new
         /\ \A q \in Procs \ {p} : req'[q] = req[q]
  BY DEF Becomes

\* The records the steps give.
At(r, pc) == [r EXCEPT !.pc = pc]
Holding(r, pc, got, tainted) == [r EXCEPT !.pc = pc, !.got = got, !.tainted = tainted]
Came(path, window) == [Idle EXCEPT !.pc = "get", !.path = path, !.window = window]
Saved(r, old) == [r EXCEPT !.pc = "invalidate", !.old = old]
Told(r, path) == [r EXCEPT !.window = @ \cup {path}]
Back(r) == [r EXCEPT !.pc = "get", !.again = TRUE, !.tainted = FALSE]

Pcs == {"idle", "get", "query", "fill", "check", "admitted", "invalidate", "reply"}

LEMMA AtIs ==
  ASSUME NEW r \in Request, NEW pc \in Pcs
  PROVE  /\ At(r, pc) \in Request /\ At(r, pc).pc = pc /\ At(r, pc).got = r.got
         /\ At(r, pc).old = r.old /\ At(r, pc).window = r.window
         /\ At(r, pc).path = r.path
  BY DEF At, Request, Pcs
LEMMA AtTainted ==
  ASSUME NEW r \in Request, NEW pc \in Pcs
  PROVE  At(r, pc).tainted = r.tainted
  BY DEF At, Request, Pcs
LEMMA HoldingIs ==
  ASSUME NEW r \in Request, NEW pc \in Pcs, NEW got \in Settings, NEW tainted \in BOOLEAN
  PROVE  /\ Holding(r, pc, got, tainted) \in Request
         /\ Holding(r, pc, got, tainted).pc = pc
         /\ Holding(r, pc, got, tainted).got = got
         /\ Holding(r, pc, got, tainted).old = r.old
         /\ Holding(r, pc, got, tainted).window = r.window
  BY DEF Holding, Request, Pcs
LEMMA HoldingTainted ==
  ASSUME NEW r \in Request, NEW pc, NEW got, NEW tainted \in BOOLEAN
  PROVE  Holding(r, pc, got, tainted).tainted = tainted
  BY DEF Holding, Request
LEMMA CameIs ==
  ASSUME NEW path \in Paths, NEW window \in SUBSET Paths
  PROVE  /\ Came(path, window) \in Request /\ Came(path, window).pc = "get"
         /\ Came(path, window).got = Initial /\ Came(path, window).window = window
  BY SettingsAssumption DEF Came, Idle, Request, Settings
LEMMA SavedIs ==
  ASSUME NEW r \in Request, NEW old \in Paths
  PROVE  /\ Saved(r, old) \in Request /\ Saved(r, old).pc = "invalidate"
         /\ Saved(r, old).got = r.got /\ Saved(r, old).old = old
  BY DEF Saved, Request
LEMMA ToldIs ==
  ASSUME NEW r \in Request, NEW path \in Paths
  PROVE  /\ Told(r, path) \in Request /\ Told(r, path).pc = r.pc
         /\ Told(r, path).got = r.got /\ Told(r, path).old = r.old
         /\ Told(r, path).window = r.window \cup {path}
  BY DEF Told, Request
LEMMA ToldTainted ==
  ASSUME NEW r \in Request, NEW path \in Paths
  PROVE  Told(r, path).tainted = r.tainted
  BY DEF Told, Request

LEMMA BackIs ==
  ASSUME NEW r \in Request
  PROVE  /\ Back(r) \in Request /\ Back(r).pc = "get" /\ Back(r).got = r.got
         /\ Back(r).window = r.window
  BY DEF Back, Request

LEMMA TypeStays ==
  ASSUME TypeOK, req' \in [Procs -> Request], saves' \in 0 .. MaxSaves, db' \in Settings,
         cache' \in Settings \cup {Miss}, past' \subseteq Settings, open' \subseteq Paths,
         raced' \in BOOLEAN
  PROVE  TypeOK'
  BY DEF TypeOK, Request

-----------------------------------------------------------------------------
(* A request moves on and leaves the table alone.                          *)

\* What the new record of p has to be.
Fits(p, new) ==
  /\ new.got \in past
  /\ new.pc \in {"get", "query", "fill", "check", "admitted"} =>
       \/ Asking(p) /\ new.window = req[p].window
       \/ {db.path} \cup open \subseteq new.window
  /\ new.pc \in {"invalidate", "reply"} => Unanswered(p) /\ new.old = req[p].old
  /\ new.pc \in {"fill", "check"} /\ ~new.tainted => new.got.path \in new.window

LEMMA Moves ==
  ASSUME IInv, NEW p \in Procs, NEW new \in Request, Becomes(p, new), Fits(p, new),
         UNCHANGED <<db, saves, past, open>>, cache' \in past \cup {Miss}, raced' \in BOOLEAN,
         CacheExplained'
  PROVE  IInv'
<1>1. /\ req' \in [Procs -> Request] /\ req'[p] = new
      /\ \A q \in Procs \ {p} : req'[q] = req[q]
  BY BecomesDoes, TypeMeans DEF IInv
<1>2. TypeOK'
  <2>1. past \subseteq Settings /\ open \subseteq Paths /\ db \in Settings /\ saves \in 0 .. MaxSaves
    BY DEF IInv, TypeOK
  <2> QED BY <1>1, <2>1, TypeStays DEF IInv
<1>3. \A q \in Procs : Unanswered(q)' => Unanswered(q) /\ req'[q].old = req[q].old
  BY <1>1 DEF Fits, Unanswered
<1>4. Snapshots'
  BY <1>1 DEF IInv, Snapshots, Fits
<1>5. Owed'
  BY <1>3 DEF IInv, Owed
<1>6. Windows'
  <2>1. ASSUME NEW q \in Procs \ {p}, Asking(q)' PROVE Asking(q) /\ req'[q].window = req[q].window
    BY <1>1, <2>1 DEF Asking
  <2>2. ASSUME Asking(p)'
        PROVE  \/ Asking(p) /\ req'[p].window = req[p].window
               \/ {db.path} \cup open \subseteq req'[p].window
    BY <1>1, <2>2 DEF Asking, Fits
  <2>3. \A q \in Procs : Unanswered(q) => req[q].old \in open
    BY DEF IInv, Owed
  <2>4. ASSUME NEW r \in Procs, Asking(r)'
        PROVE  /\ db.path \in req'[r].window
               /\ \A q \in Procs : Unanswered(q) => req[q].old \in req'[r].window
    <3>1. CASE Asking(r) /\ req'[r].window = req[r].window
      BY <3>1 DEF IInv, Windows
    <3>2. CASE {db.path} \cup open \subseteq req'[r].window
      BY <3>2, <2>3
    <3> QED BY <2>1, <2>2, <2>4, <3>1, <3>2
  <2> QED BY <1>3, <2>4 DEF Windows
<1>7. Decided'
  <2>1. ASSUME NEW q \in Procs \ {p} PROVE req'[q] = req[q]
    BY <1>1
  <2> QED BY <1>1, <2>1 DEF IInv, Decided, Fits
<1> QED BY <1>2, <1>4, <1>5, <1>6, <1>7 DEF IInv

\* The cache stays explained as long as it is not p that has to delete it.
LEMMA StaysExplained ==
  ASSUME IInv, NEW p \in Procs, NEW new \in Request, Becomes(p, new),
         req[p].pc # "invalidate", UNCHANGED <<db, cache, raced>>
  PROVE  CacheExplained'
<1>1. \A q \in Procs \ {p} : req'[q] = req[q]
  BY BecomesDoes, TypeMeans DEF IInv
<1> QED BY <1>1 DEF IInv, CacheExplained

LEMMA Known ==
  ASSUME IInv, NEW p \in Procs
  PROVE  /\ req[p] \in Request /\ req[p].got \in past /\ req[p].got \in Settings
         /\ past \subseteq Settings /\ db \in past /\ cache \in past \cup {Miss}
         /\ raced \in BOOLEAN /\ req[p].path \in Paths
  BY TypeMeans DEF IInv, Snapshots, Request

LEMMA CacheGetStep == ASSUME IInv, NEW p \in Procs, CacheGet(p) PROVE IInv'
<1>1. UNCHANGED <<db, cache, saves, past, open, raced>> /\ req[p].pc = "get"
  BY DEF CacheGet
<1>2. CASE cache # Miss /\ req' = [req EXCEPT ![p].pc = "check", ![p].got = cache, ![p].tainted = raced]
  <2> DEFINE new == Holding(req[p], "check", cache, raced)
  <2>1. cache \in past /\ cache \in Settings
    BY <1>2, Known
  <2>2. Becomes(p, new)
    BY <1>2 DEF Becomes, Holding
  <2>3. new \in Request /\ new.pc = "check" /\ new.got = cache /\ new.window = req[p].window
    <3>1. req[p] \in Request /\ raced \in BOOLEAN /\ "check" \in Pcs
      BY Known DEF Pcs
    <3> QED BY <2>1, <3>1, HoldingIs
  <2>4. new.tainted = raced
    BY HoldingTainted, Known
  <2> HIDE DEF new
  <2>5. ~raced => cache.path \in req[p].window
    <3>1. Asking(p)
      BY <1>1 DEF Asking
    <3>2. /\ db.path \in req[p].window
          /\ \A q \in Procs : req[q].pc = "invalidate" => req[q].old \in req[p].window
      BY <3>1 DEF IInv, Windows, Unanswered
    <3> QED BY <1>2, <3>2 DEF IInv, CacheExplained
  <2>6. Fits(p, new)
    BY <1>1, <2>1, <2>3, <2>4, <2>5 DEF Fits, Asking
  <2>7. CacheExplained'
    BY <1>1, <2>2, <2>3, StaysExplained
  <2> QED BY <1>1, <2>2, <2>3, <2>6, <2>7, Moves, Known
<1>3. CASE Goto(p, "query")
  <2> DEFINE new == At(req[p], "query")
  <2>1. Becomes(p, new)
    BY <1>3 DEF Becomes, At, Goto
  <2>2. new \in Request /\ new.pc = "query" /\ new.got = req[p].got /\ new.window = req[p].window
    BY AtIs, Known DEF Pcs
  <2> HIDE DEF new
  <2>3. Fits(p, new)
    BY <1>1, <2>2, Known DEF Fits, Asking
  <2>4. CacheExplained'
    BY <1>1, <2>1, <2>2, StaysExplained
  <2> QED BY <1>1, <2>1, <2>2, <2>3, <2>4, Moves, Known
<1> QED BY <1>2, <1>3 DEF CacheGet

LEMMA ArriveStep == ASSUME IInv, NEW p \in Procs, NEW path \in Paths, Arrive(p, path) PROVE IInv'
<1> DEFINE window == {db.path} \cup open
           new == Came(path, window)
<1>1. UNCHANGED <<db, cache, saves, past, open, raced>> /\ req[p].pc = "idle"
  BY DEF Arrive
<1>2. Becomes(p, new)
  BY DEF Becomes, Came, Arrive
<1>3. window \in SUBSET Paths
  BY TypeMeans DEF IInv
<1> HIDE DEF window
<1>4. /\ new \in Request /\ new.pc = "get" /\ new.got = Initial /\ new.window = window
  BY <1>3, CameIs
<1> HIDE DEF new
<1>5. Initial \in past
  BY DEF IInv, Snapshots
<1>6. Fits(p, new)
  BY <1>4, <1>5 DEF Fits, window
<1>7. CacheExplained'
  BY <1>1, <1>2, <1>4, StaysExplained
<1> QED BY <1>1, <1>2, <1>4, <1>6, <1>7, Moves, Known

LEMMA QueryStep == ASSUME IInv, NEW p \in Procs, Query(p) PROVE IInv'
<1> DEFINE new == Holding(req[p], "fill", db, req[p].tainted)
<1>1. UNCHANGED <<db, cache, saves, past, open, raced>> /\ req[p].pc = "query"
  BY DEF Query
<1>2. req[p] \in Request /\ req[p].tainted \in BOOLEAN /\ "fill" \in Pcs /\ db \in Settings
  BY Known, TypeMeans DEF Pcs, Request, IInv
<1>3. req' = [req EXCEPT ![p] = [req[p] EXCEPT !.pc = "fill", !.got = db]]
  BY DEF Query
<1>4. [req[p] EXCEPT !.pc = "fill", !.got = db] = new
  BY <1>2 DEF Holding, Request
<1>5. Becomes(p, new)
  BY <1>3, <1>4 DEF Becomes
<1>6. new \in Request /\ new.pc = "fill" /\ new.got = db /\ new.window = req[p].window
  BY <1>2, HoldingIs
<1> HIDE DEF new
<1>7. db.path \in req[p].window /\ Asking(p)
  BY <1>1 DEF IInv, Windows, Asking
<1>8. Fits(p, new)
  BY <1>6, <1>7, Known DEF Fits
<1>9. CacheExplained'
  BY <1>1, <1>5, <1>6, StaysExplained
<1> QED BY <1>1, <1>5, <1>6, <1>8, <1>9, Moves, Known

LEMMA FillStep == ASSUME IInv, NEW p \in Procs, Fill(p) PROVE IInv'
<1> DEFINE new == At(req[p], "check")
<1>1. UNCHANGED <<db, saves, past, open>> /\ req[p].pc = "fill"
  BY DEF Fill
<1>2. req[p] \in Request /\ "check" \in Pcs
  BY Known DEF Pcs
<1>3. Becomes(p, new)
  BY DEF Becomes, At, Fill, Goto
<1>4. new \in Request /\ new.pc = "check" /\ new.got = req[p].got /\ new.window = req[p].window
  BY <1>2, AtIs
<1>5. new.tainted = req[p].tainted
  BY <1>2, AtTainted
<1> HIDE DEF new
<1>6. ~req[p].tainted => req[p].got.path \in req[p].window
  BY <1>1 DEF IInv, Decided
<1>7. Fits(p, new)
  BY <1>1, <1>4, <1>5, <1>6, Known DEF Fits, Asking
<1>8. CASE cache' = req[p].got /\ raced' = (req[p].got # db)
  <2>1. CacheExplained'
    BY <1>1, <1>8 DEF CacheExplained
  <2> QED BY <1>1, <1>3, <1>4, <1>7, <1>8, <2>1, Moves, Known
<1>9. CASE UNCHANGED <<cache, raced>>
  <2>1. CacheExplained'
    BY <1>1, <1>3, <1>4, <1>9, StaysExplained
  <2> QED BY <1>1, <1>3, <1>4, <1>7, <1>9, <2>1, Moves, Known
<1> QED BY <1>8, <1>9 DEF Fill

LEMMA IdleFits == ASSUME IInv, NEW p \in Procs PROVE Fits(p, Idle)
  BY IdleIs DEF IInv, Snapshots, Fits

LEMMA CheckStep == ASSUME IInv, NEW p \in Procs, Check(p) PROVE IInv'
<1>1. UNCHANGED <<db, cache, saves, past, open, raced>> /\ req[p].pc = "check"
  BY DEF Check
<1>2. CASE Goto(p, "admitted")
  <2> DEFINE new == At(req[p], "admitted")
  <2>1. Becomes(p, new)
    BY <1>2 DEF Becomes, At, Goto
  <2>2. /\ new \in Request /\ new.pc = "admitted" /\ new.got = req[p].got
        /\ new.window = req[p].window
    <3>1. req[p] \in Request /\ "admitted" \in Pcs
      BY Known DEF Pcs
    <3> QED BY <3>1, AtIs
  <2> HIDE DEF new
  <2>3. Fits(p, new)
    BY <1>1, <2>2, Known DEF Fits, Asking
  <2>4. CacheExplained'
    BY <1>1, <2>1, <2>2, StaysExplained
  <2> QED BY <1>1, <2>1, <2>2, <2>3, <2>4, Moves, Known
<1>3. CASE req' = [req EXCEPT ![p] = Idle]
  <2>1. Becomes(p, Idle)
    BY <1>3 DEF Becomes
  <2>2. CacheExplained'
    BY <1>1, <2>1, IdleIs, StaysExplained
  <2> QED BY <1>1, <2>1, <2>2, IdleIs, IdleFits, Moves, Known
<1> QED BY <1>2, <1>3 DEF Check

LEMMA FetchStep == ASSUME IInv, NEW p \in Procs, Fetch(p) PROVE IInv'
<1> DEFINE new == Back(req[p])
<1>1. UNCHANGED <<db, cache, saves, past, open, raced>> /\ req[p].pc = "admitted"
  BY DEF Fetch
<1>2. Becomes(p, new)
  BY DEF Becomes, Back, Fetch
<1>3. new \in Request /\ new.pc = "get" /\ new.got = req[p].got /\ new.window = req[p].window
  BY BackIs, Known
<1> HIDE DEF new
<1>4. Fits(p, new)
  BY <1>1, <1>3, Known DEF Fits, Asking
<1>5. CacheExplained'
  BY <1>1, <1>2, <1>3, StaysExplained
<1> QED BY <1>1, <1>2, <1>3, <1>4, <1>5, Moves, Known

LEMMA InvalidateStep == ASSUME IInv, NEW p \in Procs, Invalidate(p) PROVE IInv'
<1> DEFINE new == At(req[p], "reply")
<1>1. UNCHANGED <<db, saves, past, open>> /\ req[p].pc = "invalidate"
  BY DEF Invalidate
<1>2. Becomes(p, new)
  BY DEF Becomes, At, Invalidate, Goto
<1>3. new \in Request /\ new.pc = "reply" /\ new.got = req[p].got /\ new.old = req[p].old
  <2>1. req[p] \in Request /\ "reply" \in Pcs
    BY Known DEF Pcs
  <2> QED BY <2>1, AtIs
<1> HIDE DEF new
<1>4. Fits(p, new)
  BY <1>1, <1>3, Known DEF Fits, Unanswered
<1>5. cache' \in past \cup {Miss} /\ raced' \in BOOLEAN /\ CacheExplained'
  BY Known DEF Invalidate, CacheExplained
<1> QED BY <1>1, <1>2, <1>3, <1>4, <1>5, Moves

LEMMA AbortStep == ASSUME IInv, NEW p \in Procs, Abort(p) PROVE IInv'
<1>1. UNCHANGED <<db, cache, saves, past, open>> /\ Becomes(p, Idle)
      /\ raced' = (raced \/ req[p].pc = "invalidate")
  BY DEF Abort, Becomes
<1>2. raced' \in BOOLEAN /\ cache' \in past \cup {Miss}
  BY <1>1, Known
<1>3. CacheExplained'
  <2>1. CASE req[p].pc = "invalidate"
    BY <1>1, <2>1 DEF CacheExplained
  <2>2. CASE req[p].pc # "invalidate"
    <3>1. raced' = raced
      BY <1>1, <2>2, Known
    <3> QED BY <1>1, <2>2, <3>1, IdleIs, StaysExplained
  <2> QED BY <2>1, <2>2
<1> QED BY <1>1, <1>2, <1>3, IdleIs, IdleFits, Moves

-----------------------------------------------------------------------------
(* The answer, the save, and what else happens.                            *)

LEMMA AnswerStep == ASSUME IInv, NEW p \in Procs, Answer(p) PROVE IInv'
<1>1. UNCHANGED <<db, cache, saves, past, raced>> /\ Becomes(p, Idle)
      /\ req[p].pc \in {"admitted", "reply"}
  BY DEF Answer, Becomes
<1>2. /\ req' \in [Procs -> Request] /\ req'[p] = Idle
      /\ \A q \in Procs \ {p} : req'[q] = req[q]
  BY <1>1, BecomesDoes, IdleIs, TypeMeans DEF IInv
<1>3. \/ open' = open
      \/ open' = {req[q].old : q \in {r \in Procs \ {p} : Unanswered(r)}}
  BY DEF Answer
<1>4. TypeOK'
  <2>1. past \subseteq Settings /\ open \subseteq Paths /\ db \in Settings /\ saves \in 0 .. MaxSaves
        /\ cache \in Settings \cup {Miss} /\ raced \in BOOLEAN
    BY DEF IInv, TypeOK
  <2>2. \A q \in Procs : req[q].old \in Paths
    BY TypeMeans DEF IInv, Request
  <2>3. open' \subseteq Paths
    BY <1>3, <2>1, <2>2
  <2> QED BY <1>1, <1>2, <2>1, <2>3, TypeStays DEF IInv
<1>5. Snapshots'
  BY <1>1, <1>2, IdleIs DEF IInv, Snapshots
<1>6. ASSUME NEW q \in Procs, Unanswered(q)' PROVE q # p /\ Unanswered(q) /\ req'[q] = req[q]
  BY <1>2, <1>6, IdleIs DEF Unanswered
<1>7. Owed'
  BY <1>3, <1>6 DEF IInv, Owed
<1>8. Windows'
  <2>1. ASSUME NEW q \in Procs, Asking(q)' PROVE Asking(q) /\ req'[q] = req[q]
    BY <1>2, <2>1, IdleIs DEF Asking
  <2> QED BY <1>1, <1>6, <2>1 DEF IInv, Windows
<1>9. CacheExplained'
  BY <1>1, IdleIs, StaysExplained
<1>10. Decided'
  <2>1. \A q \in Procs : req'[q] = req[q] \/ req'[q].pc = "idle"
    BY <1>2, IdleIs
  <2> QED BY <2>1 DEF IInv, Decided
<1> QED BY <1>4, <1>5, <1>7, <1>8, <1>9, <1>10 DEF IInv

LEMMA SaveStep ==
  ASSUME IInv, NEW p \in Procs, NEW new \in Settings, Save(p, new)
  PROVE  IInv'
<1>1. /\ req[p].pc = "admitted" /\ saves < MaxSaves /\ saves' = saves + 1
      /\ db' = new /\ past' = past \cup {new} /\ open' = open \cup {db.path}
      /\ UNCHANGED <<cache, raced>>
  BY DEF Save, Committed
<1>2. new.path \in Paths /\ db.path \in Paths /\ req \in [Procs -> Request]
  BY TypeMeans DEF Settings, IInv
<1>3. req' = [q \in Procs |->
        IF q = p THEN Saved(req[p], db.path)
        ELSE IF req[q].pc = "idle" THEN Idle ELSE Told(req[q], new.path)]
  BY DEF Save, Saved, Told
<1>4. req'[p] = Saved(req[p], db.path)
  BY <1>3
<1>5. /\ req'[p] \in Request /\ req'[p].pc = "invalidate" /\ req'[p].got = req[p].got
      /\ req'[p].old = db.path
  <2>1. req[p] \in Request
    BY <1>2
  <2> QED BY <1>2, <1>4, <2>1, SavedIs
<1>6. ASSUME NEW q \in Procs \ {p}, req[q].pc = "idle" PROVE req'[q] = Idle
  BY <1>3, <1>6
<1>7. ASSUME NEW q \in Procs \ {p}, req[q].pc # "idle"
      PROVE  /\ req'[q] \in Request /\ req'[q].pc = req[q].pc /\ req'[q].got = req[q].got
             /\ req'[q].old = req[q].old /\ req'[q].window = req[q].window \cup {new.path}
  <2>1. req'[q] = Told(req[q], new.path) /\ req[q] \in Request
    BY <1>2, <1>3, <1>7
  <2> QED BY <1>2, <2>1, ToldIs
<1>8. ASSUME NEW q \in Procs \ {p}, req[q].pc # "idle" PROVE req'[q].tainted = req[q].tainted
  <2>1. req'[q] = Told(req[q], new.path) /\ req[q] \in Request
    BY <1>2, <1>3, <1>8
  <2> QED BY <1>2, <2>1, ToldTainted
<1>9. TypeOK'
  <2>1. past \subseteq Settings /\ open \subseteq Paths /\ saves \in 0 .. MaxSaves /\ MaxSaves \in Nat
        /\ cache \in Settings \cup {Miss} /\ raced \in BOOLEAN
    BY SettingsAssumption DEF IInv, TypeOK
  <2>2. \A q \in Procs : req'[q] \in Request
    BY <1>5, <1>6, <1>7, IdleIs
  <2>3. req' \in [Procs -> Request]
    BY <1>3, <2>2
  <2>4. saves + 1 \in 0 .. MaxSaves
    BY <1>1, <2>1
  <2>5. past' \subseteq Settings /\ open' \subseteq Paths /\ db' \in Settings /\ saves' \in 0 .. MaxSaves
        /\ cache' \in Settings \cup {Miss} /\ raced' \in BOOLEAN
    BY <1>1, <1>2, <2>1, <2>4
  <2> QED BY <2>3, <2>5, TypeStays DEF IInv
<1>10. Snapshots'
  <2>1. \A q \in Procs : req[q].got \in past
    BY DEF IInv, Snapshots
  <2>2. Initial \in past /\ cache \in past \cup {Miss}
    BY DEF IInv, Snapshots
  <2>3. \A q \in Procs : req'[q].got \in past
    BY <1>5, <1>6, <1>7, <2>1, <2>2, IdleIs
  <2> QED BY <1>1, <2>2, <2>3 DEF Snapshots
<1>11. ASSUME NEW q \in Procs, Unanswered(q)'
       PROVE  \/ q = p /\ req'[q].old = db.path
              \/ q # p /\ Unanswered(q) /\ req'[q].old = req[q].old
  BY <1>5, <1>6, <1>7, <1>11, IdleIs DEF Unanswered
<1>12. Owed'
  BY <1>1, <1>11 DEF IInv, Owed
<1>13. Windows'
  <2>1. ASSUME NEW r \in Procs, Asking(r)'
        PROVE  Asking(r) /\ req'[r].window = req[r].window \cup {new.path}
    <3>1. r # p
      BY <1>5, <2>1 DEF Asking
    <3>2. req[r].pc # "idle"
      BY <1>6, <2>1, <3>1, IdleIs DEF Asking
    <3> QED BY <1>7, <2>1, <3>1, <3>2 DEF Asking
  <2>2. ASSUME NEW r \in Procs, Asking(r)
        PROVE  /\ db.path \in req[r].window
               /\ \A q \in Procs : Unanswered(q) => req[q].old \in req[r].window
    BY <2>2 DEF IInv, Windows
  <2> QED BY <1>1, <1>11, <2>1, <2>2 DEF Windows
<1>14. CacheExplained'
  <2> SUFFICES ASSUME ~raced, cache # Miss
               PROVE  \E q \in Procs : req'[q].pc = "invalidate" /\ req'[q].old = cache.path
    BY <1>1 DEF CacheExplained
  <2>1. CASE cache.path = db.path
    BY <1>5, <2>1
  <2>2. ASSUME NEW q \in Procs, req[q].pc = "invalidate", req[q].old = cache.path
        PROVE  req'[q].pc = "invalidate" /\ req'[q].old = cache.path
    <3>1. q # p /\ req[q].pc # "idle"
      BY <1>1, <2>2
    <3> QED BY <1>7, <2>2, <3>1
  <2> QED BY <2>1, <2>2 DEF IInv, CacheExplained
<1>15. Decided'
  <2>1. ASSUME NEW q \in Procs, req'[q].pc \in {"fill", "check"}, ~req'[q].tainted
        PROVE  req'[q].got.path \in req'[q].window
    <3>1. q # p
      BY <1>5, <2>1
    <3>2. req[q].pc # "idle"
      BY <1>6, <2>1, <3>1, IdleIs
    <3>3. req[q].pc \in {"fill", "check"} /\ ~req[q].tainted
      BY <1>7, <1>8, <2>1, <3>1, <3>2
    <3>4. req[q].got.path \in req[q].window
      BY <3>3 DEF IInv, Decided
    <3> QED BY <1>7, <3>1, <3>2, <3>4
  <2> QED BY <2>1 DEF Decided
<1> QED BY <1>9, <1>10, <1>12, <1>13, <1>14, <1>15 DEF IInv

LEMMA CrashStep == ASSUME IInv, Crash PROVE IInv'
<1>1. /\ UNCHANGED <<db, cache, saves, past, open>>
      /\ raced' = (raced \/ \E p \in Procs : req[p].pc = "invalidate")
      /\ req' = [p \in Procs |-> Idle]
  BY DEF Crash
<1>2. req' \in [Procs -> Request] /\ \A q \in Procs : req'[q] = Idle
  BY <1>1, IdleIs
<1>3. TypeOK'
  <2>1. past \subseteq Settings /\ open \subseteq Paths /\ db \in Settings /\ saves \in 0 .. MaxSaves
        /\ cache \in Settings \cup {Miss} /\ raced \in BOOLEAN
    BY DEF IInv, TypeOK
  <2>2. raced' \in BOOLEAN
    BY <1>1
  <2> QED BY <1>1, <1>2, <2>1, <2>2, TypeStays DEF IInv
<1>4. Snapshots'
  BY <1>1, <1>2, IdleIs DEF IInv, Snapshots
<1>5. Windows' /\ Owed' /\ Decided'
  BY <1>2, IdleIs DEF Windows, Owed, Decided, Asking, Unanswered
<1>6. CacheExplained'
  BY <1>1 DEF IInv, CacheExplained
<1> QED BY <1>3, <1>4, <1>5, <1>6 DEF IInv

LEMMA ExpireStep == ASSUME IInv, Expire PROVE IInv'
<1>1. UNCHANGED <<db, req, saves, past, open>> /\ cache' = Miss /\ raced' = FALSE
  BY DEF Expire
<1>2. TypeOK'
  BY <1>1 DEF IInv, TypeOK
<1>3. Snapshots' /\ CacheExplained'
  BY <1>1 DEF IInv, Snapshots, CacheExplained
<1>4. Windows' /\ Owed' /\ Decided'
  BY <1>1 DEF IInv, Windows, Owed, Decided, Asking, Unanswered
<1> QED BY <1>2, <1>3, <1>4 DEF IInv

LEMMA SameStep == ASSUME IInv, UNCHANGED vars PROVE IInv'
  BY DEF IInv, vars, TypeOK, Snapshots, Windows, Owed, CacheExplained, Decided, Asking, Unanswered

-----------------------------------------------------------------------------
LEMMA InitInv == Init => IInv
<1> SUFFICES ASSUME Init PROVE IInv
  OBVIOUS
<1>1. /\ db = Initial /\ cache = Miss /\ saves = 0 /\ past = {Initial} /\ open = {}
      /\ raced = FALSE /\ \A p \in Procs : req[p] = Idle
  BY DEF Init
<1>2. req \in [Procs -> Request]
  BY IdleIs DEF Init
<1>3. TypeOK
  <2>1. db \in Settings /\ cache \in Settings \cup {Miss} /\ past \subseteq Settings
        /\ open \subseteq Paths /\ raced \in BOOLEAN
    BY <1>1, SettingsAssumption
  <2>2. saves \in 0 .. MaxSaves
    BY <1>1, SettingsAssumption
  <2> QED BY <1>2, <2>1, <2>2 DEF TypeOK, Request
<1>4. Snapshots /\ CacheExplained
  BY <1>1, IdleIs DEF Snapshots, CacheExplained
<1>5. Windows /\ Owed /\ Decided
  BY <1>1, IdleIs DEF Windows, Owed, Decided, Asking, Unanswered
<1> QED BY <1>3, <1>4, <1>5 DEF IInv

LEMMA NextInv == IInv /\ [Next]_vars => IInv'
<1> SUFFICES ASSUME IInv, [Next]_vars PROVE IInv'
  OBVIOUS
<1>1. ASSUME NEW p \in Procs, NEW path \in Paths, Arrive(p, path) PROVE IInv'
  BY <1>1, ArriveStep
<1>2. ASSUME NEW p \in Procs, Step(p) PROVE IInv'
  <2>1. CacheGet(p) \/ Query(p) \/ Fill(p) \/ Check(p) \/ Invalidate(p) \/ Answer(p)
    BY <1>2 DEF Step
  <2> QED BY <2>1, CacheGetStep, QueryStep, FillStep, CheckStep, InvalidateStep, AnswerStep
<1>3. ASSUME NEW p \in Procs, NEW new \in Settings, Save(p, new) PROVE IInv'
  BY <1>3, SaveStep
<1>4. ASSUME NEW p \in Procs, Abort(p) \/ Fetch(p) PROVE IInv'
  BY <1>4, AbortStep, FetchStep
<1>5. CASE Crash \/ Expire \/ UNCHANGED vars
  BY <1>5, CrashStep, ExpireStep, SameStep
<1>6. CASE \E p \in Procs : \E new \in Settings \ {db} : Save(p, new)
  BY <1>3, <1>6
<1> QED BY <1>1, <1>2, <1>4, <1>5, <1>6 DEF Next

\* Every request is answered from settings that one save left, whichever saves run
\* beside it and whatever Redis does: for any number of them.
THEOREM Snapshot == Spec => []ServesSnapshots
<1>1. IInv => ServesSnapshots
  BY DEF IInv, Snapshots, ServesSnapshots
<1> QED BY InitInv, NextInv, <1>1, PTL DEF Spec

\* A request that decides on a path that was not current while it ran has read a cache
\* that a late fill or a failed Delete left behind: for any number of requests and saves,
\* wherever clients go away or the process dies.
THEOREM CurrentPath == Spec => []DecidesOnCurrentPath
<1>1. IInv => DecidesOnCurrentPath
  BY DEF IInv, Decided, DecidesOnCurrentPath
<1> QED BY InitInv, NextInv, <1>1, PTL DEF Spec

\* All variables keep their types, for any number of requests, paths and saves.
THEOREM TypeCorrect == Spec => []TypeOK
<1>1. IInv => TypeOK
  BY DEF IInv
<1> QED BY InitInv, NextInv, <1>1, PTL DEF Spec
=============================================================================
