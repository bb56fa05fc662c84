---------------------------- MODULE SessionsProofs ----------------------------
(***************************************************************************)
(* Proofs about Sessions, for any number of handlers and of sessions, with *)
(* calls to Redis that fail or not: a session that was revoked lets nobody *)
(* in, but for the races that its history names, and a session is unknown  *)
(* only once its row is gone.                                              *)
(***************************************************************************)
EXTENDS Sessions, TLAPS

Kinds == {"idle", "login", "auth", "remove", "list", "purge"}
Pcs == {"idle", "insert", "put", "listGet", "listSet", "get", "select", "fill", "found",
        "missing", "admitted", "uncache", "idsGet", "next", "selectAll", "fillAll", "selectIds",
        "deleteAll", "uncacheAll"}

\* What a handler holds while n sessions are issued.
Op(n) == [kind : Kinds, pc : Pcs, sid : 0 .. n, ids : SUBSET (1 .. n), todo : SUBSET (1 .. n),
          due : SUBSET (1 .. n), excused : BOOLEAN]

(* Why a revoked session is refused.  Its row is gone, and whoever deleted *)
(* the row deletes the key, or leaves a leak.  So a key without a row has  *)
(* leaked, or somebody will delete it; and an authentication that came     *)
(* when nobody was deleting any more finds neither the row nor the key.    *)

\* Has a handler deleted what it is to revoke from the table?
Deleted(r) ==
  \/ r.kind = "remove" /\ r.pc \in {"listGet", "listSet", "uncache"}
  \/ r.kind = "purge" /\ r.pc = "uncacheAll"

\* The keys it has to delete.
Cleans(r) ==
  {s \in {r.sid} \cup r.ids :
     \/ r.kind = "remove" /\ r.pc \in {"listGet", "listSet", "uncache"} /\ s = r.sid
     \/ r.kind = "purge" /\ r.pc = "uncacheAll" /\ s \in r.ids}

\* An authentication with no excuse finds nothing to let it in.
Refused(r) ==
  r.kind = "auth" /\ r.sid \in Watched /\ ~r.excused =>
    /\ r.sid \in revoked /\ r.pc \notin {"fill", "admitted"}
    /\ r.pc = "found" => user = "gone"
    /\ user = "gone" \/ r.sid \notin keys \/ r.sid \in leaked

Fits(r) ==
  /\ r.pc \in {"fill", "put"} \/ (r.kind = "login" /\ r.pc = "listGet") => r.sid \in 1 .. issued
  /\ r.pc = "missing" => r.sid \notin rows
  /\ r.kind \notin {"remove", "purge"} => r.due = {}
  /\ r.kind = "remove" => r.due \subseteq {r.sid}
  /\ r.kind = "purge" => r.pc \in {"selectIds", "deleteAll", "uncacheAll"}
  /\ Deleted(r) => r.due \cap rows = {}
  /\ Refused(r)

KeysExplained ==
  user = "gone" \/ \A s \in keys \cap Watched :
    s \in rows \/ s \in leaked \/ \E q \in Procs : s \in Cleans(op[q])

IInv ==
  /\ TypeOK /\ revoked \cap rows = {} /\ KeysExplained
  /\ \A p \in Procs : Fits(op[p])

-----------------------------------------------------------------------------
(* Types and records.                                                      *)

Types ==
  /\ issued \in Nat /\ issued <= MaxSession /\ MaxSession \in Nat
  /\ user \in {"active", "banned", "gone"}
  /\ rows \subseteq 1 .. issued /\ keys \subseteq 1 .. issued
  /\ leaked \subseteq keys /\ revoked \subseteq 1 .. issued
  /\ list = Miss \/ list \subseteq 1 .. issued
  /\ op \in [Procs -> Op(issued)]

LEMMA TypeMeans == TypeOK <=> Types
  BY SessionsAssumption DEF TypeOK, Types, Op, Kinds, Pcs, Ids

LEMMA UncachesIs ==
  ASSUME TypeOK, NEW p \in Procs
  PROVE  Uncaches(p) = Cleans(op[p])
  BY TypeMeans DEF Types, Op, Uncaches, Cleans, At

LEMMA IdleIs ==
  /\ Idle.kind = "idle" /\ Idle.pc = "idle" /\ Idle.sid = 0 /\ Idle.due = {}
  /\ \A n \in Nat : Idle \in Op(n)
  BY DEF Idle, Op, Kinds, Pcs

\* The records that the steps give: one that goes on, one that knows more, a new one.
On(r, pc, sid, ids, todo) == [r EXCEPT !.pc = pc, !.sid = sid, !.ids = ids, !.todo = todo]
Noted(r, pc, excused) == [r EXCEPT !.pc = pc, !.excused = excused]
New(kind, pc, sid, due, excused) ==
  [Idle EXCEPT !.kind = kind, !.pc = pc, !.sid = sid, !.due = due, !.excused = excused]

LEMMA OnIs ==
  ASSUME NEW n \in Nat, NEW r \in Op(n), NEW pc \in Pcs, NEW sid \in 0 .. n,
         NEW ids \in SUBSET (1 .. n), NEW todo \in SUBSET (1 .. n)
  PROVE  LET new == On(r, pc, sid, ids, todo)
         IN  /\ new \in Op(n) /\ new.kind = r.kind /\ new.pc = pc /\ new.sid = sid
             /\ new.ids = ids /\ new.todo = todo /\ new.due = r.due
  BY DEF On, Op
LEMMA OnExcused ==
  ASSUME NEW n \in Nat, NEW r \in Op(n), NEW pc, NEW sid, NEW ids, NEW todo
  PROVE  On(r, pc, sid, ids, todo).excused = r.excused
  BY DEF On, Op
LEMMA NotedIs ==
  ASSUME NEW n \in Nat, NEW r \in Op(n), NEW pc \in Pcs, NEW excused \in BOOLEAN
  PROVE  LET new == Noted(r, pc, excused)
         IN  /\ new \in Op(n) /\ new.kind = r.kind /\ new.pc = pc /\ new.sid = r.sid
             /\ new.due = r.due
  BY DEF Noted, Op
LEMMA NotedExcused ==
  ASSUME NEW n \in Nat, NEW r \in Op(n), NEW pc, NEW excused \in BOOLEAN
  PROVE  Noted(r, pc, excused).excused = excused
  BY DEF Noted, Op
LEMMA NewIs ==
  ASSUME NEW n \in Nat, NEW kind \in Kinds, NEW pc \in Pcs, NEW sid \in 0 .. n,
         NEW due \in SUBSET (1 .. n), NEW excused \in BOOLEAN
  PROVE  LET new == New(kind, pc, sid, due, excused)
         IN  /\ new \in Op(n) /\ new.kind = kind /\ new.pc = pc /\ new.sid = sid /\ new.due = due
  BY DEF New, Idle, Op
LEMMA NewExcused ==
  ASSUME NEW kind, NEW pc, NEW sid, NEW due, NEW excused \in BOOLEAN
  PROVE  New(kind, pc, sid, due, excused).excused = excused
  BY DEF New, Idle

LEMMA NewUpdates ==
  ASSUME NEW kind, NEW pc, NEW sid, NEW due, NEW excused
  PROVE  /\ [Idle EXCEPT !.kind = kind, !.pc = pc] = New(kind, pc, Idle.sid, Idle.due, Idle.excused)
         /\ [Idle EXCEPT !.kind = kind, !.pc = pc, !.sid = sid, !.excused = excused]
            = New(kind, pc, sid, Idle.due, excused)
         /\ [Idle EXCEPT !.kind = kind, !.sid = sid, !.pc = pc, !.due = due]
            = New(kind, pc, sid, due, Idle.excused)
         /\ [Idle EXCEPT !.kind = kind, !.pc = pc, !.due = due]
            = New(kind, pc, Idle.sid, due, Idle.excused)
<1>1. Idle \in Op(0)
  BY IdleIs
<1> QED BY <1>1 DEF New, Op

\* One handler gets a new record.
Becomes(p, new) == op' = [op EXCEPT ![p] = new]

LEMMA BecomesDoes ==
  ASSUME NEW n \in Nat, op \in [Procs -> Op(n)], NEW p \in Procs, NEW new \in Op(n), Becomes(p, new)
  PROVE  /\ op' \in [Procs -> Op(n)] /\ op'[p] = new
         /\ \A q \in Procs \ {p} : op'[q] = op[q]
  BY DEF Becomes

-----------------------------------------------------------------------------
(* What every step leaves as it is.                                        *)

\* No session is issued again, revoked ones stay so, who is gone stays gone, and a key
\* is set for what has a row or has leaked.
World ==
  /\ issued' \in Nat /\ issued' >= issued
  /\ rows' \cap (1 .. issued) \subseteq rows
  /\ revoked \subseteq revoked'
  /\ user = "gone" => user' = "gone"
  /\ leaked \cap keys' \subseteq leaked'
  /\ \A s \in (keys' \ keys) \cap Watched : s \in rows' \/ s \in leaked'

\* Then what a handler holds stays what it is.
LEMMA FitsStays ==
  ASSUME IInv, World, rows' \subseteq 1 .. issued', revoked' \cap rows' = {},
         NEW q \in Procs, NEW r \in Op(issued), Fits(r), op'[q] = r
  PROVE  Fits(op[q])'
<1>1. Types
  BY TypeMeans DEF IInv
<1>2. r.sid \in 0 .. issued /\ r.due \subseteq 1 .. issued /\ issued \in Nat
      /\ rows' \subseteq 1 .. issued'
  BY <1>1 DEF Op, Types
<1>4. rows' \cap (1 .. issued) \subseteq rows /\ issued' \in Nat /\ issued' >= issued
  BY DEF World
<1>5. r.pc \in {"fill", "put"} \/ (r.kind = "login" /\ r.pc = "listGet") => r.sid \in 1 .. issued'
  BY <1>2, <1>4 DEF Fits
<1>6. r.pc = "missing" => r.sid \notin rows'
  <2>1. r.sid \in rows' => r.sid \in 1 .. issued
    BY <1>2
  <2> QED BY <1>4, <2>1 DEF Fits
<1>7. Deleted(r) => r.due \cap rows' = {}
  BY <1>2, <1>4 DEF Fits
<1>8. ASSUME r.kind = "auth", r.sid \in Watched, ~r.excused
      PROVE  /\ r.sid \in revoked' /\ r.pc \notin {"fill", "admitted"}
             /\ r.pc = "found" => user' = "gone"
             /\ user' = "gone" \/ r.sid \notin keys' \/ r.sid \in leaked'
  <2>1. /\ r.sid \in revoked /\ r.pc \notin {"fill", "admitted"}
        /\ r.pc = "found" => user = "gone"
        /\ user = "gone" \/ r.sid \notin keys \/ r.sid \in leaked
    BY <1>8 DEF Fits, Refused
  <2>2. r.sid \in revoked'
    BY <2>1 DEF World
  <2>3. r.sid \notin rows'
    BY <2>2
  <2> QED BY <1>8, <2>1, <2>2, <2>3 DEF World
<1>9. Refused(op[q])'
  BY <1>8 DEF Refused
<1>10. Deleted(op[q])' => (op[q].due \cap rows = {})'
  BY <1>7 DEF Deleted
<1> QED BY <1>5, <1>6, <1>9, <1>10 DEF Fits

\* And a key without a row stays explained, if p explains what it changes.
LEMMA StaysExplained ==
  ASSUME IInv, World, NEW p \in Procs, \A q \in Procs \ {p} : op'[q] = op[q],
         \A s \in keys' \cap Watched :
           /\ s \in rows => s \in rows' \/ s \in leaked' \/ s \in Cleans(op'[p]) \/ user' = "gone"
           /\ s \in Cleans(op[p]) => s \in leaked' \/ s \in Cleans(op'[p])
  PROVE  KeysExplained'
<1> SUFFICES ASSUME user' # "gone", NEW s \in keys' \cap Watched,
                    s \notin rows', s \notin leaked'
             PROVE  \E q \in Procs : s \in Cleans(op'[q])
  BY DEF KeysExplained
<1>1. s \in keys /\ s \notin leaked /\ user # "gone"
  BY DEF World
<1>2. CASE s \in rows
  BY <1>2
<1>3. CASE \E q \in Procs : s \in Cleans(op[q])
  BY <1>3
<1> QED BY <1>1, <1>2, <1>3 DEF IInv, KeysExplained

LEMMA Stays ==
  ASSUME IInv, World, NEW p \in Procs, \A q \in Procs \ {p} : op'[q] = op[q],
         Types', revoked' \cap rows' = {}, KeysExplained', Fits(op[p])'
  PROVE  IInv'
<1>1. TypeOK'
  BY TypeMeans, PTL
<1>2. \A q \in Procs : Fits(op[q])'
  <2>1. ASSUME NEW q \in Procs \ {p} PROVE Fits(op[q])'
    <3>1. rows' \subseteq 1 .. issued'
      BY DEF Types
    <3>2. op[q] \in Op(issued) /\ Fits(op[q])
      BY TypeMeans DEF IInv, Types
    <3> QED BY <3>1, <3>2, FitsStays
  <2> QED BY <2>1
<1> QED BY <1>1, <1>2 DEF IInv

\* A step of p that deletes no rows, unless the user is gone.
LEMMA Carries ==
  ASSUME IInv, World, NEW p \in Procs, NEW new \in Op(issued), Becomes(p, new), Fits(new),
         issued' = issued, rows' \subseteq rows, rows' = rows \/ user' = "gone",
         user' \in {"active", "banned", "gone"}, keys' \subseteq 1 .. issued,
         leaked' \subseteq keys', revoked' \subseteq 1 .. issued, revoked' \cap rows' = {},
         list' = Miss \/ list' \subseteq 1 .. issued,
         Cleans(op[p]) \cap keys' \cap Watched \subseteq Cleans(new) \cup leaked'
  PROVE  IInv'
<1>1. Types
  BY TypeMeans DEF IInv
<1>2. /\ op' \in [Procs -> Op(issued)] /\ op'[p] = new
      /\ \A q \in Procs \ {p} : op'[q] = op[q]
  BY <1>1, BecomesDoes DEF Types
<1>3. Types'
  BY <1>1, <1>2 DEF Types
<1>4. rows' \subseteq 1 .. issued'
  BY <1>1 DEF Types
<1>5. Fits(op[p])'
  BY <1>2, <1>4, FitsStays
<1>6. KeysExplained'
  BY <1>2, StaysExplained
<1> QED BY <1>2, <1>3, <1>5, <1>6, Stays

\* One that changes nothing but what p holds, and the list.
LEMMA Goes ==
  ASSUME IInv, NEW p \in Procs, NEW new \in Op(issued), Becomes(p, new), Fits(new),
         UNCHANGED <<user, rows, issued, keys, leaked, revoked>>,
         list' = Miss \/ list' \subseteq 1 .. issued,
         Cleans(op[p]) \subseteq Cleans(new)
  PROVE  IInv'
<1>1. Types /\ revoked \cap rows = {}
  BY TypeMeans DEF IInv
<1>2. World
  BY <1>1 DEF World, Types
<1> QED BY <1>1, <1>2, Carries DEF Types

\* And one that also puts a session into a key.
LEMMA Stores ==
  ASSUME IInv, NEW p \in Procs, NEW new \in Op(issued), Becomes(p, new), Fits(new),
         UNCHANGED <<user, rows, issued, list, revoked>>,
         NEW s \in 1 .. issued, Store(s), Cleans(op[p]) \subseteq Cleans(new)
  PROVE  IInv'
<1>1. Types /\ revoked \cap rows = {}
  BY TypeMeans DEF IInv
<1>2. \/ keys' = keys \cup {s} /\ leaked' = leaked \cup (({s} \ rows) \cap Watched)
      \/ UNCHANGED <<keys, leaked>>
  BY DEF Store
<1>3. World
  BY <1>1, <1>2 DEF World, Types
<1>4. keys' \subseteq 1 .. issued
  BY <1>1, <1>2 DEF Types
<1>5. leaked' \subseteq keys'
  BY <1>1, <1>2 DEF Types, World
<1> QED BY <1>1, <1>3, <1>4, <1>5, Carries DEF Types

-----------------------------------------------------------------------------
(* The records of the steps, one by one.                                   *)

LEMMA Known ==
  ASSUME IInv, NEW p \in Procs
  PROVE  /\ Types /\ issued \in Nat /\ op[p] \in Op(issued) /\ Fits(op[p])
         /\ op[p].sid \in 0 .. issued /\ op[p].ids \subseteq 1 .. issued
         /\ op[p].todo \subseteq 1 .. issued /\ op[p].due \subseteq 1 .. issued
  BY TypeMeans DEF IInv, Types, Op

LEMMA Updates ==
  ASSUME NEW n \in Nat, NEW r \in Op(n), NEW pc, NEW sid, NEW ids, NEW todo
  PROVE  /\ [r EXCEPT !.pc = pc] = On(r, pc, r.sid, r.ids, r.todo)
         /\ [r EXCEPT !.pc = pc, !.sid = sid] = On(r, pc, sid, r.ids, r.todo)
         /\ [r EXCEPT !.pc = pc, !.ids = ids] = On(r, pc, r.sid, ids, r.todo)
         /\ [r EXCEPT !.pc = pc, !.todo = todo] = On(r, pc, r.sid, r.ids, todo)
         /\ [r EXCEPT !.todo = todo] = On(r, r.pc, r.sid, r.ids, todo)
         /\ [r EXCEPT !.pc = pc, !.sid = sid, !.ids = ids] = On(r, pc, sid, ids, r.todo)
         /\ [r EXCEPT !.pc = pc, !.sid = sid, !.todo = todo] = On(r, pc, sid, r.ids, todo)
         /\ [r EXCEPT !.pc = pc, !.ids = ids, !.todo = todo] = On(r, pc, r.sid, ids, todo)
  BY DEF On, Op

\* Goto.
LEMMA GotoIs ==
  ASSUME IInv, NEW p \in Procs, NEW pc \in Pcs, Goto(p, pc)
  PROVE  LET new == On(op[p], pc, op[p].sid, op[p].ids, op[p].todo)
         IN  /\ Becomes(p, new) /\ revoked' = revoked /\ new \in Op(issued)
             /\ new.kind = op[p].kind /\ new.pc = pc /\ new.sid = op[p].sid
             /\ new.due = op[p].due /\ new.ids = op[p].ids
             /\ new.excused = op[p].excused
<1> DEFINE new == On(op[p], pc, op[p].sid, op[p].ids, op[p].todo)
<1>1. [op[p] EXCEPT !.pc = pc] = new
  BY Known, Updates
<1>2. Becomes(p, new) /\ revoked' = revoked
  BY <1>1 DEF Goto, Become, Becomes
<1>3. new \in Op(issued) /\ new.kind = op[p].kind /\ new.pc = pc /\ new.sid = op[p].sid
      /\ new.due = op[p].due /\ new.ids = op[p].ids
  BY Known, OnIs
<1>4. new.excused = op[p].excused
  BY Known, OnExcused
<1> QED BY <1>2, <1>3, <1>4

LEMMA IdleFits ==
  ASSUME IInv
  PROVE  Idle \in Op(issued) /\ Fits(Idle) /\ Cleans(Idle) = {}
<1>1. issued \in Nat
  BY TypeMeans DEF IInv, Types
<1>2. Idle \in Op(issued)
  BY <1>1, IdleIs
<1>3. Fits(Idle)
  BY IdleIs DEF Fits, Deleted, Refused
<1> QED BY <1>2, <1>3, IdleIs DEF Cleans

LEMMA NoCleans ==
  ASSUME NEW r, \/ r.pc \notin {"listGet", "listSet", "uncache", "uncacheAll"}
                \/ r.kind \notin {"remove", "purge"}
  PROVE  Cleans(r) = {} /\ ~Deleted(r)
  BY DEF Cleans, Deleted

\* An end of one that has nothing to revoke.
LEMMA Ends ==
  ASSUME IInv, NEW p \in Procs, op[p].kind \notin {"remove", "purge"}, End(p),
         UNCHANGED <<user, rows, issued, keys, leaked>>, list' = Miss \/ list' \subseteq 1 .. issued
  PROVE  IInv'
<1>1. op[p].due = {}
  BY Known DEF Fits
<1>2. Becomes(p, Idle) /\ revoked' = revoked
  BY <1>1 DEF End, Becomes
<1>3. Cleans(op[p]) = {}
  BY NoCleans
<1> QED BY <1>2, <1>3, IdleFits, Goes

-----------------------------------------------------------------------------
(* SessionByID.                                                            *)

LEMMA GetStep == ASSUME IInv, NEW p \in Procs, Get(p) PROVE IInv'
<1>1. op[p].pc = "get" /\ UNCHANGED <<user, rows, issued, keys, list, leaked>>
  BY DEF Get
<1>2. Cleans(op[p]) = {} /\ (list = Miss \/ list \subseteq 1 .. issued)
  BY <1>1, NoCleans, Known DEF Types
<1>3. CASE op[p].sid \in keys /\ Become(p, [op[p] EXCEPT !.pc = "found", !.excused = Excused(p)])
  <2> DEFINE new == Noted(op[p], "found", Excused(p))
  <2>1. op[p].excused \in BOOLEAN
    BY Known DEF Op
  <2>2. Excused(p) \in BOOLEAN
    BY <2>1 DEF Excused
  <2>3. Becomes(p, new) /\ revoked' = revoked
    BY <1>3 DEF Become, Becomes, Noted
  <2>4. new \in Op(issued) /\ new.kind = op[p].kind /\ new.pc = "found" /\ new.sid = op[p].sid
        /\ new.due = op[p].due
    <3>1. "found" \in Pcs
      BY DEF Pcs
    <3> QED BY <2>2, <3>1, NotedIs, Known
  <2>5. new.excused = Excused(p)
    BY <2>2, NotedExcused, Known
  <2> HIDE DEF new
  <2>6. Refused(new)
    <3> SUFFICES ASSUME new.kind = "auth", new.sid \in Watched, ~new.excused
                 PROVE  /\ new.sid \in revoked /\ new.pc \notin {"fill", "admitted"}
                        /\ new.pc = "found" => user = "gone"
                        /\ user = "gone" \/ new.sid \notin keys \/ new.sid \in leaked
      BY DEF Refused
    <3>1. ~op[p].excused /\ op[p].sid \notin leaked
      BY <2>4, <2>5 DEF Excused
    <3>2. op[p].sid \in revoked /\ (user = "gone" \/ op[p].sid \notin keys \/ op[p].sid \in leaked)
      BY <2>4, <3>1, Known DEF Fits, Refused
    <3> QED BY <1>3, <2>4, <3>1, <3>2
  <2>7. Fits(new)
    BY <1>1, <2>4, <2>6, Known DEF Fits, Deleted
  <2> QED BY <1>1, <1>2, <2>3, <2>4, <2>7, Goes
<1>4. CASE Goto(p, "select")
  <2> DEFINE new == On(op[p], "select", op[p].sid, op[p].ids, op[p].todo)
  <2>1. /\ Becomes(p, new) /\ revoked' = revoked /\ new \in Op(issued)
        /\ new.kind = op[p].kind /\ new.pc = "select" /\ new.sid = op[p].sid
        /\ new.due = op[p].due /\ new.excused = op[p].excused
    <3>1. "select" \in Pcs
      BY DEF Pcs
    <3> QED BY <1>4, <3>1, GotoIs
  <2> HIDE DEF new
  <2>2. Fits(new)
    BY <1>1, <2>1, Known DEF Fits, Deleted, Refused
  <2> QED BY <1>1, <1>2, <2>1, <2>2, Goes
<1> QED BY <1>3, <1>4 DEF Get

LEMMA SelectStep == ASSUME IInv, NEW p \in Procs, Select(p) PROVE IInv'
<1> DEFINE pc == IF op[p].sid \in rows THEN "fill" ELSE "missing"
           new == On(op[p], pc, op[p].sid, op[p].ids, op[p].todo)
<1>1. op[p].pc = "select" /\ UNCHANGED <<user, rows, issued, keys, list, leaked>> /\ Goto(p, pc)
  BY DEF Select
<1>2. Cleans(op[p]) = {} /\ (list = Miss \/ list \subseteq 1 .. issued)
  BY <1>1, NoCleans, Known DEF Types
<1>3. pc \in Pcs
  BY DEF Pcs
<1>4. pc \in {"fill", "missing"} /\ (pc = "fill" <=> op[p].sid \in rows)
  OBVIOUS
<1> HIDE DEF pc
<1>5. /\ Becomes(p, new) /\ revoked' = revoked /\ new \in Op(issued)
      /\ new.kind = op[p].kind /\ new.pc = pc /\ new.sid = op[p].sid
      /\ new.due = op[p].due /\ new.excused = op[p].excused
  BY <1>1, <1>3, GotoIs
<1> HIDE DEF new
<1>6. rows \subseteq 1 .. issued /\ revoked \cap rows = {}
  BY Known DEF Types, IInv
<1>7. Refused(new)
  BY <1>1, <1>4, <1>5, <1>6, Known DEF Fits, Refused
<1>8. Fits(new)
  BY <1>1, <1>4, <1>5, <1>6, <1>7, Known DEF Fits, Deleted
<1> QED BY <1>1, <1>2, <1>5, <1>8, Goes

LEMMA FillStep == ASSUME IInv, NEW p \in Procs, Fill(p) PROVE IInv'
<1> DEFINE new == On(op[p], "found", op[p].sid, op[p].ids, op[p].todo)
<1>1. op[p].pc = "fill" /\ UNCHANGED <<user, rows, issued, list>> /\ Goto(p, "found")
      /\ Store(op[p].sid)
  BY DEF Fill
<1>2. Cleans(op[p]) = {} /\ op[p].sid \in 1 .. issued
  BY <1>1, NoCleans, Known DEF Fits
<1>3. "found" \in Pcs
  BY DEF Pcs
<1>4. /\ Becomes(p, new) /\ revoked' = revoked /\ new \in Op(issued)
      /\ new.kind = op[p].kind /\ new.pc = "found" /\ new.sid = op[p].sid
      /\ new.due = op[p].due /\ new.excused = op[p].excused
  BY <1>1, <1>3, GotoIs
<1> HIDE DEF new
<1>5. Fits(new)
  BY <1>1, <1>4, Known DEF Fits, Deleted, Refused
<1> QED BY <1>1, <1>2, <1>4, <1>5, Stores

-----------------------------------------------------------------------------
(* Logins and authentications.                                             *)

\* A handler that begins with nothing to revoke and no keys to delete.
LEMMA Begins ==
  ASSUME IInv, NEW p \in Procs, NEW kind \in Kinds, NEW pc \in Pcs, NEW sid \in 0 .. issued,
         NEW due \in SUBSET (1 .. issued), NEW excused \in BOOLEAN,
         Begin(p, New(kind, pc, sid, due, excused)),
         pc \notin {"fill", "put", "missing", "found", "listGet", "listSet", "uncache", "uncacheAll"},
         kind # "purge", kind # "remove" => due = {}, kind = "remove" => due \subseteq {sid},
         kind # "auth" \/ Refused(New(kind, pc, sid, due, excused)),
         UNCHANGED <<user, rows, issued, keys, list, leaked>>
  PROVE  IInv'
<1> DEFINE new == New(kind, pc, sid, due, excused)
<1>1. Becomes(p, new) /\ revoked' = revoked /\ op[p].kind = "idle"
  BY DEF Begin, Becomes
<1>2. new \in Op(issued) /\ new.kind = kind /\ new.pc = pc /\ new.sid = sid /\ new.due = due
  <2>1. issued \in Nat
    BY Known
  <2> QED BY <2>1, NewIs
<1>3. kind # "auth" \/ Refused(new)
  OBVIOUS
<1> HIDE DEF new
<1>4. Fits(new)
  <2>1. new.kind # "purge" /\ (new.kind \notin {"remove", "purge"} => new.due = {})
    BY <1>2
  <2>2. new.kind = "remove" => new.due \subseteq {new.sid}
    BY <1>2
  <2>3. new.pc \notin {"fill", "put", "missing", "listGet", "found"} /\ ~Deleted(new)
    BY <1>2 DEF Deleted
  <2>4. CASE kind = "auth"
    BY <1>3, <2>1, <2>2, <2>3, <2>4 DEF Fits
  <2>5. CASE kind # "auth"
    BY <1>2, <2>1, <2>2, <2>3, <2>5 DEF Fits, Refused
  <2> QED BY <2>4, <2>5
<1>5. Cleans(op[p]) = {}
  BY <1>1, NoCleans
<1> QED BY <1>1, <1>2, <1>4, <1>5, Goes, Known DEF Types

LEMMA StartLoginStep == ASSUME IInv, NEW p \in Procs, StartLogin(p) PROVE IInv'
<1>1. Begin(p, [Idle EXCEPT !.kind = "login", !.pc = "insert"])
      /\ UNCHANGED <<user, rows, issued, keys, list, leaked>>
  BY DEF StartLogin
<1>2. [Idle EXCEPT !.kind = "login", !.pc = "insert"]
      = New("login", "insert", Idle.sid, Idle.due, Idle.excused)
  BY NewUpdates
<1>3. "login" \in Kinds /\ "insert" \in Pcs
  BY DEF Kinds, Pcs
<1>4. Idle.sid \in 0 .. issued /\ Idle.due = {} /\ Idle.excused \in BOOLEAN
  BY Known, IdleIs DEF Idle
<1> QED BY <1>1, <1>2, <1>3, <1>4, Begins

LEMMA StartListStep == ASSUME IInv, NEW p \in Procs, StartList(p) PROVE IInv'
<1>1. Begin(p, [Idle EXCEPT !.kind = "list", !.pc = "idsGet"])
      /\ UNCHANGED <<user, rows, issued, keys, list, leaked>>
  BY DEF StartList
<1>2. [Idle EXCEPT !.kind = "list", !.pc = "idsGet"] = New("list", "idsGet", Idle.sid, Idle.due, Idle.excused)
  BY NewUpdates
<1>3. "list" \in Kinds /\ "idsGet" \in Pcs
  BY DEF Kinds, Pcs
<1>4. Idle.sid \in 0 .. issued /\ Idle.due = {} /\ Idle.excused \in BOOLEAN
  BY Known, IdleIs DEF Idle
<1> QED BY <1>1, <1>2, <1>3, <1>4, Begins

LEMMA StartAuthStep ==
  ASSUME IInv, NEW p \in Procs, NEW s \in Ids, StartAuth(p, s)
  PROVE  IInv'
<1> DEFINE excused == s \notin revoked \/ \E q \in Procs : s \in Uncaches(q)
           new == New("auth", "get", s, Idle.due, excused)
<1>1. Begin(p, [Idle EXCEPT !.kind = "auth", !.pc = "get", !.sid = s, !.excused = excused])
      /\ UNCHANGED <<user, rows, issued, keys, list, leaked>>
  BY DEF StartAuth
<1>2. excused \in BOOLEAN
  OBVIOUS
<1>3. ~excused => s \in revoked /\ \A q \in Procs : s \notin Cleans(op[q])
  BY UncachesIs DEF IInv
<1> HIDE DEF excused
<1>4. [Idle EXCEPT !.kind = "auth", !.pc = "get", !.sid = s, !.excused = excused] = new
  BY IdleIs, 0 \in Nat DEF New, Op
<1>5. "auth" \in Kinds /\ "get" \in Pcs /\ s \in 1 .. issued /\ s \in 0 .. issued
  BY Known DEF Kinds, Pcs, Ids
<1>a. Idle.due = {}
  BY IdleIs
<1>6. Refused(new)
  <2>1. new.sid = s /\ new.pc = "get"
    BY <1>2, <1>5, <1>a, Known, NewIs
  <2>2. new.excused = excused
    BY <1>2, NewExcused
  <2> HIDE DEF new
  <2>3. ~excused /\ s \in Watched => user = "gone" \/ s \notin keys \/ s \in leaked
    BY <1>3 DEF IInv, KeysExplained
  <2> QED BY <1>3, <2>1, <2>2, <2>3 DEF Refused
<1> QED BY <1>1, <1>2, <1>4, <1>5, <1>a, <1>6, Begins

LEMMA PutStep == ASSUME IInv, NEW p \in Procs, Put(p) PROVE IInv'
<1> DEFINE new == On(op[p], "listGet", op[p].sid, op[p].ids, op[p].todo)
<1>1. At(p, "login", "put") /\ UNCHANGED <<user, rows, issued, list>> /\ Goto(p, "listGet")
      /\ Store(op[p].sid)
  BY DEF Put
<1>2. op[p].sid \in 1 .. issued /\ op[p].kind = "login" /\ op[p].pc = "put"
  BY <1>1, Known DEF Fits, At
<1>3. Cleans(op[p]) = {}
  BY <1>2, NoCleans
<1>4. "listGet" \in Pcs
  BY DEF Pcs
<1>5. /\ Becomes(p, new) /\ revoked' = revoked /\ new \in Op(issued)
      /\ new.kind = "login" /\ new.pc = "listGet" /\ new.due = op[p].due /\ new.sid = op[p].sid
  BY <1>1, <1>2, <1>4, GotoIs
<1> HIDE DEF new
<1>6. Fits(new)
  BY <1>2, <1>5, Known DEF Fits, Deleted, Refused
<1> QED BY <1>1, <1>2, <1>3, <1>5, <1>6, Stores

LEMMA LoginListGetStep == ASSUME IInv, NEW p \in Procs, LoginListGet(p) PROVE IInv'
<1>1. op[p].kind = "login" /\ op[p].pc = "listGet" /\ UNCHANGED <<user, rows, issued, keys, list, leaked>>
  BY DEF LoginListGet, At
<1>2. list = Miss \/ list \subseteq 1 .. issued
  BY Known DEF Types
<1>3. CASE /\ list \notin {Miss, {}}
           /\ Become(p, [op[p] EXCEPT !.pc = "listSet", !.sid = 0, !.ids = list \cup {op[p].sid}])
  <2> DEFINE ids == list \cup {op[p].sid}
             new == On(op[p], "listSet", 0, ids, op[p].todo)
  <2>1. op[p].sid \in 1 .. issued
    BY <1>1, Known DEF Fits
  <2>2. ids \in SUBSET (1 .. issued)
    BY <1>2, <1>3, <2>1
  <2>3. Become(p, [op[p] EXCEPT !.pc = "listSet", !.sid = 0, !.ids = ids])
    BY <1>3
  <2> HIDE DEF ids
  <2>4. Becomes(p, new) /\ revoked' = revoked
    <3>1. [op[p] EXCEPT !.pc = "listSet", !.sid = 0, !.ids = ids] = new
      BY Known DEF On, Op
    <3> QED BY <2>3, <3>1 DEF Become, Becomes
  <2>5. new \in Op(issued) /\ new.kind = "login" /\ new.pc = "listSet" /\ new.due = op[p].due
    <3>1. "listSet" \in Pcs /\ 0 \in 0 .. issued
      BY Known DEF Pcs
    <3> QED BY <1>1, <2>2, <3>1, Known, OnIs
  <2> HIDE DEF new
  <2>6. Fits(new)
    BY <1>1, <2>5, Known DEF Fits, Deleted, Refused
  <2>7. Cleans(op[p]) = {}
    BY <1>1, NoCleans
  <2> QED BY <1>1, <1>2, <2>4, <2>5, <2>6, <2>7, Goes
<1>4. CASE End(p)
  BY <1>1, <1>2, <1>4, Ends
<1> QED BY <1>3, <1>4 DEF LoginListGet

LEMMA InsertStep == ASSUME IInv, NEW p \in Procs, Insert(p) PROVE IInv'
<1> DEFINE n == issued + 1
           new == On(op[p], "put", n, op[p].ids, op[p].todo)
<1>1. /\ op[p].kind = "login" /\ op[p].pc = "insert" /\ issued < MaxSession
      /\ issued' = issued + 1 /\ rows' = rows \cup {n} /\ UNCHANGED <<user, keys, list, leaked>>
      /\ Become(p, [op[p] EXCEPT !.pc = "put", !.sid = n])
  BY DEF Insert, At
<1>2. Types /\ revoked \cap rows = {} /\ n \in Nat
  BY Known DEF IInv, Types
<1>3. op \in [Procs -> Op(n)]
  <2>1. Op(issued) \subseteq Op(n)
    BY <1>2 DEF Op, Types
  <2> QED BY <1>2, <2>1 DEF Types
<1>4. op[p] \in Op(n)
  BY <1>3
<1>5. [op[p] EXCEPT !.pc = "put", !.sid = n] = new
  BY <1>4 DEF On, Op
<1>6. Becomes(p, new) /\ revoked' = revoked
  BY <1>1, <1>5 DEF Become, Becomes
<1>7. new \in Op(n) /\ new.kind = "login" /\ new.pc = "put" /\ new.sid = n /\ new.due = op[p].due
  <2>1. "put" \in Pcs /\ n \in 0 .. n /\ op[p].ids \in SUBSET (1 .. n) /\ op[p].todo \in SUBSET (1 .. n)
    BY <1>2, <1>4 DEF Pcs, Op
  <2> QED BY <1>1, <1>2, <1>4, <2>1, OnIs
<1> HIDE DEF new
<1>8. /\ op' \in [Procs -> Op(n)] /\ op'[p] = new
      /\ \A q \in Procs \ {p} : op'[q] = op[q]
  BY <1>2, <1>3, <1>6, <1>7, BecomesDoes
<1>9. World
  BY <1>1, <1>2, <1>6 DEF World, Types
<1>10. Types'
  BY <1>1, <1>2, <1>6, <1>8 DEF Types
<1>11. revoked' \cap rows' = {}
  BY <1>1, <1>2, <1>6 DEF Types
<1>12. Fits(op[p])'
  <2>1. op[p].due = {}
    BY <1>1, Known DEF Fits
  <2>2. n \in 1 .. issued'
    BY <1>1, <1>2 DEF Types
  <2> HIDE DEF n
  <2>3. op'[p].kind = "login" /\ op'[p].pc = "put" /\ op'[p].sid = n /\ op'[p].due = {}
    BY <1>7, <1>8, <2>1
  <2> QED BY <2>2, <2>3 DEF Fits, Deleted, Refused
<1>13. KeysExplained'
  <2>1. Cleans(op[p]) = {}
    BY <1>1, NoCleans
  <2> QED BY <1>1, <1>8, <1>9, <2>1, StaysExplained
<1> QED BY <1>8, <1>9, <1>10, <1>11, <1>12, <1>13, Stays

LEMMA AdmitStep == ASSUME IInv, NEW p \in Procs, Admit(p) PROVE IInv'
<1>1. op[p].kind = "auth" /\ op[p].pc = "found" /\ UNCHANGED <<user, rows, issued, keys, list, leaked>>
      /\ \/ user = "active" /\ Goto(p, "admitted")
         \/ End(p)
  BY DEF Admit, At
<1>2. list = Miss \/ list \subseteq 1 .. issued
  BY Known DEF Types
<1>3. CASE user = "active" /\ Goto(p, "admitted")
  <2> DEFINE new == On(op[p], "admitted", op[p].sid, op[p].ids, op[p].todo)
  <2>1. /\ Becomes(p, new) /\ revoked' = revoked /\ new \in Op(issued)
        /\ new.kind = op[p].kind /\ new.pc = "admitted" /\ new.sid = op[p].sid
        /\ new.due = op[p].due /\ new.excused = op[p].excused
    <3>1. "admitted" \in Pcs
      BY DEF Pcs
    <3> QED BY <1>3, <3>1, GotoIs
  <2> HIDE DEF new
  <2>2. Fits(new)
    BY <1>1, <1>3, <2>1, Known DEF Fits, Deleted, Refused
  <2>3. Cleans(op[p]) = {}
    BY <1>1, NoCleans
  <2> QED BY <1>1, <1>2, <2>1, <2>2, <2>3, Goes
<1>4. CASE End(p)
  BY <1>1, <1>2, <1>4, Ends
<1> QED BY <1>1, <1>3, <1>4

LEMMA AnswerStep == ASSUME IInv, NEW p \in Procs, Answer(p) PROVE IInv'
  BY Known, Ends DEF Answer, Types

-----------------------------------------------------------------------------
(* Removing one.                                                           *)

LEMMA StartRemoveStep ==
  ASSUME IInv, NEW p \in Procs, NEW s \in Ids, StartRemove(p, s)
  PROVE  IInv'
<1> DEFINE due == {s} \cap Watched
<1>1. Begin(p, [Idle EXCEPT !.kind = "remove", !.sid = s, !.pc = "get", !.due = due])
      /\ UNCHANGED <<user, rows, issued, keys, list, leaked>>
  BY DEF StartRemove
<1>2. "remove" \in Kinds /\ "get" \in Pcs /\ s \in 0 .. issued /\ due \in SUBSET (1 .. issued)
      /\ Idle.excused \in BOOLEAN /\ due \subseteq {s}
  BY Known DEF Kinds, Pcs, Ids, Idle
<1> HIDE DEF due
<1>3. [Idle EXCEPT !.kind = "remove", !.sid = s, !.pc = "get", !.due = due]
      = New("remove", "get", s, due, Idle.excused)
  BY IdleIs, 0 \in Nat DEF New, Op
<1> QED BY <1>1, <1>2, <1>3, Begins

LEMMA DeleteOneStep == ASSUME IInv, NEW p \in Procs, DeleteOne(p) PROVE IInv'
<1> DEFINE pc == IF op[p].pc = "found" THEN "listGet" ELSE "uncache"
           new == On(op[p], pc, op[p].sid, op[p].ids, op[p].todo)
<1>1. /\ op[p].kind = "remove" /\ op[p].pc \in {"found", "missing"}
      /\ rows' = rows \ {op[p].sid} /\ Goto(p, pc)
      /\ UNCHANGED <<user, issued, keys, list, leaked>>
  BY DEF DeleteOne
<1>2. pc \in {"listGet", "uncache"} /\ pc \in Pcs
  BY DEF Pcs
<1> HIDE DEF pc
<1>3. /\ Becomes(p, new) /\ revoked' = revoked /\ new \in Op(issued)
      /\ new.kind = op[p].kind /\ new.pc = pc /\ new.sid = op[p].sid
      /\ new.due = op[p].due
  BY <1>1, <1>2, GotoIs
<1> HIDE DEF new
<1>4. Types /\ revoked \cap rows = {}
  BY Known DEF IInv
<1>5. /\ op' \in [Procs -> Op(issued)] /\ op'[p] = new
      /\ \A q \in Procs \ {p} : op'[q] = op[q]
  BY <1>3, <1>4, BecomesDoes DEF Types
<1>6. World
  BY <1>1, <1>3, <1>4 DEF World, Types
<1>7. Types' /\ revoked' \cap rows' = {}
  BY <1>1, <1>3, <1>4, <1>5 DEF Types
<1>8. op[p].due \subseteq {op[p].sid}
  BY <1>1, Known DEF Fits
<1>9. Fits(op[p])'
  BY <1>1, <1>2, <1>3, <1>5, <1>8 DEF Fits, Refused
<1>10. KeysExplained'
  <2>1. Cleans(op[p]) = {}
    BY <1>1, NoCleans
  <2>2. op[p].sid \in Cleans(new)
    BY <1>1, <1>2, <1>3 DEF Cleans
  <2> QED BY <1>1, <1>5, <1>6, <2>1, <2>2, StaysExplained
<1> QED BY <1>5, <1>6, <1>7, <1>9, <1>10, Stays

LEMMA RemoveListGetStep == ASSUME IInv, NEW p \in Procs, RemoveListGet(p) PROVE IInv'
<1>1. op[p].kind = "remove" /\ op[p].pc = "listGet" /\ UNCHANGED <<user, rows, issued, keys, list, leaked>>
  BY DEF RemoveListGet, At
<1>2. list = Miss \/ list \subseteq 1 .. issued
  BY Known DEF Types
<1>3. Fits(op[p]) /\ op[p] \in Op(issued)
  BY Known
<1>4. ASSUME NEW new \in Op(issued), Becomes(p, new), revoked' = revoked, new.kind = op[p].kind,
             new.pc \in {"listSet", "uncache"}, new.sid = op[p].sid, new.due = op[p].due
      PROVE  IInv'
  <2>1. Fits(new)
    BY <1>1, <1>3, <1>4 DEF Fits, Deleted, Refused
  <2>2. Cleans(op[p]) \subseteq Cleans(new)
    BY <1>1, <1>4 DEF Cleans
  <2> QED BY <1>1, <1>2, <1>4, <2>1, <2>2, Goes
<1>5. CASE list # Miss /\ Become(p, [op[p] EXCEPT !.pc = "listSet", !.ids = list \ {op[p].sid}])
  <2> DEFINE ids == list \ {op[p].sid}
             new == On(op[p], "listSet", op[p].sid, ids, op[p].todo)
  <2>1. ids \in SUBSET (1 .. issued)
    BY <1>2, <1>5
  <2>2. Become(p, [op[p] EXCEPT !.pc = "listSet", !.ids = ids])
    BY <1>5
  <2> HIDE DEF ids
  <2>3. [op[p] EXCEPT !.pc = "listSet", !.ids = ids] = new
    BY <1>3 DEF On, Op
  <2>4. "listSet" \in Pcs /\ op[p].sid \in 0 .. issued /\ op[p].todo \in SUBSET (1 .. issued)
    BY Known DEF Pcs
  <2>5. /\ Becomes(p, new) /\ revoked' = revoked /\ new \in Op(issued) /\ new.kind = op[p].kind
        /\ new.pc = "listSet" /\ new.sid = op[p].sid /\ new.due = op[p].due
    <3>1. Becomes(p, new) /\ revoked' = revoked
      BY <2>2, <2>3 DEF Become, Becomes
    <3>2. issued \in Nat
      BY Known
    <3> QED BY <1>3, <2>1, <2>4, <3>1, <3>2, OnIs
  <2> HIDE DEF new
  <2> QED BY <1>4, <2>5
<1>6. CASE Goto(p, "uncache")
  <2> DEFINE new == On(op[p], "uncache", op[p].sid, op[p].ids, op[p].todo)
  <2>1. "uncache" \in Pcs
    BY DEF Pcs
  <2>2. /\ Becomes(p, new) /\ revoked' = revoked /\ new \in Op(issued) /\ new.kind = op[p].kind
        /\ new.pc = "uncache" /\ new.sid = op[p].sid /\ new.due = op[p].due
    BY <1>6, <2>1, GotoIs
  <2> HIDE DEF new
  <2> QED BY <1>4, <2>2
<1> QED BY <1>5, <1>6 DEF RemoveListGet

\* After a login, a removal or a listing.
LEMMA ListSetStep == ASSUME IInv, NEW p \in Procs, ListSet(p) PROVE IInv'
<1>1. /\ op[p].pc = "listSet" /\ UNCHANGED <<user, rows, issued, keys, leaked>>
      /\ list' = op[p].ids \/ list' = list
      /\ op[p].kind = "remove" => Become(p, [op[p] EXCEPT !.pc = "uncache", !.ids = {}])
      /\ op[p].kind # "remove" => End(p)
  BY DEF ListSet
<1>2. list' = Miss \/ list' \subseteq 1 .. issued
  BY <1>1, Known DEF Types
<1>3. CASE op[p].kind = "remove"
  <2> DEFINE ids == {}
             new == On(op[p], "uncache", op[p].sid, ids, op[p].todo)
  <2>1. Fits(op[p]) /\ op[p] \in Op(issued) /\ issued \in Nat
    BY Known
  <2>2. Become(p, [op[p] EXCEPT !.pc = "uncache", !.ids = ids])
    BY <1>1, <1>3
  <2>3. "uncache" \in Pcs /\ op[p].sid \in 0 .. issued /\ op[p].todo \in SUBSET (1 .. issued)
        /\ ids \in SUBSET (1 .. issued)
    BY Known DEF Pcs
  <2> HIDE DEF ids
  <2>4. [op[p] EXCEPT !.pc = "uncache", !.ids = ids] = new
    BY <2>1 DEF On, Op
  <2>5. /\ Becomes(p, new) /\ revoked' = revoked /\ new \in Op(issued) /\ new.kind = op[p].kind
        /\ new.pc = "uncache" /\ new.sid = op[p].sid /\ new.due = op[p].due
    <3>1. Becomes(p, new) /\ revoked' = revoked
      BY <2>2, <2>4 DEF Become, Becomes
    <3> QED BY <2>1, <2>3, <3>1, OnIs
  <2> HIDE DEF new
  <2>6. Fits(new)
    BY <1>1, <1>3, <2>1, <2>5 DEF Fits, Deleted, Refused
  <2>7. Cleans(op[p]) \subseteq Cleans(new)
    BY <1>1, <1>3, <2>5 DEF Cleans
  <2> QED BY <1>1, <1>2, <2>5, <2>6, <2>7, Goes
<1>4. op[p].kind # "purge"
  BY <1>1, Known DEF Fits
<1>5. CASE op[p].kind \notin {"remove", "purge"}
  BY <1>1, <1>2, <1>5, Ends
<1> QED BY <1>3, <1>4, <1>5

\* A step that takes p to an end, and keys away or into the leaked ones.
LEMMA Leaves ==
  ASSUME IInv, NEW p \in Procs, Becomes(p, Idle), UNCHANGED <<user, rows, issued>>,
         list' = Miss \/ list' = list,
         revoked' = revoked \/ (revoked' = revoked \cup op[p].due /\ Deleted(op[p])),
         keys' \subseteq keys, leaked' \subseteq keys', leaked \cap keys' \subseteq leaked',
         Cleans(op[p]) \cap keys' \cap Watched \subseteq leaked'
  PROVE  IInv'
<1>1. Types /\ revoked \cap rows = {} /\ Fits(op[p]) /\ op[p].due \subseteq 1 .. issued
  BY Known DEF IInv
<1>2. revoked' \subseteq 1 .. issued /\ revoked' \cap rows' = {} /\ revoked \subseteq revoked'
  <2>1. Deleted(op[p]) => op[p].due \cap rows = {}
    BY <1>1 DEF Fits
  <2> QED BY <1>1, <2>1 DEF Types
<1>3. World
  BY <1>1, <1>2 DEF World, Types
<1>4. keys' \subseteq 1 .. issued /\ (list' = Miss \/ list' \subseteq 1 .. issued)
      /\ user' \in {"active", "banned", "gone"}
  BY <1>1 DEF Types
<1> QED BY <1>2, <1>3, <1>4, IdleFits, Carries

LEMMA UncacheStep == ASSUME IInv, NEW p \in Procs, Uncache(p) PROVE IInv'
<1>1. /\ op[p].kind = "remove" /\ op[p].pc = "uncache" /\ UNCHANGED <<user, rows, issued, list>>
      /\ Becomes(p, Idle) /\ revoked' = revoked \cup op[p].due
      /\ \/ keys' = keys \ {op[p].sid} /\ leaked' = leaked \ {op[p].sid}
         \/ leaked' = leaked \cup ({op[p].sid} \cap keys \cap Watched) /\ UNCHANGED keys
  BY DEF Uncache, At, End, Becomes
<1>2. Deleted(op[p]) /\ Cleans(op[p]) \subseteq {op[p].sid}
  BY <1>1 DEF Deleted, Cleans
<1>3. leaked \subseteq keys
  BY Known DEF Types
<1>4. keys' \subseteq keys /\ leaked' \subseteq keys' /\ leaked \cap keys' \subseteq leaked'
      /\ Cleans(op[p]) \cap keys' \cap Watched \subseteq leaked'
  BY <1>1, <1>2, <1>3
<1> QED BY <1>1, <1>2, <1>4, Leaves

LEMMA UncacheAllStep == ASSUME IInv, NEW p \in Procs, UncacheAll(p) PROVE IInv'
<1>1. /\ op[p].kind = "purge" /\ op[p].pc = "uncacheAll" /\ UNCHANGED <<user, rows, issued>>
      /\ Becomes(p, Idle) /\ revoked' = revoked \cup op[p].due
      /\ \/ keys' = keys \ op[p].ids /\ leaked' = leaked \ op[p].ids /\ list' = Miss
         \/ leaked' = leaked \cup (op[p].ids \cap keys \cap Watched) /\ UNCHANGED <<keys, list>>
  BY DEF UncacheAll, At, End, Becomes
<1>2. Deleted(op[p]) /\ Cleans(op[p]) \subseteq op[p].ids
  BY <1>1 DEF Deleted, Cleans
<1>3. leaked \subseteq keys
  BY Known DEF Types
<1>4. keys' \subseteq keys /\ leaked' \subseteq keys' /\ leaked \cap keys' \subseteq leaked'
      /\ Cleans(op[p]) \cap keys' \cap Watched \subseteq leaked'
  BY <1>1, <1>2, <1>3
<1> QED BY <1>1, <1>2, <1>4, Leaves

LEMMA AbortStep == ASSUME IInv, NEW p \in Procs, Abort(p) PROVE IInv'
<1>1. /\ UNCHANGED <<user, rows, issued, keys, list, revoked>> /\ Becomes(p, Idle)
      /\ leaked' = leaked \cup (Uncaches(p) \cap keys \cap Watched)
  BY DEF Abort, Become, Becomes
<1>2. Uncaches(p) = Cleans(op[p])
  BY UncachesIs DEF IInv
<1>3. leaked \subseteq keys
  BY Known DEF Types
<1> QED BY <1>1, <1>2, <1>3, Leaves

-----------------------------------------------------------------------------
(* Listing.                                                                *)

\* A listing goes on.
LEMMA ListGoes ==
  ASSUME IInv, NEW p \in Procs, op[p].kind = "list", NEW pc \in Pcs, NEW sid \in 0 .. issued,
         NEW ids \in SUBSET (1 .. issued), NEW todo \in SUBSET (1 .. issued),
         pc \notin {"fill", "put", "missing"},
         op' = [op EXCEPT ![p] = On(op[p], pc, sid, ids, todo)], revoked' = revoked,
         UNCHANGED <<user, rows, issued, list>>,
         UNCHANGED <<keys, leaked>> \/ \E s \in 1 .. issued : Store(s)
  PROVE  IInv'
<1> DEFINE new == On(op[p], pc, sid, ids, todo)
<1>1. issued \in Nat /\ op[p] \in Op(issued) /\ Fits(op[p]) /\ (list = Miss \/ list \subseteq 1 .. issued)
  BY Known DEF Types
<1>2. Becomes(p, new)
  BY DEF Becomes
<1>3. new \in Op(issued) /\ new.kind = op[p].kind /\ new.pc = pc /\ new.sid = sid
      /\ new.due = op[p].due
  BY <1>1, OnIs
<1> HIDE DEF new
<1>4. Fits(new)
  BY <1>1, <1>3 DEF Fits, Deleted, Refused
<1>5. Cleans(op[p]) = {}
  BY NoCleans
<1>6. CASE UNCHANGED <<keys, leaked>>
  BY <1>1, <1>2, <1>3, <1>4, <1>5, <1>6, Goes
<1>7. CASE \E s \in 1 .. issued : Store(s)
  BY <1>2, <1>3, <1>4, <1>5, <1>7, Stores
<1> QED BY <1>6, <1>7

LEMMA IdsGetStep == ASSUME IInv, NEW p \in Procs, IdsGet(p) PROVE IInv'
<1>1. op[p].kind = "list" /\ UNCHANGED <<user, rows, issued, keys, list, leaked>>
  BY DEF IdsGet, At
<1>2. /\ op[p] \in Op(issued) /\ op[p].sid \in 0 .. issued /\ op[p].ids \in SUBSET (1 .. issued)
      /\ op[p].todo \in SUBSET (1 .. issued) /\ (list = Miss \/ list \subseteq 1 .. issued)
      /\ "next" \in Pcs /\ "selectAll" \in Pcs
  BY Known DEF Types, Pcs
<1>3. CASE list # Miss /\ Become(p, [op[p] EXCEPT !.pc = "next", !.todo = list])
  <2>1. [op[p] EXCEPT !.pc = "next", !.todo = list] = On(op[p], "next", op[p].sid, op[p].ids, list)
    BY <1>2 DEF On, Op
  <2>2. op' = [op EXCEPT ![p] = On(op[p], "next", op[p].sid, op[p].ids, list)] /\ revoked' = revoked
    BY <1>3, <2>1 DEF Become
  <2>3. list \in SUBSET (1 .. issued)
    BY <1>2, <1>3
  <2> QED BY <1>1, <1>2, <2>2, <2>3, ListGoes
<1>4. CASE Goto(p, "selectAll")
  <2>1. op' = [op EXCEPT ![p] = On(op[p], "selectAll", op[p].sid, op[p].ids, op[p].todo)]
        /\ revoked' = revoked
    BY <1>2, <1>4, GotoIs DEF Becomes
  <2> QED BY <1>1, <1>2, <2>1, ListGoes
<1> QED BY <1>3, <1>4 DEF IdsGet

LEMMA NextOfListStep == ASSUME IInv, NEW p \in Procs, NextOfList(p) PROVE IInv'
<1>1. op[p].kind = "list" /\ UNCHANGED <<user, rows, issued, keys, list, leaked>>
  BY DEF NextOfList
<1>2. /\ op[p] \in Op(issued) /\ op[p].ids \in SUBSET (1 .. issued) /\ "get" \in Pcs
      /\ op[p].todo \in SUBSET (1 .. issued) /\ (list = Miss \/ list \subseteq 1 .. issued)
  BY Known DEF Types, Pcs
<1>3. ASSUME NEW s \in op[p].todo, Become(p, [op[p] EXCEPT !.pc = "get", !.sid = s, !.todo = @ \ {s}])
      PROVE  IInv'
  <2> DEFINE todo == op[p].todo \ {s}
  <2>1. Become(p, [op[p] EXCEPT !.pc = "get", !.sid = s, !.todo = todo])
    BY <1>3
  <2>2. todo \in SUBSET (1 .. issued) /\ s \in 0 .. issued
    BY <1>2, Known
  <2> HIDE DEF todo
  <2>3. [op[p] EXCEPT !.pc = "get", !.sid = s, !.todo = todo] = On(op[p], "get", s, op[p].ids, todo)
    BY <1>2 DEF On, Op
  <2>4. op' = [op EXCEPT ![p] = On(op[p], "get", s, op[p].ids, todo)] /\ revoked' = revoked
    BY <2>1, <2>3 DEF Become
  <2> QED BY <1>1, <1>2, <2>2, <2>4, ListGoes
<1>4. CASE End(p)
  BY <1>1, <1>2, <1>4, Ends
<1> QED BY <1>3, <1>4 DEF NextOfList

LEMMA SelectAllStep == ASSUME IInv, NEW p \in Procs, SelectAll(p) PROVE IInv'
<1>1. op[p].kind = "list" /\ UNCHANGED <<user, rows, issued, keys, list, leaked>>
      /\ Become(p, [op[p] EXCEPT !.pc = "fillAll", !.ids = rows, !.todo = rows])
  BY DEF SelectAll, At
<1>2. op[p] \in Op(issued) /\ op[p].sid \in 0 .. issued /\ rows \in SUBSET (1 .. issued) /\ "fillAll" \in Pcs
  BY Known DEF Types, Pcs
<1>3. [op[p] EXCEPT !.pc = "fillAll", !.ids = rows, !.todo = rows]
      = On(op[p], "fillAll", op[p].sid, rows, rows)
  BY <1>2 DEF On, Op
<1>4. op' = [op EXCEPT ![p] = On(op[p], "fillAll", op[p].sid, rows, rows)] /\ revoked' = revoked
  BY <1>1, <1>3 DEF Become
<1> QED BY <1>1, <1>2, <1>4, ListGoes

LEMMA FillNextStep == ASSUME IInv, NEW p \in Procs, FillNext(p) PROVE IInv'
<1>1. op[p].kind = "list" /\ op[p].pc = "fillAll" /\ UNCHANGED <<user, rows, issued, list>>
  BY DEF FillNext, At
<1>2. /\ op[p] \in Op(issued) /\ op[p].sid \in 0 .. issued /\ op[p].ids \in SUBSET (1 .. issued)
      /\ op[p].todo \in SUBSET (1 .. issued) /\ "fillAll" \in Pcs /\ "listSet" \in Pcs
  BY Known DEF Pcs
<1>3. ASSUME NEW s \in op[p].todo, Store(s), Become(p, [op[p] EXCEPT !.todo = @ \ {s}])
      PROVE  IInv'
  <2> DEFINE todo == op[p].todo \ {s}
  <2>1. Become(p, [op[p] EXCEPT !.todo = todo])
    BY <1>3
  <2>2. todo \in SUBSET (1 .. issued) /\ s \in 1 .. issued
    BY <1>2
  <2> HIDE DEF todo
  <2>3. [op[p] EXCEPT !.todo = todo] = On(op[p], "fillAll", op[p].sid, op[p].ids, todo)
    BY <1>1, <1>2 DEF On, Op
  <2>4. op' = [op EXCEPT ![p] = On(op[p], "fillAll", op[p].sid, op[p].ids, todo)] /\ revoked' = revoked
    BY <2>1, <2>3 DEF Become
  <2> QED BY <1>1, <1>2, <1>3, <2>2, <2>4, ListGoes
<1>4. CASE Goto(p, "listSet") /\ UNCHANGED <<keys, leaked>>
  <2>1. op' = [op EXCEPT ![p] = On(op[p], "listSet", op[p].sid, op[p].ids, op[p].todo)]
        /\ revoked' = revoked
    BY <1>2, <1>4, GotoIs DEF Becomes
  <2> QED BY <1>1, <1>2, <1>4, <2>1, ListGoes
<1> QED BY <1>3, <1>4 DEF FillNext

-----------------------------------------------------------------------------
(* Bans and deletions of the user.                                         *)

\* The beginning of either.
LEMMA Purges ==
  ASSUME IInv, NEW p \in Procs,
         Begin(p, [Idle EXCEPT !.kind = "purge", !.pc = "selectIds", !.due = Ids \cap Watched]),
         user' \in {"active", "banned", "gone"}, user = "gone" => user' = "gone",
         rows' = rows \/ (rows' = {} /\ user' = "gone"),
         UNCHANGED <<issued, keys, list, leaked>>
  PROVE  IInv'
<1> DEFINE due == Ids \cap Watched
           new == New("purge", "selectIds", Idle.sid, due, Idle.excused)
<1>1. "purge" \in Kinds /\ "selectIds" \in Pcs /\ due \in SUBSET (1 .. issued)
      /\ Idle.sid \in 0 .. issued /\ Idle.excused \in BOOLEAN
  BY Known, IdleIs DEF Kinds, Pcs, Ids, Idle
<1>2. Begin(p, [Idle EXCEPT !.kind = "purge", !.pc = "selectIds", !.due = due])
  OBVIOUS
<1> HIDE DEF due
<1>3. [Idle EXCEPT !.kind = "purge", !.pc = "selectIds", !.due = due] = new
  BY NewUpdates
<1>4. Becomes(p, new) /\ revoked' = revoked /\ op[p].kind = "idle"
  BY <1>2, <1>3 DEF Begin, Becomes
<1>5. new \in Op(issued) /\ new.kind = "purge" /\ new.pc = "selectIds"
  <2>1. issued \in Nat
    BY Known
  <2> QED BY <1>1, <2>1, NewIs
<1> HIDE DEF new
<1>6. Fits(new)
  BY <1>5 DEF Fits, Deleted, Refused
<1>7. Cleans(op[p]) = {}
  BY <1>4, NoCleans
<1>8. Types /\ revoked \cap rows = {}
  BY Known DEF IInv
<1>9. World
  BY <1>4, <1>8 DEF World, Types
<1>10. /\ rows' \subseteq rows /\ keys' \subseteq 1 .. issued /\ leaked' \subseteq keys'
       /\ revoked' \subseteq 1 .. issued /\ revoked' \cap rows' = {}
       /\ list' = Miss \/ list' \subseteq 1 .. issued
  BY <1>4, <1>8 DEF Types
<1> QED BY <1>4, <1>5, <1>6, <1>7, <1>9, <1>10, Carries

LEMMA BanStep == ASSUME IInv, NEW p \in Procs, Ban(p) PROVE IInv'
  BY Purges DEF Ban
LEMMA DestroyStep == ASSUME IInv, NEW p \in Procs, Destroy(p) PROVE IInv'
  BY Purges DEF Destroy

LEMMA SelectIdsStep == ASSUME IInv, NEW p \in Procs, SelectIds(p) PROVE IInv'
<1> DEFINE new == On(op[p], "deleteAll", op[p].sid, rows, op[p].todo)
<1>1. op[p].kind = "purge" /\ op[p].pc = "selectIds" /\ UNCHANGED <<user, rows, issued, keys, list, leaked>>
      /\ Become(p, [op[p] EXCEPT !.pc = "deleteAll", !.ids = rows])
  BY DEF SelectIds, At
<1>2. /\ op[p] \in Op(issued) /\ op[p].sid \in 0 .. issued /\ rows \in SUBSET (1 .. issued)
      /\ op[p].todo \in SUBSET (1 .. issued) /\ "deleteAll" \in Pcs /\ issued \in Nat
      /\ (list = Miss \/ list \subseteq 1 .. issued)
  BY Known DEF Types, Pcs
<1>3. [op[p] EXCEPT !.pc = "deleteAll", !.ids = rows] = new
  BY <1>2 DEF On, Op
<1>4. Becomes(p, new) /\ revoked' = revoked
  BY <1>1, <1>3 DEF Become, Becomes
<1>5. new \in Op(issued) /\ new.kind = "purge" /\ new.pc = "deleteAll"
  BY <1>1, <1>2, OnIs
<1> HIDE DEF new
<1>6. Fits(new)
  BY <1>5 DEF Fits, Deleted, Refused
<1>7. Cleans(op[p]) = {}
  BY <1>1, NoCleans
<1> QED BY <1>1, <1>2, <1>4, <1>5, <1>6, <1>7, Goes

LEMMA DeleteAllStep == ASSUME IInv, NEW p \in Procs, DeleteAll(p) PROVE IInv'
<1> DEFINE new == On(op[p], "uncacheAll", op[p].sid, op[p].ids, op[p].todo)
<1>1. /\ op[p].kind = "purge" /\ op[p].pc = "deleteAll" /\ rows' = {} /\ Goto(p, "uncacheAll")
      /\ leaked' = leaked \cup ((rows \ op[p].ids) \cap keys \cap Watched)
      /\ UNCHANGED <<user, issued, keys, list>>
  BY DEF DeleteAll, At
<1>2. "uncacheAll" \in Pcs
  BY DEF Pcs
<1>3. /\ Becomes(p, new) /\ revoked' = revoked /\ new \in Op(issued)
      /\ new.kind = op[p].kind /\ new.pc = "uncacheAll" /\ new.ids = op[p].ids
  BY <1>1, <1>2, GotoIs
<1> HIDE DEF new
<1>4. Types
  BY Known
<1>5. /\ op' \in [Procs -> Op(issued)] /\ op'[p] = new
      /\ \A q \in Procs \ {p} : op'[q] = op[q]
  BY <1>3, <1>4, BecomesDoes DEF Types
<1>6. World
  BY <1>1, <1>3, <1>4 DEF World, Types
<1>7. Types' /\ revoked' \cap rows' = {}
  BY <1>1, <1>3, <1>4, <1>5 DEF Types
<1>8. Fits(op[p])'
  BY <1>1, <1>3, <1>5 DEF Fits, Refused
<1>9. KeysExplained'
  <2>1. Cleans(op[p]) = {}
    BY <1>1, NoCleans
  <2>2. op[p].ids \subseteq Cleans(new)
    BY <1>1, <1>3 DEF Cleans
  <2> QED BY <1>1, <1>5, <1>6, <2>1, <2>2, StaysExplained
<1> QED BY <1>5, <1>6, <1>7, <1>8, <1>9, Stays

-----------------------------------------------------------------------------
(* What else happens.                                                      *)

\* A step that no handler takes.
LEMMA Rests ==
  ASSUME IInv, UNCHANGED <<rows, issued, op, revoked>>, user' = user \/ (user = "banned" /\ user' = "active"),
         keys' \subseteq keys, leaked' \subseteq keys', leaked \cap keys' \subseteq leaked',
         list' = Miss \/ list' = list
  PROVE  IInv'
<1>1. Types /\ revoked \cap rows = {} /\ KeysExplained
  BY TypeMeans DEF IInv
<1>2. World
  BY <1>1 DEF World, Types
<1>3. Types' /\ (revoked \cap rows = {})' /\ rows' \subseteq 1 .. issued'
  BY <1>1 DEF Types
<1>4. TypeOK'
  BY <1>3, TypeMeans, PTL
<1>5. \A q \in Procs : Fits(op[q])'
  <2>1. ASSUME NEW q \in Procs PROVE Fits(op[q])'
    <3>1. op[q] \in Op(issued) /\ Fits(op[q]) /\ op'[q] = op[q]
      BY <1>1 DEF IInv, Types
    <3> QED BY <1>2, <1>3, <3>1, FitsStays
  <2> QED BY <2>1
<1>6. KeysExplained'
  BY <1>1 DEF KeysExplained
<1> QED BY <1>3, <1>4, <1>5, <1>6 DEF IInv

LEMMA OthersStep ==
  ASSUME IInv, Unban \/ (\E s \in keys : Expire(s)) \/ ExpireList \/ UNCHANGED vars
  PROVE  IInv'
<1>1. leaked \subseteq keys
  BY TypeMeans DEF IInv, Types
<1>2. CASE Unban
  BY <1>1, <1>2, Rests DEF Unban
<1>3. ASSUME NEW s \in keys, Expire(s) PROVE IInv'
  BY <1>1, <1>3, Rests DEF Expire
<1>4. CASE ExpireList
  BY <1>1, <1>4, Rests DEF ExpireList
<1>5. CASE UNCHANGED vars
  BY <1>1, <1>5, Rests DEF vars
<1> QED BY <1>2, <1>3, <1>4, <1>5

-----------------------------------------------------------------------------
LEMMA InitInv == Init => IInv
<1> SUFFICES ASSUME Init PROVE IInv
  OBVIOUS
<1>1. issued = 0 /\ rows = {} /\ keys = {} /\ leaked = {} /\ revoked = {} /\ user = "active"
      /\ list = Miss /\ op = [p \in Procs |-> Idle]
  BY DEF Init
<1>2. Idle \in Op(0)
  BY IdleIs
<1>3. Types
  BY <1>1, <1>2, SessionsAssumption DEF Types
<1>4. TypeOK
  BY <1>3, TypeMeans
<1>5. \A p \in Procs : Fits(op[p])
  BY <1>1, IdleIs DEF Fits, Deleted, Refused
<1> QED BY <1>1, <1>4, <1>5 DEF IInv, KeysExplained

LEMMA StepInv == ASSUME IInv, NEW p \in Procs, Step(p) PROVE IInv'
  BY GetStep, SelectStep, FillStep, InsertStep, PutStep, LoginListGetStep, AdmitStep, AnswerStep,
     DeleteOneStep, RemoveListGetStep, UncacheStep, IdsGetStep, NextOfListStep, SelectAllStep,
     FillNextStep, ListSetStep, SelectIdsStep, DeleteAllStep, UncacheAllStep DEF Step

LEMMA NextInv == IInv /\ [Next]_vars => IInv'
<1> SUFFICES ASSUME IInv, [Next]_vars PROVE IInv'
  OBVIOUS
<1>1. ASSUME NEW p \in Procs, StartLogin(p) \/ StartList(p) \/ Ban(p) \/ Destroy(p) PROVE IInv'
  BY <1>1, StartLoginStep, StartListStep, BanStep, DestroyStep
<1>2. ASSUME NEW p \in Procs, NEW s \in Ids, StartAuth(p, s) \/ StartRemove(p, s) PROVE IInv'
  BY <1>2, StartAuthStep, StartRemoveStep
<1>3. ASSUME NEW p \in Procs, Step(p) \/ Abort(p) PROVE IInv'
  BY <1>3, StepInv, AbortStep
<1>4. CASE Unban \/ (\E s \in keys : Expire(s)) \/ ExpireList \/ UNCHANGED vars
  BY <1>4, OthersStep
<1> QED BY <1>1, <1>2, <1>3, <1>4 DEF Next

\* The inductive invariant holds in every state of every run.
THEOREM Invariant == Spec => []IInv
  BY InitInv, NextInv, PTL DEF Spec

\* Every variable keeps its type: what a handler holds are sessions that were issued, and
\* a leaked key is a key.
THEOREM TypeCorrect == Spec => []TypeOK
<1>1. IInv => TypeOK
  BY DEF IInv
<1> QED BY <1>1, Invariant, PTL

\* A session that was removed, or revoked with its user, opens nothing any more, but
\* for the races and the failures of Redis that RevokedIsRefused names.
THEOREM Revocation == Spec => []RevokedIsRefused
<1>1. IInv => RevokedIsRefused
  BY DEF IInv, Fits, Refused, RevokedIsRefused, At
<1> QED BY <1>1, Invariant, PTL

\* Whatever Redis loses, a session is refused as unknown only once its row is gone.
THEOREM Continuity == Spec => []RefusedOnlyIfRevoked
<1>1. IInv => RefusedOnlyIfRevoked
  BY DEF IInv, Fits, RefusedOnlyIfRevoked
<1> QED BY <1>1, Invariant, PTL
==============================================================================
