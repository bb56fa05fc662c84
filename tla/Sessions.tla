------------------------------ MODULE Sessions ------------------------------
(***************************************************************************)
(* The sessions of one user: the table sessions, its copies in Redis, and  *)
(* what logs in, authenticates, lists and revokes (src/internal/store      *)
(* store.go and admin.go, src/internal/service/auth.go, and the handlers   *)
(* of src/internal/httpapi/server.go above them).                          *)
(*                                                                         *)
(* A session lives in a row of the table.  With Redis configured there are *)
(* two kinds of key beside it: one per session, that answers SessionByID   *)
(* without a look at the table, and one per user with the list of session  *)
(* ids.  Statements and cache calls are atomic, handlers interleave between *)
(* them, and every error of Redis is dropped by the code.  A handler       *)
(* without Redis does what it does with a Redis all of whose calls fail.   *)
(*                                                                         *)
(* Abstractions: session ids (24 random bytes) are numbers in the order of *)
(* their creation; ip, ua and login_at are left out; the order of the list *)
(* is left out, so the calls for its members come in any order.  A JWT     *)
(* that is malformed or over its 30 days is refused before any of this.    *)
(* What a stale full-row write does to the ban is in UserRows.             *)
(***************************************************************************)
EXTENDS Integers

CONSTANTS
  Procs,      \* handlers that may be in flight together
  Miss,       \* what the list key holds when it holds nothing
  CacheFails, \* may calls to Redis fail
  Watched,    \* sessions the history variables follow
  MaxSession  \* bound: sessions issued

ASSUME SessionsAssumption ==
  /\ CacheFails \in BOOLEAN
  /\ MaxSession \in Nat /\ Watched \subseteq 1 .. MaxSession
  /\ \A S \in SUBSET (1 .. MaxSession) : S # Miss

VARIABLES
  user,   \* the row of the table users: active, banned or gone
  rows,   \* the user's rows in the table sessions
  issued, \* how many sessions were created
  keys,   \* the sessions with a key session:<id> in Redis
  list,   \* the key user_sessions:<user>, or Miss
  op,     \* what each handler is doing
  leaked, \* history: keys that no revocation will delete
  revoked \* history: sessions whose revocation was answered

vars == <<user, rows, issued, keys, list, op, leaked, revoked>>

Ids == 1 .. issued
Idle == [kind |-> "idle", pc |-> "idle", sid |-> 0, ids |-> {}, todo |-> {}, due |-> {},
         excused |-> FALSE]

At(p, kind, pc) == op[p].kind = kind /\ op[p].pc = pc

\* A handler begins, goes on, and ends: what it was to revoke then is revoked.
Begin(p, o) == op[p].kind = "idle" /\ op' = [op EXCEPT ![p] = o] /\ UNCHANGED revoked
Become(p, o) == op' = [op EXCEPT ![p] = o] /\ UNCHANGED revoked
Goto(p, pc) == Become(p, [op[p] EXCEPT !.pc = pc])
End(p) == op' = [op EXCEPT ![p] = Idle] /\ revoked' = revoked \cup op[p].due

\* Between the DELETE and the end, a handler has keys to delete.
Uncaches(p) ==
  CASE op[p].kind = "remove" /\ op[p].pc \in {"listGet", "listSet", "uncache"} -> {op[p].sid}
    [] At(p, "purge", "uncacheAll") -> op[p].ids
    [] OTHER -> {}

-----------------------------------------------------------------------------
(* SessionByID, inside an authentication, a removal or a listing.          *)

\* SetJSON of one session: it is stored whether or not its row is still there.
Store(s) ==
  \/ /\ keys' = keys \cup {s}
     /\ leaked' = leaked \cup (({s} \ rows) \cap Watched)
  \/ CacheFails /\ UNCHANGED <<keys, leaked>>

\* History: an authentication relies on a key that should not be there.
Excused(p) == op[p].excused \/ (op[p].kind = "auth" /\ op[p].sid \in leaked)

\* Mutant: a miss is final.
GetFinal(p) ==
  /\ op[p].pc = "get"
  /\ Become(p, [op[p] EXCEPT !.pc = IF op[p].sid \in keys THEN "found" ELSE "missing",
                             !.excused = Excused(p)])
  /\ UNCHANGED <<user, rows, issued, keys, list, leaked>>
\* A hit is final.
Get(p) ==
  /\ op[p].pc = "get"
  /\ \/ /\ op[p].sid \in keys
        /\ Become(p, [op[p] EXCEPT !.pc = "found", !.excused = Excused(p)])
     \/ /\ op[p].sid \notin keys \/ CacheFails
        /\ Goto(p, "select")
  /\ UNCHANGED <<user, rows, issued, keys, list, leaked>>

Select(p) ==
  /\ op[p].pc = "select"
  /\ Goto(p, IF op[p].sid \in rows THEN "fill" ELSE "missing")
  /\ UNCHANGED <<user, rows, issued, keys, list, leaked>>

Fill(p) ==
  /\ op[p].pc = "fill"
  /\ Store(op[p].sid)
  /\ Goto(p, "found")
  /\ UNCHANGED <<user, rows, issued, list>>

-----------------------------------------------------------------------------
(* Issue: passportRegister, passportLogin, which refuses a banned user, and *)
(* passportToken2Login, which does not.                                    *)

StartLogin(p) ==
  /\ user # "gone"
  /\ Begin(p, [Idle EXCEPT !.kind = "login", !.pc = "insert"])
  /\ UNCHANGED <<user, rows, issued, keys, list, leaked>>

\* Mutant: the random id is one that was drawn before.
InsertReused(p) ==
  /\ At(p, "login", "insert")
  /\ rows' = rows \cup {issued + 1}
  /\ Become(p, [op[p] EXCEPT !.pc = "put", !.sid = issued + 1])
  /\ UNCHANGED <<user, issued, keys, list, leaked>>
\* CreateSession.  Nothing ties a row to the user it is for.
Insert(p) ==
  /\ At(p, "login", "insert")
  /\ issued < MaxSession
  /\ issued' = issued + 1
  /\ rows' = rows \cup {issued + 1}
  /\ Become(p, [op[p] EXCEPT !.pc = "put", !.sid = issued + 1])
  /\ UNCHANGED <<user, keys, list, leaked>>

Put(p) ==
  /\ At(p, "login", "put")
  /\ Store(op[p].sid)
  /\ Goto(p, "listGet")
  /\ UNCHANGED <<user, rows, issued, list>>

\* The new id is appended to a list that is there and not empty; a removed one
\* is taken off a list that is there.
LoginListGet(p) ==
  /\ At(p, "login", "listGet")
  /\ \/ /\ list \notin {Miss, {}}
        /\ Become(p, [op[p] EXCEPT !.pc = "listSet", !.sid = 0, !.ids = list \cup {op[p].sid}])
     \/ /\ list \in {Miss, {}} \/ CacheFails
        /\ End(p)
  /\ UNCHANGED <<user, rows, issued, keys, list, leaked>>

-----------------------------------------------------------------------------
(* ParseUser, in front of every handler of a signed-in user or an admin.   *)

\* History: a request may be let in if its session is not revoked when it comes
\* in, or is being revoked again.
StartAuth(p, s) ==
  /\ Begin(p, [Idle EXCEPT !.kind = "auth", !.pc = "get", !.sid = s,
                           !.excused = s \notin revoked \/ \E q \in Procs : s \in Uncaches(q)])
  /\ UNCHANGED <<user, rows, issued, keys, list, leaked>>

\* UserByID: the user is there, and not banned.
Admit(p) ==
  /\ At(p, "auth", "found")
  /\ IF user = "active" THEN Goto(p, "admitted") ELSE End(p)
  /\ UNCHANGED <<user, rows, issued, keys, list, leaked>>

Answer(p) ==
  /\ op[p].kind = "auth" /\ op[p].pc \in {"admitted", "missing"}
  /\ End(p)
  /\ UNCHANGED <<user, rows, issued, keys, list, leaked>>

-----------------------------------------------------------------------------
(* DeleteSession, from userRemoveActiveSession.                            *)

\* With a cache, SessionByID tells whose list the id is on.
StartRemove(p, s) ==
  /\ Begin(p, [Idle EXCEPT !.kind = "remove", !.sid = s, !.pc = "get",
                           !.due = {s} \cap Watched])
  /\ UNCHANGED <<user, rows, issued, keys, list, leaked>>

DeleteOne(p) ==
  /\ op[p].kind = "remove" /\ op[p].pc \in {"found", "missing"}
  /\ rows' = rows \ {op[p].sid}
  /\ Goto(p, IF op[p].pc = "found" THEN "listGet" ELSE "uncache")
  /\ UNCHANGED <<user, issued, keys, list, leaked>>

RemoveListGet(p) ==
  /\ At(p, "remove", "listGet")
  /\ \/ /\ list # Miss
        /\ Become(p, [op[p] EXCEPT !.pc = "listSet", !.ids = list \ {op[p].sid}])
     \/ /\ list = Miss \/ CacheFails
        /\ Goto(p, "uncache")
  /\ UNCHANGED <<user, rows, issued, keys, list, leaked>>

Uncache(p) ==
  /\ At(p, "remove", "uncache")
  /\ \/ /\ keys' = keys \ {op[p].sid}
        /\ leaked' = leaked \ {op[p].sid}
     \/ /\ CacheFails
        /\ leaked' = leaked \cup ({op[p].sid} \cap keys \cap Watched)
        /\ UNCHANGED keys
  /\ End(p)
  /\ UNCHANGED <<user, rows, issued, list>>

-----------------------------------------------------------------------------
(* ListSessionsByUserID, from userGetActiveSession.                        *)

StartList(p) ==
  /\ Begin(p, [Idle EXCEPT !.kind = "list", !.pc = "idsGet"])
  /\ UNCHANGED <<user, rows, issued, keys, list, leaked>>

IdsGet(p) ==
  /\ At(p, "list", "idsGet")
  /\ \/ /\ list \notin {Miss, {}}
        /\ Become(p, [op[p] EXCEPT !.pc = "next", !.todo = list])
     \/ /\ list \in {Miss, {}} \/ CacheFails
        /\ Goto(p, "selectAll")
  /\ UNCHANGED <<user, rows, issued, keys, list, leaked>>

\* SessionByID for each id of the cached list.
NextOfList(p) ==
  /\ op[p].kind = "list" /\ op[p].pc \in {"next", "found", "missing"}
  /\ \/ \E s \in op[p].todo :
          Become(p, [op[p] EXCEPT !.pc = "get", !.sid = s, !.todo = @ \ {s}])
     \/ op[p].todo = {} /\ End(p)
  /\ UNCHANGED <<user, rows, issued, keys, list, leaked>>

SelectAll(p) ==
  /\ At(p, "list", "selectAll")
  /\ Become(p, [op[p] EXCEPT !.pc = "fillAll", !.ids = rows, !.todo = rows])
  /\ UNCHANGED <<user, rows, issued, keys, list, leaked>>

FillNext(p) ==
  /\ At(p, "list", "fillAll")
  /\ \/ \E s \in op[p].todo : Store(s) /\ Become(p, [op[p] EXCEPT !.todo = @ \ {s}])
     \/ op[p].todo = {} /\ Goto(p, "listSet") /\ UNCHANGED <<keys, leaked>>
  /\ UNCHANGED <<user, rows, issued, list>>

\* The list goes back into the cache, as this handler has it: after a login, a
\* removal or a listing.
ListSet(p) ==
  /\ op[p].pc = "listSet"
  /\ \/ list' = op[p].ids
     \/ CacheFails /\ UNCHANGED list
  /\ IF op[p].kind = "remove"
     THEN Become(p, [op[p] EXCEPT !.pc = "uncache", !.ids = {}])
     ELSE End(p)
  /\ UNCHANGED <<user, rows, issued, keys, leaked>>

-----------------------------------------------------------------------------
(* DeleteSessionsByUserID, from the handlers that ban or delete a user.    *)

\* adminUserBan and adminUserUpdate.
Ban(p) ==
  /\ user # "gone"
  /\ user' = "banned"
  /\ Begin(p, [Idle EXCEPT !.kind = "purge", !.pc = "selectIds", !.due = Ids \cap Watched])
  /\ UNCHANGED <<rows, issued, keys, list, leaked>>

Unban ==
  /\ user = "banned"
  /\ user' = "active"
  /\ UNCHANGED <<rows, issued, keys, list, op, leaked, revoked>>

\* adminUserDestroy: DeleteUser has deleted the rows of the sessions already.
Destroy(p) ==
  /\ user' = "gone"
  /\ rows' = {}
  /\ Begin(p, [Idle EXCEPT !.kind = "purge", !.pc = "selectIds", !.due = Ids \cap Watched])
  /\ UNCHANGED <<issued, keys, list, leaked>>

SelectIds(p) ==
  /\ At(p, "purge", "selectIds")
  /\ Become(p, [op[p] EXCEPT !.pc = "deleteAll", !.ids = rows])
  /\ UNCHANGED <<user, rows, issued, keys, list, leaked>>

\* Mutant: the table is forgotten over the cache.
DeleteAllKeysOnly(p) ==
  /\ At(p, "purge", "deleteAll")
  /\ Goto(p, "uncacheAll")
  /\ UNCHANGED <<user, rows, issued, keys, list, leaked>>
\* What was issued since the SELECT is deleted too, but its key is not known.
DeleteAll(p) ==
  /\ At(p, "purge", "deleteAll")
  /\ rows' = {}
  /\ leaked' = leaked \cup ((rows \ op[p].ids) \cap keys \cap Watched)
  /\ Goto(p, "uncacheAll")
  /\ UNCHANGED <<user, issued, keys, list>>

UncacheAll(p) ==
  /\ At(p, "purge", "uncacheAll")
  /\ \/ /\ keys' = keys \ op[p].ids
        /\ leaked' = leaked \ op[p].ids
        /\ list' = Miss
     \/ /\ CacheFails
        /\ leaked' = leaked \cup (op[p].ids \cap keys \cap Watched)
        /\ UNCHANGED <<keys, list>>
  /\ End(p)
  /\ UNCHANGED <<user, rows, issued>>

-----------------------------------------------------------------------------
(* What else happens.                                                      *)

\* The request is cancelled, or the program dies: a key that this handler was
\* to delete stays.
Abort(p) ==
  /\ op[p] # Idle
  /\ leaked' = leaked \cup (Uncaches(p) \cap keys \cap Watched)
  /\ Become(p, Idle)
  /\ UNCHANGED <<user, rows, issued, keys, list>>

\* Redis drops a key: its 30 days are over, or someone flushes it.
Expire(s) ==
  /\ s \in keys
  /\ keys' = keys \ {s}
  /\ leaked' = leaked \ {s}
  /\ UNCHANGED <<user, rows, issued, list, op, revoked>>

ExpireList ==
  /\ list # Miss
  /\ list' = Miss
  /\ UNCHANGED <<user, rows, issued, keys, op, leaked, revoked>>

-----------------------------------------------------------------------------
Init ==
  /\ user = "active"
  /\ rows = {} /\ issued = 0
  /\ keys = {} /\ list = Miss
  /\ op = [p \in Procs |-> Idle]
  /\ leaked = {} /\ revoked = {}

\* The steps of a handler that the program takes by itself.
Step(p) ==
  \/ Get(p) \/ Select(p) \/ Fill(p)
  \/ Insert(p) \/ Put(p) \/ LoginListGet(p)
  \/ Admit(p) \/ Answer(p)
  \/ DeleteOne(p) \/ RemoveListGet(p) \/ Uncache(p)
  \/ IdsGet(p) \/ NextOfList(p) \/ SelectAll(p) \/ FillNext(p) \/ ListSet(p)
  \/ SelectIds(p) \/ DeleteAll(p) \/ UncacheAll(p)

Next ==
  \/ \E p \in Procs :
       \/ StartLogin(p) \/ StartList(p) \/ Ban(p) \/ Destroy(p)
       \/ \E s \in Ids : StartAuth(p, s) \/ StartRemove(p, s)
       \/ Step(p)
       \/ Abort(p)
  \/ Unban
  \/ \E s \in keys : Expire(s)
  \/ ExpireList

Spec == Init /\ [][Next]_vars

-----------------------------------------------------------------------------
(* Properties.                                                             *)

TypeOK ==
  /\ user \in {"active", "banned", "gone"}
  /\ issued \in 0 .. MaxSession
  /\ rows \subseteq Ids /\ keys \subseteq Ids /\ leaked \subseteq keys /\ revoked \subseteq Ids
  /\ list = Miss \/ list \subseteq Ids
  /\ op \in [Procs -> [kind : {"idle", "login", "auth", "remove", "list", "purge"},
                       pc : {"idle", "insert", "put", "listGet", "listSet", "get", "select",
                             "fill", "found", "missing", "admitted", "uncache",
                             "idsGet", "next", "selectAll", "fillAll", "selectIds",
                             "deleteAll", "uncacheAll"},
                       sid : 0 .. issued, ids : SUBSET Ids, todo : SUBSET Ids, due : SUBSET Ids,
                       excused : BOOLEAN]]

\* A session that was revoked -- its removal, or the ban or the deletion of a
\* user who already had it, was answered -- opens nothing any more, not even
\* after the ban is lifted, and nor does a key that outlives a deleted user.
\* With Redis, the ways around that are a copy that was read before the DELETE
\* and stored after it, one of a session that was issued between the two
\* statements of DeleteSessionsByUserID, and a call to Redis that failed or was
\* never reached.
RevokedIsRefused ==
  \A p \in Procs : At(p, "auth", "admitted") /\ op[p].sid \in Watched => op[p].excused

\* Redis may lose what it likes: a session is unknown only once its row is gone.
RefusedOnlyIfRevoked ==
  \A p \in Procs : op[p].pc = "missing" => op[p].sid \notin rows

=============================================================================
