--------------------------- MODULE SubscriptionBody ---------------------------
(***************************************************************************)
(* What a subscription request is answered with: clientSubscribe (by the   *)
(* user's token), publicSubscribeBySuffix (by a link) and                  *)
(* writeSubscription, with its cache of rendered bodies, while the user's  *)
(* access is rotated and the servers are edited                            *)
(* (src/internal/httpapi/server.go).                                       *)
(*                                                                         *)
(* A body is rendered from the user's row and the list of servers, and     *)
(* kept in Redis for a minute under a key that names the format, the uuid  *)
(* and the plan.  Nothing deletes such a key.                              *)
(*                                                                         *)
(* Abstractions: one user (a uuid is never another user's, so the user's   *)
(* id in the key adds nothing) with one link, whose rows are followed in   *)
(* detail by UserRows and SubscriptionLinks; uuid and token are replaced   *)
(* together and are one number, secret; the table of servers is a number   *)
(* that counts its edits; a body is named by what it was rendered from.    *)
(* Expiry of the account refuses like a ban.  An empty body, which is      *)
(* always rendered again, is left out.  A call to Redis that fails, whose  *)
(* error is dropped, is a key that went away just before it is read, or    *)
(* just after it was set: Expire may happen at any time.                   *)
(***************************************************************************)
EXTENDS Integers

CONSTANTS
  Procs,      \* requests that may be in flight together
  Formats,    \* subscription formats
  Plans,      \* plan ids a user may have
  Miss,       \* what a key holds when it holds nothing
  MaxSecret,  \* bound: rotations
  MaxServers  \* bound: edits of the servers

Bodies == [format : Formats, secret : 0 .. MaxSecret, plan : Plans, servers : 0 .. MaxServers]

ASSUME SubscriptionBodyAssumption ==
  /\ MaxSecret \in Nat /\ MaxServers \in Nat
  /\ Miss \notin Bodies

VARIABLES
  user,    \* the user's row
  suffix,  \* the suffix of the user's link
  servers, \* the table of servers
  cache,   \* the bodies in Redis, by key
  op,      \* what each request is doing
  retired  \* history: tokens and suffixes below these were replaced before a rotation was answered

vars == <<user, suffix, servers, cache, op, retired>>

Users == [secret : 0 .. MaxSecret, plan : Plans, banned : BOOLEAN]
Keys == [format : Formats, secret : 0 .. MaxSecret, plan : Plans]

\* A request that found its user holds the row, then the servers, then a body.
Idle == [pc |-> "idle", dead |-> FALSE]
Request(pc, dead, format, row, list, body) ==
  [pc |-> pc, dead |-> dead, format |-> format, row |-> row, list |-> list, body |-> body]

Become(p, o) == op' = [op EXCEPT ![p] = o]
End(p) == Become(p, Idle)

\* Mutant: a key that names less.
KeyNoSecret(format, row) == [format |-> format, secret |-> 0, plan |-> row.plan]
Key(format, row) == [format |-> format, secret |-> row.secret, plan |-> row.plan]

Rendered(format, row, list) ==
  [format |-> format, secret |-> row.secret, plan |-> row.plan, servers |-> list]

-----------------------------------------------------------------------------
(* clientSubscribe and publicSubscribeBySuffix.                            *)

\* A request that comes in with a token, or a suffix, that is or was the user's.
\* History: dead if a rotation that was answered had replaced it.
ByToken(p, token, format) ==
  /\ op[p].pc = "idle"
  /\ IF token = user.secret /\ ~user.banned
     THEN Become(p, Request("servers", token < retired.token, format, user, 0, Miss))
     ELSE End(p)
  /\ UNCHANGED <<user, suffix, servers, cache, retired>>

BySuffix(p, shown, format) ==
  /\ op[p].pc = "idle"
  /\ IF shown = suffix
     THEN Become(p, Request("user", shown < retired.suffix, format, user, 0, Miss))
     ELSE End(p)
  /\ UNCHANGED <<user, suffix, servers, cache, retired>>

\* UserByID of the link's user: the row as it is by now.
ReadUser(p) ==
  /\ op[p].pc = "user"
  /\ IF user.banned THEN End(p) ELSE Become(p, [op[p] EXCEPT !.pc = "servers", !.row = user])
  /\ UNCHANGED <<user, suffix, servers, cache, retired>>

ReadServers(p) ==
  /\ op[p].pc = "servers"
  /\ Become(p, [op[p] EXCEPT !.pc = "get", !.list = servers])
  /\ UNCHANGED <<user, suffix, servers, cache, retired>>

\* Mutant: no body is a body too.
GetAnything(p) ==
  /\ op[p].pc = "get"
  /\ Become(p, [op[p] EXCEPT !.pc = "deliver", !.body = cache[Key(op[p].format, op[p].row)]])
  /\ UNCHANGED <<user, suffix, servers, cache, retired>>
\* writeSubscription.
Get(p) ==
  /\ op[p].pc = "get"
  /\ LET cached == cache[Key(op[p].format, op[p].row)]
     IN \/ /\ cached # Miss
           /\ Become(p, [op[p] EXCEPT !.pc = "deliver", !.body = cached])
        \/ /\ cached = Miss
           /\ Become(p, [op[p] EXCEPT !.pc = "fill",
                                      !.body = Rendered(op[p].format, op[p].row, op[p].list)])
  /\ UNCHANGED <<user, suffix, servers, cache, retired>>

Fill(p) ==
  /\ op[p].pc = "fill"
  /\ cache' = [cache EXCEPT ![Key(op[p].format, op[p].row)] = op[p].body]
  /\ Become(p, [op[p] EXCEPT !.pc = "deliver"])
  /\ UNCHANGED <<user, suffix, servers, retired>>

Deliver(p) ==
  /\ op[p].pc = "deliver"
  /\ End(p)
  /\ UNCHANGED <<user, suffix, servers, cache, retired>>

-----------------------------------------------------------------------------
(* userResetSecurity and adminUserResetSecret: the row, then the link.     *)

RotateRow(p) ==
  /\ op[p].pc = "idle"
  /\ user.secret < MaxSecret
  /\ user' = [user EXCEPT !.secret = @ + 1]
  /\ Become(p, [Idle EXCEPT !.pc = "links"])
  /\ UNCHANGED <<suffix, servers, cache, retired>>

\* Mutant: the link is left as it is.
RotateLinkNot(p) ==
  /\ op[p].pc = "links"
  /\ retired' = [token |-> user.secret, suffix |-> suffix + 1]
  /\ End(p)
  /\ UNCHANGED <<user, suffix, servers, cache>>
RotateLink(p) ==
  /\ op[p].pc = "links"
  /\ suffix' = suffix + 1
  /\ retired' = [token |-> user.secret, suffix |-> suffix + 1]
  /\ End(p)
  /\ UNCHANGED <<user, servers, cache>>

-----------------------------------------------------------------------------
(* What else happens.                                                      *)

\* adminUserBan and adminUserUpdate.
EditUser(row) ==
  /\ row.secret = user.secret
  /\ user' = row
  /\ UNCHANGED <<suffix, servers, cache, op, retired>>

\* adminServerSave, adminServerUpdate, adminServerDrop, a node's heartbeat, ...
EditServers ==
  /\ servers < MaxServers
  /\ servers' = servers + 1
  /\ UNCHANGED <<user, suffix, cache, op, retired>>

\* The client goes away, or a statement fails: a rotation that is cut off between
\* its two statements leaves the link as it is.
Abort(p) ==
  /\ op[p].pc # "idle"
  /\ End(p)
  /\ UNCHANGED <<user, suffix, servers, cache, retired>>

\* A minute is over, or Redis is flushed.
Expire(k) ==
  /\ cache[k] # Miss
  /\ cache' = [cache EXCEPT ![k] = Miss]
  /\ UNCHANGED <<user, suffix, servers, op, retired>>

-----------------------------------------------------------------------------
Init ==
  /\ user \in {row \in Users : row.secret = 0 /\ ~row.banned}
  /\ suffix = 0 /\ servers = 0 /\ retired = [token |-> 0, suffix |-> 0]
  /\ cache = [k \in Keys |-> Miss]
  /\ op = [p \in Procs |-> Idle]

Step(p) ==
  ReadUser(p) \/ ReadServers(p) \/ Get(p) \/ Fill(p) \/ Deliver(p) \/ RotateLink(p)

Next ==
  \/ \E p \in Procs :
       \/ \E f \in Formats :
            \/ \E token \in 0 .. user.secret : ByToken(p, token, f)
            \/ \E shown \in 0 .. suffix : BySuffix(p, shown, f)
       \/ Step(p)
       \/ RotateRow(p)
       \/ Abort(p)
  \/ \E row \in Users : EditUser(row)
  \/ EditServers
  \/ \E k \in Keys : Expire(k)

Spec == Init /\ [][Next]_vars

-----------------------------------------------------------------------------
(* Properties.                                                             *)

TypeOK ==
  /\ user \in Users
  /\ suffix \in 0 .. MaxSecret /\ servers \in 0 .. MaxServers
  /\ cache \in [Keys -> Bodies \cup {Miss}]
  /\ retired \in [token : 0 .. MaxSecret, suffix : 0 .. MaxSecret]
  /\ \A p \in Procs :
       \/ op[p] = Idle \/ op[p] = [Idle EXCEPT !.pc = "links"]
       \/ op[p] \in [pc : {"user", "servers", "get"}, dead : BOOLEAN, format : Formats,
                     row : Users, list : 0 .. MaxServers, body : {Miss}]
       \/ op[p] \in [pc : {"fill", "deliver"}, dead : BOOLEAN, format : Formats,
                     row : Users, list : 0 .. MaxServers, body : Bodies]

\* What a request delivers, from the cache or not, is made for the row it has
\* read: never the credentials from before a rotation that it came after, nor
\* the servers of a plan that the user had before.
CarriesOwnAccess ==
  \A p \in Procs : op[p].pc = "deliver" =>
    /\ op[p].body.format = op[p].format
    /\ op[p].body.secret = op[p].row.secret
    /\ op[p].body.plan = op[p].row.plan

\* Who still uses a token or a link from before a rotation is given nothing once
\* the rotation was answered.  Before that, the old link hands out the new
\* credentials, because the row is written first.
RotatedIsDead == \A p \in Procs : ~op[p].dead

=============================================================================
