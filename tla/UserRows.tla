------------------------------ MODULE UserRows ------------------------------
(***************************************************************************)
(* One row of the table users and everything that writes it:               *)
(* Store.UpdateUser, Store.UpdateUserPassword, Store.AddTrafficByUserID    *)
(* and Store.DeleteUser (src/internal/store), called by the account        *)
(* handlers and by the traffic push of the nodes (src/internal/httpapi).   *)
(*                                                                         *)
(* Most handlers read the whole row, change a field of the copy, and write *)
(* nearly the whole copy back: whatever was written in between is undone.  *)
(* The password hash is not part of that write, and traffic is added by    *)
(* the database, so the three kinds of write meet in this module.          *)
(*                                                                         *)
(* Abstractions: u and d are one counter, used; uuid and token, always     *)
(* replaced together, are one number, secret; a password is a number; the  *)
(* other columns are written like secret and told apart by no property.    *)
(* Rows of different users never meet in one statement, so there is one.   *)
(* Who holds a session is left to the caller of a handler.                 *)
(***************************************************************************)
EXTENDS Integers

CONSTANTS
  Procs,      \* handlers that may be in flight together
  Handlers,   \* the kinds of them, all or some
  Amounts,    \* traffic an item of a push may report
  MaxVersion  \* bound: how often the row is written

ASSUME BoundsAssumption == Amounts \subseteq Nat /\ MaxVersion \in Nat

VARIABLES
  exists,     \* is the row there
  row,        \* its columns
  op,         \* what each handler is doing, and the copy of the row it holds
  version,    \* history: how often the row was written
  pushed,     \* history: traffic the database was told to add
  wish,       \* history: what the last handlers that meant to set a column set
  overwritten \* history: some handler wrote back a copy that was out of date

vars == <<exists, row, op, version, pushed, wish, overwritten>>

Fresh == [banned |-> FALSE, secret |-> 0, used |-> 0, pass |-> 0]
Idle == [kind |-> "idle", copy |-> Fresh, seen |-> 0]

\* Handlers of the user, behind a login or ParseUser, and handlers of an admin.
UserKinds == {"login", "profile", "rotate", "password"}
EditKinds == {"edit", "setBan", "clearBan"}
Kinds == UserKinds \cup EditKinds \cup {"adminRotate", "toggle"}

ASSUME HandlersAssumption == Handlers \subseteq Kinds

-----------------------------------------------------------------------------
(* Handlers that read the row, and write it.                               *)

\* UserByEmail in passportLogin, ParseUser in userMiddleware, UserByID in the
\* admin handlers.  A banned user gets no further.
Read(p, kind) ==
  /\ op[p].kind = "idle"
  /\ exists
  /\ kind \in UserKinds => ~row.banned
  /\ op' = [op EXCEPT ![p] = [kind |-> kind, copy |-> row, seen |-> version]]
  /\ UNCHANGED <<exists, row, version, pushed, wish, overwritten>>

Rotates(p) == op[p].kind \in {"rotate", "adminRotate"}
Rules(p) == op[p].kind \in {"toggle", "setBan", "clearBan"}

\* What the handler makes of its copy: passportLogin and userUpdate set columns
\* of no interest; userResetSecurity and adminUserResetSecret replace the
\* secrets; adminUserBan toggles; adminUserUpdate sets banned, or keeps it.
Changed(p) ==
  [op[p].copy EXCEPT
     !.secret = IF Rotates(p) THEN wish.secret + 1 ELSE @,
     !.banned = CASE op[p].kind = "toggle" -> ~@
                  [] op[p].kind = "setBan" -> TRUE
                  [] op[p].kind = "clearBan" -> FALSE
                  [] OTHER -> @]

\* The columns UpdateUser sets; password_hash is none of them.
\* Mutants: password_hash is one more; the secrets are forgotten.
WrittenAll(new) == new
WrittenNoSecret(new) == [row EXCEPT !.banned = new.banned, !.used = new.used]
Written(new) ==
  [row EXCEPT !.banned = new.banned, !.secret = new.secret, !.used = new.used]

\* UpdateUser, WHERE id = ?: no row, no effect, no error.  adminUserUpdate may
\* have a password to set next.
Write(p) ==
  /\ op[p].kind \in Kinds \ {"password"}
  /\ \/ op' = [op EXCEPT ![p] = Idle]
     \/ /\ op[p].kind \in EditKinds
        /\ op' = [op EXCEPT ![p].kind = "password"]
  /\ IF exists
     THEN /\ version < MaxVersion
          /\ version' = version + 1
          /\ row' = Written(Changed(p))
          /\ overwritten' = (overwritten \/ op[p].seen # version)
          /\ wish' = [wish EXCEPT
                        !.secret = IF Rotates(p) THEN @ + 1 ELSE @,
                        !.banned = IF Rules(p) THEN Changed(p).banned ELSE @]
     ELSE UNCHANGED <<row, version, overwritten, wish>>
  /\ UNCHANGED <<exists, pushed>>

\* UpdateUserPassword, from userChangePassword and adminUserUpdate.
WritePassword(p) ==
  /\ op[p].kind = "password"
  /\ op' = [op EXCEPT ![p] = Idle]
  /\ IF exists
     THEN /\ version < MaxVersion
          /\ version' = version + 1
          /\ row' = [row EXCEPT !.pass = wish.pass + 1]
          /\ wish' = [wish EXCEPT !.pass = @ + 1]
     ELSE UNCHANGED <<row, version, wish>>
  /\ UNCHANGED <<exists, pushed, overwritten>>

-----------------------------------------------------------------------------
(* The nodes' traffic push.                                                *)

\* An item names the user by uuid: the row is looked up among all users.  An
\* item with a uuid that was replaced is dropped.
PushLookup(p) ==
  /\ op[p].kind = "idle"
  /\ exists
  /\ op' = [op EXCEPT ![p].kind = "push"]
  /\ UNCHANGED <<exists, row, version, pushed, wish, overwritten>>

\* AddTrafficByUserID: u = u + ?, in the database.  Mutant: upload and
\* download are both added to both.
AddedTwice(n) == row.used + 2 * n
Added(n) == row.used + n

AddTraffic(n) ==
  /\ exists
  /\ version < MaxVersion
  /\ version' = version + 1
  /\ row' = [row EXCEPT !.used = Added(n)]
  /\ pushed' = pushed + n
  /\ UNCHANGED <<exists, wish, overwritten>>

\* An item that names the user by id, ...
PushById(n) == AddTraffic(n) /\ UNCHANGED op

\* ... and one whose uuid was found.
PushFound(p, n) ==
  /\ op[p].kind = "push"
  /\ AddTraffic(n)
  /\ op' = [op EXCEPT ![p] = Idle]

-----------------------------------------------------------------------------
\* adminUserDestroy.
Delete ==
  /\ exists
  /\ exists' = FALSE
  /\ UNCHANGED <<row, op, version, pushed, wish, overwritten>>

\* The handler ends here: the password it checks is wrong, the email it sets is
\* taken, the request is cancelled, the program dies.
Abort(p) ==
  /\ op[p] # Idle
  /\ op' = [op EXCEPT ![p] = Idle]
  /\ UNCHANGED <<exists, row, version, pushed, wish, overwritten>>

Init ==
  /\ exists = TRUE
  /\ row = Fresh
  /\ op = [p \in Procs |-> Idle]
  /\ version = 0 /\ pushed = 0
  /\ wish = [banned |-> FALSE, secret |-> 0, pass |-> 0]
  /\ overwritten = FALSE

Next ==
  \/ \E p \in Procs :
       \/ \E kind \in Handlers : Read(p, kind)
       \/ Write(p)
       \/ WritePassword(p)
       \/ PushLookup(p)
       \/ \E n \in Amounts : PushFound(p, n)
       \/ Abort(p)
  \/ \E n \in Amounts : PushById(n)
  \/ Delete

Spec == Init /\ [][Next]_vars

-----------------------------------------------------------------------------
(* Properties.                                                             *)

\* The type invariant: no secret is in use that was not generated, and usage
\* never turns negative.
Columns == [banned : BOOLEAN, secret : 0 .. wish.secret, used : Nat, pass : 0 .. wish.pass]
TypeOK ==
  /\ exists \in BOOLEAN /\ overwritten \in BOOLEAN
  /\ version \in 0 .. MaxVersion /\ pushed \in Nat
  /\ wish \in [banned : BOOLEAN, secret : 0 .. version, pass : 0 .. version]
  /\ row \in Columns
  /\ op \in [Procs -> [kind : Kinds \cup {"idle", "push"}, copy : Columns, seen : 0 .. version]]

\* Nobody is charged for traffic that no node reported, whatever copies are
\* written back while pushes come in.
NeverOvercharged == row.used <= pushed

\* A password that was changed stays changed: a handler that read the row
\* before and writes it after does not bring the old one back.
PasswordSticks == row.pass = wish.pass

\* The lost update is the only way to lose anything: while every full-row write
\* was of an up-to-date copy, the row is what the admins decided on the ban,
\* what the last rotation generated, and what the nodes reported.
LostOnlyByOverlap ==
  ~overwritten =>
    row.banned = wish.banned /\ row.secret = wish.secret /\ row.used = pushed

\* Traffic that was pushed is on the account: AddTrafficByUserID adds it, and UpdateUser
\* writes the columns back from the copy of any handler.
TrafficAddsUp == row.used = pushed
=============================================================================
