----------------------------- MODULE QuickLogin -----------------------------
(***************************************************************************)
(* Quick-login codes: the table quick_logins and the requests that fill it *)
(* (userGetQuickLoginURL) and empty it (passportToken2Login), with         *)
(* src/internal/service/auth.go in between.                                *)
(*                                                                         *)
(* A signed-in user asks for a link; whoever opens it within five minutes  *)
(* is signed in as that user, once.  The code is consumed by a transaction *)
(* that deletes its row; its expiry, and whether the user is still there,  *)
(* are looked at afterwards, in the request that got the row.              *)
(*                                                                         *)
(* Abstractions: one user; the codes (16 random bytes) are numbers in the  *)
(* order in which they are drawn; the clock counts the whole seconds that  *)
(* the code compares.  A ban is not modelled because nothing here reads    *)
(* it: neither deletes a ban the codes, nor does passportToken2Login       *)
(* refuse a banned user (what the session is then good for is in           *)
(* Sessions).  The copy of a code in Redis is written and deleted, and     *)
(* never read.                                                             *)
(***************************************************************************)
EXTENDS Integers

CONSTANTS
  Procs,   \* requests that may be in flight together
  TTL,     \* seconds a code is good for
  MaxCode, \* bound: codes drawn
  MaxTime  \* bound: the clock

ASSUME QuickLoginAssumption == TTL \in Nat /\ MaxCode \in Nat /\ MaxTime \in Nat

Codes == 1 .. MaxCode

VARIABLES
  user,   \* the row of the user: "here" or "gone"
  rows,   \* the table quick_logins
  clock,  \* time.Now().Unix()
  drawn,  \* how many codes were drawn
  op,     \* what each request is doing
  logins, \* history: logins each code has led to
  saved,  \* history: every row there ever was
  cut     \* history: codes whose request was cut off after consuming them

vars == <<user, rows, clock, drawn, op, logins, saved, cut>>

Row == [code : Codes, exp : Nat]
Request(pc, code, exp, began) == [pc |-> pc, code |-> code, exp |-> exp, began |-> began]
Idle == Request("idle", 0, 0, 0)

Become(p, o) == op' = [op EXCEPT ![p] = o]
Goto(p, pc) == Become(p, [op[p] EXCEPT !.pc = pc])
End(p) == Become(p, Idle)

\* A request that has consumed the row of a code and not answered yet.
Holds(p) == op[p].pc \in {"check", "lookup", "issue"}

-----------------------------------------------------------------------------
(* userGetQuickLoginURL: CreateQuickLogin, SaveQuickLogin.                 *)

Create(p) ==
  /\ op[p].pc = "idle" /\ user = "here"
  /\ drawn < MaxCode
  /\ drawn' = drawn + 1
  /\ Become(p, Request("save", drawn + 1, clock + TTL, 0))
  /\ UNCHANGED <<user, rows, clock, logins, saved, cut>>

\* The row is inserted even if the user was deleted since.
Save(p) ==
  /\ op[p].pc = "save"
  /\ LET row == [code |-> op[p].code, exp |-> op[p].exp]
     IN rows' = rows \cup {row} /\ saved' = saved \cup {row}
  /\ End(p)
  /\ UNCHANGED <<user, clock, drawn, logins, cut>>

-----------------------------------------------------------------------------
(* passportToken2Login: ConsumeQuickLogin, then Issue.                     *)

Show(p, c) ==
  /\ op[p].pc = "idle"
  /\ Become(p, Request("consume", c, 0, clock))
  /\ UNCHANGED <<user, rows, clock, drawn, logins, saved, cut>>

\* Mutant: the transaction is not committed.
ConsumeRolledBack(p) ==
  /\ op[p].pc = "consume"
  /\ \E row \in rows :
       /\ row.code = op[p].code
       /\ Become(p, [op[p] EXCEPT !.pc = "check", !.exp = row.exp])
  /\ UNCHANGED <<user, rows, clock, drawn, logins, saved, cut>>
\* SELECT and DELETE in one transaction.
Consume(p) ==
  /\ op[p].pc = "consume"
  /\ \E row \in rows :
       /\ row.code = op[p].code
       /\ rows' = rows \ {row}
       /\ Become(p, [op[p] EXCEPT !.pc = "check", !.exp = row.exp])
  /\ UNCHANGED <<user, clock, drawn, logins, saved, cut>>

NotFound(p) ==
  /\ op[p].pc = "consume"
  /\ \A row \in rows : row.code # op[p].code
  /\ End(p)
  /\ UNCHANGED <<user, rows, clock, drawn, logins, saved, cut>>

\* Mutants: a second too short, and a second too long.
ExpiredEarly(p) == op[p].exp <= clock
ExpiredLate(p) == op[p].exp + 1 < clock
Expired(p) == op[p].exp < clock

CheckExpiry(p) ==
  /\ op[p].pc = "check"
  /\ IF Expired(p) THEN End(p) ELSE Goto(p, "lookup")
  /\ UNCHANGED <<user, rows, clock, drawn, logins, saved, cut>>

Lookup(p) ==
  /\ op[p].pc = "lookup"
  /\ IF user = "gone" THEN End(p) ELSE Goto(p, "issue")
  /\ UNCHANGED <<user, rows, clock, drawn, logins, saved, cut>>

Issue(p) ==
  /\ op[p].pc = "issue"
  /\ logins' = [logins EXCEPT ![op[p].code] = @ + 1]
  /\ End(p)
  /\ UNCHANGED <<user, rows, clock, drawn, saved, cut>>

-----------------------------------------------------------------------------
(* What else happens.                                                      *)

\* A request is cancelled, or a statement fails: what it consumed is lost.
Abort(p) ==
  /\ op[p].pc # "idle"
  /\ cut' = IF Holds(p) THEN cut \cup {op[p].code} ELSE cut
  /\ End(p)
  /\ UNCHANGED <<user, rows, clock, drawn, logins, saved>>

\* DeleteUser.
Destroy ==
  /\ user = "here"
  /\ user' = "gone"
  /\ rows' = {}
  /\ UNCHANGED <<clock, drawn, op, logins, saved, cut>>

Tick ==
  /\ clock < MaxTime
  /\ clock' = clock + 1
  /\ UNCHANGED <<user, rows, drawn, op, logins, saved, cut>>

-----------------------------------------------------------------------------
Init ==
  /\ user = "here"
  /\ rows = {} /\ saved = {} /\ cut = {}
  /\ clock = 0 /\ drawn = 0
  /\ op = [p \in Procs |-> Idle]
  /\ logins = [c \in Codes |-> 0]

Next ==
  \/ \E p \in Procs :
       \/ Create(p) \/ Save(p)
       \/ \E row \in saved : Show(p, row.code)
       \/ Consume(p) \/ NotFound(p) \/ CheckExpiry(p) \/ Lookup(p) \/ Issue(p)
       \/ Abort(p)
  \/ Destroy
  \/ Tick

Spec == Init /\ [][Next]_vars

-----------------------------------------------------------------------------
(* Properties.                                                             *)

TypeOK ==
  /\ user \in {"here", "gone"}
  /\ rows \subseteq saved /\ saved \subseteq Row /\ cut \subseteq Codes
  /\ clock \in Nat /\ drawn \in 0 .. MaxCode
  /\ op \in [Procs -> [pc : {"idle", "save", "consume", "check", "lookup", "issue"},
                       code : 0 .. MaxCode, exp : Nat, began : Nat]]
  /\ logins \in [Codes -> Nat]

CodesOf(R) == {row.code : row \in R}
Holders == {p \in Procs : Holds(p)}

Abstract == INSTANCE OneTimeCodes
  WITH created <- CodesOf(saved), live <- CodesOf(rows), claimed <- {op[p].code : p \in Holders}

\* Codes are what OneTimeCodes says: requests that race for one, cancelled ones,
\* failing statements and the deletion of its user never make it open twice.
OneTime == Abstract!Spec

\* Nobody who opens the link after its time is signed in, however the requests
\* before had delayed the answer.
NoLateLogin == \A p \in Procs : op[p].pc = "issue" => op[p].began <= op[p].exp

\* A link is not wasted: until its time is over it can be opened, is being opened
\* or has been, unless the user is gone or a request was cut off after consuming
\* it -- the row is deleted before the code is looked at.
NotWasted ==
  \A row \in saved :
    \/ row \in rows \/ logins[row.code] > 0
    \/ \E p \in Holders : op[p].code = row.code
    \/ row.exp < clock \/ row.code \in cut \/ user = "gone"
=============================================================================
