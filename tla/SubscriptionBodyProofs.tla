------------------------ MODULE SubscriptionBodyProofs ------------------------
(***************************************************************************)
(* Proofs about SubscriptionBody, for any number of requests, formats,     *)
(* plans, rotations and edits of the servers: what a request delivers is   *)
(* made for the row it has read, a token or a link from before a rotation  *)
(* that was answered is given nothing, and the link is replaced no oftener *)
(* than the row.                                                           *)
(***************************************************************************)
EXTENDS SubscriptionBody, FiniteSetTheorems, TLAPS

\* A request that has no body yet, and one that has the body for its row.
Asks == [pc : {"user", "servers", "get"}, dead : {FALSE}, format : Formats, row : Users,
         list : 0 .. MaxServers, body : {Miss}]
Answers == [pc : {"fill", "deliver"}, dead : {FALSE}, format : Formats, row : Users,
            list : 0 .. MaxServers, body : Bodies]

\* A body is the one that a key names.
Described(body, k) == body.format = k.format /\ body.secret = k.secret /\ body.plan = k.plan
Holds == {r \in Answers : Described(r.body, Key(r.format, r.row))}

Links == [Idle EXCEPT !.pc = "links"]

\* What a request holds.
Op == {Idle, Links} \cup Asks \cup Holds

\* The cache keeps nothing under a key that does not name it.
Kept == \A k \in Keys : cache[k] # Miss => cache[k] \in Bodies /\ Described(cache[k], k)

\* What was retired is older than what is there; a request that was let in is not dead.
IInv ==
  /\ user \in Users /\ servers \in 0 .. MaxServers /\ suffix \in Nat
  /\ cache \in [Keys -> Bodies \cup {Miss}] /\ Kept
  /\ retired \in [token : Nat, suffix : Nat]
  /\ retired.token <= user.secret /\ retired.suffix <= suffix
  /\ op \in [Procs -> Op]

-----------------------------------------------------------------------------
(* Records.                                                                *)

LEMMA IdleIs ==
  /\ Idle.pc = "idle" /\ Links.pc = "links" /\ ~Idle.dead /\ ~Links.dead
  BY DEF Idle, Links

\* What a request at a place of its handler holds.
LEMMA Known ==
  ASSUME IInv, NEW p \in Procs
  PROVE  /\ op[p] \in Op /\ ~op[p].dead
         /\ op[p].pc \in {"user", "servers", "get"} => op[p] \in Asks
         /\ op[p].pc \in {"fill", "deliver"} => op[p] \in Holds
<1>1. op[p] \in Op
  BY DEF IInv, Op
<1>2. CASE op[p] \in {Idle, Links}
  BY <1>1, <1>2, IdleIs
<1>3. CASE op[p] \in Asks
  BY <1>1, <1>3 DEF Asks
<1>4. CASE op[p] \in Holds
  BY <1>1, <1>4 DEF Holds, Answers
<1> QED BY <1>1, <1>2, <1>3, <1>4 DEF Op

LEMMA KeyIs ==
  ASSUME NEW format \in Formats, NEW row \in Users
  PROVE  Key(format, row) \in Keys
  BY DEF Key, Keys, Users

LEMMA RenderedIs ==
  ASSUME NEW format \in Formats, NEW row \in Users, NEW list \in 0 .. MaxServers
  PROVE  /\ Rendered(format, row, list) \in Bodies
         /\ Described(Rendered(format, row, list), Key(format, row))
  BY DEF Rendered, Bodies, Described, Key, Users

\* A step of one request that changes nothing else but keys of the cache.
LEMMA Becomes ==
  ASSUME IInv, NEW p \in Procs, NEW new \in Op, Become(p, new),
         UNCHANGED <<user, suffix, servers, retired>>,
         cache' \in [Keys -> Bodies \cup {Miss}], Kept'
  PROVE  IInv'
  BY DEF IInv, Become, Op

LEMMA Stays ==
  ASSUME IInv, NEW p \in Procs, NEW new \in Op, Become(p, new),
         UNCHANGED <<user, suffix, servers, cache, retired>>
  PROVE  IInv'
<1>1. Kept' /\ cache' \in [Keys -> Bodies \cup {Miss}]
  BY DEF IInv, Kept
<1> QED BY <1>1, Becomes

-----------------------------------------------------------------------------
(* The steps, one by one.                                                  *)

LEMMA EndStep ==
  ASSUME IInv, NEW p \in Procs, End(p), UNCHANGED <<user, suffix, servers, cache, retired>>
  PROVE  IInv'
  BY Stays DEF End, Op

\* A request that comes in now is not dead: nothing newer was retired.
LEMMA ComesIn ==
  ASSUME IInv, NEW p \in Procs, NEW format \in Formats, NEW pc \in {"user", "servers"}, NEW dead, ~dead,
         dead \in BOOLEAN, Become(p, Request(pc, dead, format, user, 0, Miss)),
         UNCHANGED <<user, suffix, servers, cache, retired>>
  PROVE  IInv'
<1>1. user \in Users /\ 0 \in 0 .. MaxServers
  BY SubscriptionBodyAssumption DEF IInv
<1>2. Request(pc, dead, format, user, 0, Miss) \in Asks
  BY <1>1 DEF Request, Asks
<1> QED BY <1>2, Stays DEF Op

LEMMA ByTokenStep ==
  ASSUME IInv, NEW p \in Procs, NEW format \in Formats, NEW token \in 0 .. user.secret,
         ByToken(p, token, format)
  PROVE  IInv'
<1>1. user.secret \in Nat /\ retired.token \in Nat /\ retired.token <= user.secret
  BY SubscriptionBodyAssumption DEF IInv, Users
<1>2. CASE token = user.secret /\ Become(p, Request("servers", token < retired.token, format, user, 0, Miss))
  <2> DEFINE dead == token < retired.token
  <2>1. ~dead /\ dead \in BOOLEAN
    BY <1>1, <1>2
  <2> HIDE DEF dead
  <2> QED BY <1>2, <2>1, ComesIn DEF ByToken, dead
<1>3. CASE End(p)
  BY <1>3, EndStep DEF ByToken
<1> QED BY <1>2, <1>3 DEF ByToken

LEMMA BySuffixStep ==
  ASSUME IInv, NEW p \in Procs, NEW format \in Formats, NEW shown \in 0 .. suffix,
         BySuffix(p, shown, format)
  PROVE  IInv'
<1>1. suffix \in Nat /\ retired.suffix \in Nat /\ retired.suffix <= suffix
  BY DEF IInv
<1>2. CASE shown = suffix /\ Become(p, Request("user", shown < retired.suffix, format, user, 0, Miss))
  <2> DEFINE dead == shown < retired.suffix
  <2>1. ~dead /\ dead \in BOOLEAN
    BY <1>1, <1>2
  <2> HIDE DEF dead
  <2> QED BY <1>2, <2>1, ComesIn DEF BySuffix, dead
<1>3. CASE End(p)
  BY <1>3, EndStep DEF BySuffix
<1> QED BY <1>2, <1>3 DEF BySuffix

LEMMA ReadUserStep == ASSUME IInv, NEW p \in Procs, ReadUser(p) PROVE IInv'
<1>1. CASE End(p)
  BY <1>1, EndStep DEF ReadUser
<1>2. CASE Become(p, [op[p] EXCEPT !.pc = "servers", !.row = user])
  <2>1. op[p] \in Asks /\ user \in Users
    BY Known DEF ReadUser, IInv
  <2>2. [op[p] EXCEPT !.pc = "servers", !.row = user] \in Asks
    BY <2>1 DEF Asks
  <2> QED BY <1>2, <2>2, Stays DEF ReadUser, Op
<1> QED BY <1>1, <1>2 DEF ReadUser

LEMMA ReadServersStep == ASSUME IInv, NEW p \in Procs, ReadServers(p) PROVE IInv'
<1>1. op[p] \in Asks /\ servers \in 0 .. MaxServers
  BY Known DEF ReadServers, IInv
<1>2. [op[p] EXCEPT !.pc = "get", !.list = servers] \in Asks
  BY <1>1 DEF Asks
<1> QED BY <1>2, Stays DEF ReadServers, Op

LEMMA GetStep == ASSUME IInv, NEW p \in Procs, Get(p) PROVE IInv'
<1> DEFINE key == Key(op[p].format, op[p].row)
<1>1. op[p] \in Asks /\ op[p].format \in Formats /\ op[p].row \in Users /\ op[p].list \in 0 .. MaxServers
  BY Known DEF Get, Asks
<1>2. ASSUME NEW body \in Bodies, Described(body, key), NEW pc \in {"fill", "deliver"},
             Become(p, [op[p] EXCEPT !.pc = pc, !.body = body])
      PROVE  IInv'
  <2> DEFINE new == [op[p] EXCEPT !.pc = pc, !.body = body]
  <2>1. new \in Answers /\ new.format = op[p].format /\ new.row = op[p].row /\ new.body = body
    BY <1>1 DEF Asks, Answers
  <2>2. new \in Holds
    BY <1>2, <2>1 DEF Holds
  <2> QED BY <1>2, <2>2, Stays DEF Get, Op
<1>3. CASE cache[key] # Miss /\ Become(p, [op[p] EXCEPT !.pc = "deliver", !.body = cache[key]])
  <2>1. cache[key] \in Bodies /\ Described(cache[key], key)
    BY <1>1, <1>3, KeyIs DEF IInv, Kept
  <2> HIDE DEF key
  <2> QED BY <1>2, <1>3, <2>1
<1>4. CASE Become(p, [op[p] EXCEPT !.pc = "fill", !.body = Rendered(op[p].format, op[p].row, op[p].list)])
  <2>1. /\ Rendered(op[p].format, op[p].row, op[p].list) \in Bodies
        /\ Described(Rendered(op[p].format, op[p].row, op[p].list), key)
    BY <1>1, RenderedIs
  <2> HIDE DEF key
  <2> QED BY <1>2, <1>4, <2>1
<1> QED BY <1>3, <1>4 DEF Get

LEMMA FillStep == ASSUME IInv, NEW p \in Procs, Fill(p) PROVE IInv'
<1> DEFINE key == Key(op[p].format, op[p].row)
           new == [op[p] EXCEPT !.pc = "deliver"]
<1>1. op[p] \in Answers /\ Described(op[p].body, key)
  BY Known DEF Fill, Holds
<1>2. op[p].body \in Bodies /\ key \in Keys
  BY <1>1, KeyIs DEF Answers
<1>3. new \in Answers /\ new.format = op[p].format /\ new.row = op[p].row /\ new.body = op[p].body
  BY <1>1 DEF Answers
<1>4. new \in Holds
  BY <1>1, <1>3 DEF Holds
<1>5. cache' = [cache EXCEPT ![key] = op[p].body] /\ Become(p, new)
      /\ UNCHANGED <<user, suffix, servers, retired>>
  BY DEF Fill
<1> HIDE DEF key, new
<1>6. cache' \in [Keys -> Bodies \cup {Miss}]
  BY <1>2, <1>5 DEF IInv
<1>7. Kept'
  BY <1>1, <1>2, <1>5 DEF IInv, Kept
<1> QED BY <1>4, <1>5, <1>6, <1>7, Becomes DEF Op

LEMMA RotateRowStep == ASSUME IInv, NEW p \in Procs, RotateRow(p) PROVE IInv'
<1>1. /\ user.secret < MaxSecret /\ user' = [user EXCEPT !.secret = @ + 1]
      /\ op' = [op EXCEPT ![p] = Links] /\ UNCHANGED <<suffix, servers, cache, retired>>
  BY DEF RotateRow, Become, Links
<1>2. user \in Users /\ retired.token \in Nat /\ retired.token <= user.secret
  BY DEF IInv
<1>3. user' \in Users /\ retired.token <= user'.secret
  BY <1>1, <1>2, SubscriptionBodyAssumption DEF Users
<1>4. op' \in [Procs -> Op]
  BY <1>1 DEF IInv, Op
<1>5. Kept'
  BY <1>1 DEF IInv, Kept
<1> QED BY <1>1, <1>3, <1>4, <1>5 DEF IInv

LEMMA RotateLinkStep == ASSUME IInv, NEW p \in Procs, RotateLink(p) PROVE IInv'
<1>1. /\ suffix' = suffix + 1 /\ retired' = [token |-> user.secret, suffix |-> suffix + 1]
      /\ op' = [op EXCEPT ![p] = Idle] /\ UNCHANGED <<user, servers, cache>>
  BY DEF RotateLink, End, Become
<1>2. user.secret \in Nat /\ suffix \in Nat
  BY SubscriptionBodyAssumption DEF IInv, Users
<1>3. /\ suffix' \in Nat /\ retired' \in [token : Nat, suffix : Nat]
      /\ retired'.token <= user'.secret /\ retired'.suffix <= suffix'
  BY <1>1, <1>2
<1>4. op' \in [Procs -> Op]
  BY <1>1 DEF IInv, Op
<1>5. Kept'
  BY <1>1 DEF IInv, Kept
<1> QED BY <1>1, <1>3, <1>4, <1>5 DEF IInv

LEMMA OthersStep ==
  ASSUME IInv, (\E row \in Users : EditUser(row)) \/ EditServers \/ (\E k \in Keys : Expire(k))
               \/ UNCHANGED vars
  PROVE  IInv'
<1>1. ASSUME NEW row \in Users, EditUser(row) PROVE IInv'
  BY <1>1 DEF EditUser, IInv, Kept
<1>2. CASE EditServers
  BY <1>2, SubscriptionBodyAssumption DEF EditServers, IInv, Kept
<1>3. ASSUME NEW k \in Keys, Expire(k) PROVE IInv'
  BY <1>3 DEF Expire, IInv, Kept
<1>4. CASE UNCHANGED vars
  BY <1>4 DEF vars, IInv, Kept
<1> QED BY <1>1, <1>2, <1>3, <1>4

-----------------------------------------------------------------------------
LEMMA InitInv == Init => IInv
<1> SUFFICES ASSUME Init PROVE IInv
  OBVIOUS
<1>1. user \in Users /\ user.secret = 0
  BY DEF Init
<1>2. suffix = 0 /\ servers = 0 /\ retired = [token |-> 0, suffix |-> 0]
      /\ cache = [k \in Keys |-> Miss] /\ op = [p \in Procs |-> Idle]
  BY DEF Init
<1>3. Kept
  BY <1>2 DEF Kept
<1> QED BY <1>1, <1>2, <1>3, SubscriptionBodyAssumption DEF IInv, Op

LEMMA NextInv == IInv /\ [Next]_vars => IInv'
<1> SUFFICES ASSUME IInv, [Next]_vars PROVE IInv'
  OBVIOUS
<1>1. ASSUME NEW p \in Procs, NEW f \in Formats,
             \/ \E token \in 0 .. user.secret : ByToken(p, token, f)
             \/ \E shown \in 0 .. suffix : BySuffix(p, shown, f)
      PROVE  IInv'
  BY <1>1, ByTokenStep, BySuffixStep
<1>2. ASSUME NEW p \in Procs, Step(p) PROVE IInv'
  <2>1. CASE Deliver(p)
    BY <2>1, EndStep DEF Deliver
  <2> QED BY <1>2, <2>1, ReadUserStep, ReadServersStep, GetStep, FillStep, RotateLinkStep DEF Step
<1>3. ASSUME NEW p \in Procs, RotateRow(p) \/ Abort(p) PROVE IInv'
  <2>1. CASE Abort(p)
    BY <2>1, EndStep DEF Abort
  <2> QED BY <1>3, <2>1, RotateRowStep
<1>4. CASE (\E row \in Users : EditUser(row)) \/ EditServers \/ (\E k \in Keys : Expire(k))
           \/ UNCHANGED vars
  BY <1>4, OthersStep
<1> QED BY <1>1, <1>2, <1>3, <1>4 DEF Next

\* The inductive invariant holds in every state of every run.
THEOREM Invariant == Spec => []IInv
  BY InitInv, NextInv, PTL DEF Spec

\* What a request delivers, from the cache or not, is made for the format it asked for
\* and for the credentials and the plan of the row it has read.
THEOREM OwnAccess == Spec => []CarriesOwnAccess
<1>1. IInv => CarriesOwnAccess
  <2> SUFFICES ASSUME IInv, NEW p \in Procs, op[p].pc = "deliver"
               PROVE  /\ op[p].body.format = op[p].format
                      /\ op[p].body.secret = op[p].row.secret
                      /\ op[p].body.plan = op[p].row.plan
    BY DEF CarriesOwnAccess
  <2>1. op[p] \in Holds
    BY Known
  <2> QED BY <2>1 DEF Holds, Described, Key
<1> QED BY <1>1, Invariant, PTL

\* A request with a token or a link that a rotation had replaced before it came in, and
\* that was answered, is not served.
THEOREM DeadIsRefused == Spec => []RotatedIsDead
<1>1. IInv => RotatedIsDead
  BY Known DEF RotatedIsDead
<1> QED BY <1>1, Invariant, PTL

-----------------------------------------------------------------------------
(* Types: the suffix of the link never runs ahead of the row.              *)

\* The requests that have replaced the row and not the link yet.
Rotating == {p \in Procs : op[p].pc = "links"}

\* Each replaced the row once, so links are replaced no oftener than the row was.
Counted == IsFiniteSet(Rotating) /\ suffix + Cardinality(Rotating) <= user.secret

\* What a request that becomes something else does to them.
LEMMA RotatingStep ==
  ASSUME IInv, NEW p \in Procs, NEW new, Become(p, new)
  PROVE  /\ new.pc # "links" => Rotating' = Rotating \ {p}
         /\ new.pc = "links" => Rotating' = Rotating \cup {p}
<1>1. op' = [op EXCEPT ![p] = new] /\ op \in [Procs -> Op]
  BY DEF Become, IInv
<1>2. op'[p] = new /\ \A q \in Procs : q # p => op'[q] = op[q]
  BY <1>1
<1> QED BY <1>2 DEF Rotating

\* A request that does anything but replace the row.
LEMMA NoneMore ==
  ASSUME IInv, Counted, NEW p \in Procs, NEW new, Become(p, new), new.pc # "links",
         UNCHANGED <<user, suffix>>
  PROVE  Counted'
<1>1. Rotating' = Rotating \ {p}
  BY RotatingStep
<1>2. PICK R, S, n : R = Rotating /\ S = Rotating' /\ n = Cardinality(Rotating)
  OBVIOUS
<1>3. IsFiniteSet(S) /\ Cardinality(S) \in {n, n - 1} /\ n \in Nat
  BY <1>1, <1>2, FS_RemoveElement, FS_CardinalityType DEF Counted
<1>4. user.secret \in Nat /\ suffix \in Nat /\ suffix + n <= user.secret
  BY <1>2, SubscriptionBodyAssumption DEF IInv, Users, Counted
<1>5. suffix + Cardinality(S) <= user.secret
  BY <1>3, <1>4
<1> QED BY <1>2, <1>3, <1>5 DEF Counted

LEMMA RequestCounted ==
  ASSUME IInv, Counted, NEW p \in Procs,
         \/ \E f \in Formats : \/ \E token \in 0 .. user.secret : ByToken(p, token, f)
                               \/ \E shown \in 0 .. suffix : BySuffix(p, shown, f)
         \/ ReadUser(p) \/ ReadServers(p) \/ Get(p) \/ Fill(p) \/ Deliver(p) \/ Abort(p)
  PROVE  Counted'
<1>1. UNCHANGED <<user, suffix>>
  BY DEF ByToken, BySuffix, ReadUser, ReadServers, Get, Fill, Deliver, Abort
<1>2. CASE End(p)
  BY <1>1, <1>2, NoneMore, IdleIs DEF End
<1>3. ASSUME NEW f \in Formats, ~End(p),
             \/ \E token \in 0 .. user.secret : ByToken(p, token, f)
             \/ \E shown \in 0 .. suffix : BySuffix(p, shown, f)
      PROVE  Counted'
  <2>1. PICK dead :
           \E pc \in {"servers", "user"} : Become(p, Request(pc, dead, f, user, 0, Miss))
    BY <1>3 DEF ByToken, BySuffix
  <2>2. PICK pc \in {"servers", "user"} : Become(p, Request(pc, dead, f, user, 0, Miss))
    BY <2>1
  <2>3. Request(pc, dead, f, user, 0, Miss).pc # "links"
    BY DEF Request
  <2> QED BY <1>1, <2>2, <2>3, NoneMore
<1>4. CASE ReadUser(p) /\ ~End(p)
  <2>1. op[p] \in Asks /\ Become(p, [op[p] EXCEPT !.pc = "servers", !.row = user])
    BY <1>4, Known DEF ReadUser
  <2>2. [op[p] EXCEPT !.pc = "servers", !.row = user].pc # "links"
    BY <2>1 DEF Asks
  <2> QED BY <1>1, <2>1, <2>2, NoneMore
<1>5. CASE ReadServers(p)
  <2>1. op[p] \in Asks /\ Become(p, [op[p] EXCEPT !.pc = "get", !.list = servers])
    BY <1>5, Known DEF ReadServers
  <2>2. [op[p] EXCEPT !.pc = "get", !.list = servers].pc # "links"
    BY <2>1 DEF Asks
  <2> QED BY <1>1, <2>1, <2>2, NoneMore
<1>6. CASE Get(p)
  <2>1. op[p] \in Asks
    BY <1>6, Known DEF Get
  <2>2. PICK body :
           \E pc \in {"deliver", "fill"} : Become(p, [op[p] EXCEPT !.pc = pc, !.body = body])
    BY <1>6 DEF Get
  <2>3. PICK pc \in {"deliver", "fill"} : Become(p, [op[p] EXCEPT !.pc = pc, !.body = body])
    BY <2>2
  <2>4. [op[p] EXCEPT !.pc = pc, !.body = body].pc # "links"
    BY <2>1 DEF Asks
  <2> QED BY <1>1, <2>3, <2>4, NoneMore
<1>7. CASE Fill(p)
  <2>1. op[p] \in Answers /\ Become(p, [op[p] EXCEPT !.pc = "deliver"])
    BY <1>7, Known DEF Fill, Holds
  <2>2. [op[p] EXCEPT !.pc = "deliver"].pc # "links"
    BY <2>1 DEF Answers
  <2> QED BY <1>1, <2>1, <2>2, NoneMore
<1>8. CASE Deliver(p) \/ Abort(p)
  BY <1>2, <1>8 DEF Deliver, Abort
<1> QED BY <1>2, <1>3, <1>4, <1>5, <1>6, <1>7, <1>8

LEMMA RotationCounted ==
  ASSUME IInv, Counted, NEW p \in Procs, RotateRow(p) \/ RotateLink(p)
  PROVE  Counted'
<1>1. PICK R, S, n : R = Rotating /\ S = Rotating' /\ n = Cardinality(Rotating)
  OBVIOUS
<1>2. IsFiniteSet(R) /\ Cardinality(R) = n /\ n \in Nat /\ suffix + n <= user.secret
  BY <1>1, FS_CardinalityType DEF Counted
<1>3. user.secret \in Nat /\ suffix \in Nat /\ user \in Users
  BY SubscriptionBodyAssumption DEF IInv, Users
<1>4. CASE RotateRow(p)
  <2>1. Become(p, Links) /\ suffix' = suffix /\ user' = [user EXCEPT !.secret = @ + 1]
        /\ op[p].pc = "idle"
    BY <1>4 DEF RotateRow, Links
  <2>2. S = R \cup {p} /\ user'.secret = user.secret + 1
    BY <1>1, <1>3, <2>1, RotatingStep, IdleIs DEF Users
  <2>3. p \notin R
    BY <1>1, <2>1 DEF Rotating
  <2>4. IsFiniteSet(S) /\ Cardinality(S) = n + 1
    BY <1>2, <2>2, <2>3, FS_AddElement
  <2>5. suffix' + Cardinality(S) <= user'.secret
    BY <1>2, <1>3, <2>1, <2>2, <2>4
  <2> QED BY <1>1, <2>4, <2>5 DEF Counted
<1>5. CASE RotateLink(p)
  <2>1. Become(p, Idle) /\ suffix' = suffix + 1 /\ user' = user /\ op[p].pc = "links"
    BY <1>5 DEF RotateLink, End
  <2>2. S = R \ {p} /\ p \in R
    BY <1>1, <2>1, RotatingStep, IdleIs DEF Rotating
  <2>3. IsFiniteSet(S) /\ Cardinality(S) = n - 1
    BY <1>2, <2>2, FS_RemoveElement
  <2>4. suffix' + Cardinality(S) <= user'.secret
    BY <1>2, <1>3, <2>1, <2>3
  <2> QED BY <1>1, <2>3, <2>4 DEF Counted
<1> QED BY <1>4, <1>5

LEMMA NextCounted == IInv /\ Counted /\ [Next]_vars => Counted'
<1> SUFFICES ASSUME IInv, Counted, [Next]_vars PROVE Counted'
  OBVIOUS
<1>1. ASSUME NEW p \in Procs,
             \/ \E f \in Formats : \/ \E token \in 0 .. user.secret : ByToken(p, token, f)
                                   \/ \E shown \in 0 .. suffix : BySuffix(p, shown, f)
             \/ Step(p) \/ RotateRow(p) \/ Abort(p)
      PROVE  Counted'
  BY <1>1, RequestCounted, RotationCounted DEF Step
<1>2. CASE \/ \E row \in Users : EditUser(row)
           \/ EditServers
           \/ \E k \in Keys : Expire(k)
           \/ UNCHANGED vars
  <2>1. op' = op /\ suffix' = suffix /\ user'.secret = user.secret
    BY <1>2 DEF EditUser, EditServers, Expire, vars
  <2>2. Rotating' = Rotating
    BY <2>1 DEF Rotating
  <2> QED BY <2>1, <2>2 DEF Counted
<1> QED BY <1>1, <1>2 DEF Next

\* Rows, keys and requests keep their types; whatever rotations are cut off, the link
\* was never replaced oftener than the row.
THEOREM TypeCorrect == Spec => []TypeOK
<1>1. Init => Counted
  <2> SUFFICES ASSUME Init PROVE Counted
    OBVIOUS
  <2>1. \A p \in Procs : op[p] = Idle
    BY DEF Init
  <2>2. Rotating = {}
    BY <2>1, IdleIs DEF Rotating
  <2>3. IsFiniteSet(Rotating) /\ Cardinality(Rotating) = 0
    BY <2>2, FS_EmptySet
  <2>4. suffix = 0 /\ user.secret = 0
    BY DEF Init
  <2> QED BY <2>3, <2>4 DEF Counted
<1>2. IInv /\ Counted => TypeOK
  <2> SUFFICES ASSUME IInv, Counted PROVE TypeOK
    OBVIOUS
  <2>1. PICK n : n = Cardinality(Rotating)
    OBVIOUS
  <2>2. n \in Nat /\ suffix + n <= user.secret
    BY <2>1, FS_CardinalityType DEF Counted
  <2>3. user.secret \in 0 .. MaxSecret /\ suffix \in Nat /\ MaxSecret \in Nat
    BY SubscriptionBodyAssumption DEF IInv, Users
  <2>4. suffix \in 0 .. MaxSecret
    BY <2>2, <2>3
  <2>5. retired \in [token : 0 .. MaxSecret, suffix : 0 .. MaxSecret]
    <3>1. /\ retired \in [token : Nat, suffix : Nat]
          /\ retired.token <= user.secret /\ retired.suffix <= suffix
      BY DEF IInv
    <3>2. retired.token \in 0 .. MaxSecret /\ retired.suffix \in 0 .. MaxSecret
      BY <2>3, <2>4, <3>1
    <3> QED BY <3>1, <3>2
  <2>6. ASSUME NEW p \in Procs
        PROVE  \/ op[p] = Idle \/ op[p] = [Idle EXCEPT !.pc = "links"]
               \/ op[p] \in [pc : {"user", "servers", "get"}, dead : BOOLEAN, format : Formats,
                             row : Users, list : 0 .. MaxServers, body : {Miss}]
               \/ op[p] \in [pc : {"fill", "deliver"}, dead : BOOLEAN, format : Formats,
                             row : Users, list : 0 .. MaxServers, body : Bodies]
    <3>1. op[p] \in {Idle, Links} \cup Asks \cup Answers
      BY Known DEF Op, Holds
    <3> QED BY <3>1 DEF Links, Asks, Answers
  <2> QED BY <2>4, <2>5, <2>6 DEF IInv, TypeOK
<1> QED BY InitInv, NextInv, NextCounted, <1>1, <1>2, PTL DEF Spec
==============================================================================
