---------------------------- MODULE UserRowsProofs ----------------------------
(***************************************************************************)
(* Proofs about UserRows: for any number of handlers, of pushes and of     *)
(* writes, passwords stick, nobody is overcharged, and what is lost is     *)
(* lost to a stale full-row write.  Then, in the second half, proofs about *)
(* NodeUsers, where that traffic comes from and is told to the nodes, for  *)
(* any number of requests, nodes and edits.                                *)
(***************************************************************************)
EXTENDS UserRows, NodeUsers, TLAPS

\* Copies lag behind: a copy was never charged more than the row is now due, and
\* one taken of the version at hand is the row.
Copies ==
  \A p \in Procs :
    /\ op[p].copy.used <= pushed
    /\ op[p].kind \in Kinds /\ op[p].seen = version => op[p].copy = row

Inv == TypeOK /\ Copies /\ NeverOvercharged /\ PasswordSticks /\ LostOnlyByOverlap

-----------------------------------------------------------------------------
\* The invariant holds at the start.
LEMMA InitInv == Init => Inv
<1> SUFFICES ASSUME Init PROVE Inv
  OBVIOUS
<1>1. /\ Idle.kind = "idle" /\ Idle.kind \notin Kinds /\ Idle.copy = Fresh
      /\ Fresh \in Columns /\ Fresh.used = 0
      /\ Idle \in [kind : Kinds \cup {"idle", "push"}, copy : Columns, seen : 0 .. version]
  BY DEF Init, Columns, Idle, Fresh, Kinds, UserKinds, EditKinds
<1>2. wish \in [banned : BOOLEAN, secret : 0 .. version, pass : 0 .. version]
  <2>1. wish = [banned |-> FALSE, secret |-> 0, pass |-> 0] /\ 0 \in 0 .. version
    BY DEF Init
  <2> QED
    BY <2>1
<1>3. TypeOK
  <2>1. exists \in BOOLEAN /\ overwritten \in BOOLEAN
    BY DEF Init
  <2>2. version \in 0 .. MaxVersion /\ pushed \in Nat
    BY BoundsAssumption DEF Init
  <2>3. /\ row \in Columns
        /\ op \in [Procs -> [kind : Kinds \cup {"idle", "push"}, copy : Columns,
                             seen : 0 .. version]]
    <3>1. row = Fresh /\ op = [p \in Procs |-> Idle]
      BY DEF Init
    <3> QED
      BY <1>1, <3>1
  <2> QED
    BY <1>2, <2>1, <2>2, <2>3 DEF TypeOK
<1>4. Copies
  <2>1. ASSUME NEW p \in Procs
        PROVE  op[p].copy.used <= pushed /\ op[p].kind \notin Kinds
    <3>1. op[p] = Idle /\ pushed = 0
      BY DEF Init
    <3>2. op[p].copy.used = 0
      BY <1>1, <3>1
    <3> QED
      BY <1>1, <3>1, <3>2
  <2> QED
    BY <2>1 DEF Copies
<1>5. NeverOvercharged /\ PasswordSticks /\ LostOnlyByOverlap
  BY DEF Init, Fresh, NeverOvercharged, PasswordSticks, LostOnlyByOverlap
<1> QED
  BY <1>3, <1>4, <1>5 DEF Inv

\* The kinds that full-row writes have, one by one.
LEMMA KindsAre ==
  /\ Kinds = {"login", "profile", "rotate", "password", "edit", "setBan", "clearBan",
              "adminRotate", "toggle"}
  /\ EditKinds = {"edit", "setBan", "clearBan"}
  BY DEF Kinds, UserKinds, EditKinds

\* A handler's operation is a record of its three fields.
LEMMA OpFields ==
  ASSUME Inv, NEW p \in Procs
  PROVE  /\ op[p] = [kind |-> op[p].kind, copy |-> op[p].copy, seen |-> op[p].seen]
         /\ op[p].kind \in Kinds \cup {"idle", "push"}
         /\ op[p].copy \in Columns
         /\ op[p].seen \in 0 .. version
  BY DEF Inv, TypeOK

\* Columns only grow with the history.
LEMMA ColumnsGrow ==
  ASSUME Inv, wish' \in [banned : BOOLEAN, secret : Nat, pass : Nat],
         wish'.secret >= wish.secret, wish'.pass >= wish.pass
  PROVE  Columns \subseteq Columns'
  BY DEF Inv, TypeOK, Columns

\* A handler that begins, ends or moves on touches nothing but its own op.
LEMMA OpOnly ==
  ASSUME Inv, NEW p \in Procs, NEW o,
         op' = [op EXCEPT ![p] = o],
         o \in [kind : Kinds \cup {"idle", "push"}, copy : Columns, seen : 0 .. version],
         o.copy.used <= pushed,
         o.kind \in Kinds /\ o.seen = version => o.copy = row,
         exists' \in BOOLEAN, UNCHANGED <<row, version, pushed, wish, overwritten>>
  PROVE  Inv'
<1>1. TypeOK'
  BY DEF Inv, TypeOK, Columns
<1>2. Copies'
  BY DEF Inv, TypeOK, Copies
<1> QED
  BY <1>1, <1>2 DEF Inv, NeverOvercharged, PasswordSticks, LostOnlyByOverlap

\* An idle operation is well typed.
LEMMA IdleFits ==
  ASSUME Inv
  PROVE  /\ Idle \in [kind : Kinds \cup {"idle", "push"}, copy : Columns, seen : 0 .. version]
         /\ Idle.copy.used <= pushed /\ Idle.kind \notin Kinds /\ Idle.kind = "idle"
         /\ Fresh \in Columns
  BY KindsAre DEF Inv, TypeOK, Columns, Idle, Fresh

\* A handler that reads the row holds a copy that is up to date.
LEMMA ReadStep == ASSUME Inv, NEW p \in Procs, NEW k \in Kinds, Read(p, k) PROVE Inv'
<1> DEFINE o == [kind |-> k, copy |-> row, seen |-> version]
<1>1. o \in [kind : Kinds \cup {"idle", "push"}, copy : Columns, seen : 0 .. version]
  BY DEF Inv, TypeOK
<1>2. o.copy.used <= pushed
  BY DEF Inv, NeverOvercharged
<1> QED
  BY <1>1, <1>2, OpOnly DEF Read, Inv, TypeOK

\* What the handlers of version v wished for, with one secret and one ban more.
LEMMA WishStep ==
  ASSUME NEW v \in Nat, NEW w \in [banned : BOOLEAN, secret : 0 .. v, pass : 0 .. v],
         NEW s \in 0 .. v + 1, NEW b \in BOOLEAN
  PROVE  [w EXCEPT !.secret = s, !.banned = b]
           \in [banned : BOOLEAN, secret : 0 .. v + 1, pass : 0 .. v + 1]
<1>1. w.pass \in 0 .. v + 1
  OBVIOUS
<1> QED
  BY <1>1

\* A full-row write.
LEMMA WriteStep == ASSUME Inv, NEW p \in Procs, Write(p) PROVE Inv'
<1> DEFINE o == op'[p]
<1> USE OpFields
<1>1. /\ op' = [op EXCEPT ![p] = o]
      /\ \/ o = Idle
         \/ o = [kind |-> "password", copy |-> op[p].copy, seen |-> op[p].seen]
  BY DEF Write, Inv, TypeOK
<1>2. /\ o \in [kind : Kinds \cup {"idle", "push"}, copy : Columns, seen : 0 .. version]
      /\ o.copy.used <= pushed
      /\ o.kind \in Kinds => o.copy = op[p].copy /\ o.seen = op[p].seen
  <2>1. CASE o = Idle
    BY <2>1, IdleFits
  <2>2. CASE o = [kind |-> "password", copy |-> op[p].copy, seen |-> op[p].seen]
    <3>1. op[p].copy \in Columns /\ op[p].seen \in 0 .. version /\ "password" \in Kinds
      BY KindsAre
    <3>2. op[p].copy.used <= pushed
      BY DEF Inv, Copies
    <3> HIDE OpFields
    <3> QED
      BY <2>2, <3>1, <3>2
  <2> QED
    BY <1>1, <2>1, <2>2
<1>3. op[p].kind \in Kinds
  BY DEF Write
<1>4. CASE ~exists
  BY <1>1, <1>2, <1>3, <1>4, OpOnly DEF Write, Inv, TypeOK, Copies
<1>5. CASE exists
  <2>1. /\ version' = version + 1 /\ version' \in 0 .. MaxVersion
        /\ row' = Written(Changed(p))
        /\ overwritten' = (overwritten \/ op[p].seen # version)
        /\ wish' = [wish EXCEPT
                     !.secret = IF Rotates(p) THEN @ + 1 ELSE @,
                     !.banned = IF Rules(p) THEN Changed(p).banned ELSE @]
        /\ UNCHANGED <<exists, pushed>>
    BY <1>5, BoundsAssumption DEF Write, Inv, TypeOK
  <2>2. /\ Changed(p).used = op[p].copy.used
        /\ Changed(p).secret = IF Rotates(p) THEN wish.secret + 1 ELSE op[p].copy.secret
        /\ Changed(p).banned \in BOOLEAN
        /\ ~Rules(p) => Changed(p).banned = op[p].copy.banned
    <3>1. op[p].copy \in [banned : BOOLEAN, secret : 0 .. wish.secret, used : Nat,
                          pass : 0 .. wish.pass]
      BY DEF Columns
    <3> QED
      BY <3>1 DEF Changed, Rules, Rotates
  <2>3. /\ wish'.banned = IF Rules(p) THEN Changed(p).banned ELSE wish.banned
        /\ wish'.secret = IF Rotates(p) THEN wish.secret + 1 ELSE wish.secret
        /\ wish'.pass = wish.pass
        /\ wish' \in [banned : BOOLEAN, secret : 0 .. version', pass : 0 .. version']
    <3>1. wish \in [banned : BOOLEAN, secret : 0 .. version, pass : 0 .. version]
      BY DEF Inv, TypeOK
    <3>2. version \in Nat
      BY BoundsAssumption DEF Inv, TypeOK
    <3>3. Changed(p).banned \in BOOLEAN
      BY <2>2
    <3> DEFINE s == IF Rotates(p) THEN wish.secret + 1 ELSE wish.secret
               b == IF Rules(p) THEN Changed(p).banned ELSE wish.banned
    <3>4. wish' = [wish EXCEPT !.secret = s, !.banned = b]
      BY <2>1
    <3>5. version' = version + 1
      BY <2>1
    <3>6. s \in 0 .. version + 1 /\ b \in BOOLEAN
      BY <3>1, <3>2, <3>3
    <3> HIDE OpFields DEF s, b
    <3>7. wish'.banned = b /\ wish'.secret = s /\ wish'.pass = wish.pass
      BY <3>1, <3>4
    <3>8. wish' \in [banned : BOOLEAN, secret : 0 .. version', pass : 0 .. version']
      BY <3>1, <3>2, <3>4, <3>5, <3>6, WishStep
    <3> QED
      BY <3>7, <3>8 DEF s, b
  <2>4. /\ row'.banned = Changed(p).banned
        /\ row'.secret = Changed(p).secret
        /\ row'.used = op[p].copy.used
        /\ row'.pass = row.pass
        /\ row' \in Columns'
    <3>1. /\ row \in [banned : BOOLEAN, secret : 0 .. wish.secret, used : Nat,
                      pass : 0 .. wish.pass]
          /\ op[p].copy \in [banned : BOOLEAN, secret : 0 .. wish.secret, used : Nat,
                             pass : 0 .. wish.pass]
          /\ wish.secret \in Nat
      BY DEF Inv, TypeOK, Columns
    <3>2. /\ Changed(p).banned \in BOOLEAN /\ Changed(p).used \in Nat
          /\ Changed(p).secret \in 0 .. wish'.secret
      BY <2>2, <2>3, <3>1
    <3>3. row' = [row EXCEPT !.banned = Changed(p).banned, !.secret = Changed(p).secret,
                             !.used = Changed(p).used]
      BY <2>1 DEF Written
    <3>4. 0 .. wish.secret \subseteq 0 .. wish'.secret /\ wish'.pass = wish.pass
      BY <2>3, <3>1
    <3>5. Changed(p).used = op[p].copy.used
      BY <2>2
    <3> HIDE OpFields
    <3>6. row' \in [banned : BOOLEAN, secret : 0 .. wish'.secret, used : Nat,
                    pass : 0 .. wish'.pass]
      BY <3>1, <3>2, <3>3, <3>4
    <3> QED
      BY <3>1, <3>3, <3>5, <3>6 DEF Columns
  <2>5. Columns \subseteq Columns'
    BY <2>3, ColumnsGrow DEF Inv, TypeOK
  <2>6. TypeOK'
    BY <1>1, <1>2, <2>1, <2>3, <2>4, <2>5 DEF Inv, TypeOK
  <2>7. Copies'
    <3>1. ASSUME NEW q \in Procs
          PROVE  op'[q].copy.used <= pushed' /\ op'[q].seen # version'
      BY <1>1, <1>2, <2>1 DEF Inv, TypeOK, Copies
    <3> QED
      BY <3>1 DEF Copies
  <2>8. NeverOvercharged' /\ PasswordSticks'
    BY <2>1, <2>3, <2>4 DEF Inv, Copies, NeverOvercharged, PasswordSticks
  <2>9. LostOnlyByOverlap'
    <3> SUFFICES ASSUME ~overwritten'
                 PROVE  /\ row'.banned = wish'.banned /\ row'.secret = wish'.secret
                        /\ row'.used = pushed'
      BY DEF LostOnlyByOverlap
    <3>1. ~overwritten /\ op[p].copy = row
      BY <1>3, <2>1 DEF Inv, Copies
    <3> QED
      BY <2>1, <2>2, <2>3, <2>4, <3>1 DEF Inv, LostOnlyByOverlap
  <2> QED
    BY <2>6, <2>7, <2>8, <2>9 DEF Inv
<1> QED
  BY <1>4, <1>5

\* A password is set.
LEMMA WritePasswordStep == ASSUME Inv, NEW p \in Procs, WritePassword(p) PROVE Inv'
<1>1. op' = [op EXCEPT ![p] = Idle]
  BY DEF WritePassword
<1>2. CASE ~exists
  BY <1>1, <1>2, IdleFits, OpOnly DEF WritePassword, Inv, TypeOK
<1>3. CASE exists
  <2>1. /\ version' = version + 1 /\ version' \in 0 .. MaxVersion
        /\ row' = [row EXCEPT !.pass = wish.pass + 1]
        /\ wish' = [wish EXCEPT !.pass = @ + 1]
        /\ UNCHANGED <<exists, pushed, overwritten>>
    BY <1>3, BoundsAssumption DEF WritePassword, Inv, TypeOK
  <2>2. /\ wish'.banned = wish.banned /\ wish'.secret = wish.secret
        /\ wish'.pass = wish.pass + 1
        /\ wish' \in [banned : BOOLEAN, secret : 0 .. version', pass : 0 .. version']
    BY <2>1 DEF Inv, TypeOK
  <2>3. /\ row'.banned = row.banned /\ row'.secret = row.secret /\ row'.used = row.used
        /\ row'.pass = wish'.pass /\ row' \in Columns'
    BY <2>1, <2>2 DEF Inv, TypeOK, Columns
  <2>4. Columns \subseteq Columns'
    BY <2>2, ColumnsGrow DEF Inv, TypeOK
  <2>5. TypeOK'
    BY <1>1, IdleFits, <2>1, <2>2, <2>3, <2>4 DEF Inv, TypeOK
  <2>6. Copies'
    <3>1. ASSUME NEW q \in Procs
          PROVE  op'[q].copy.used <= pushed' /\ op'[q].seen # version'
      BY <1>1, IdleFits, <2>1 DEF Inv, TypeOK, Copies
    <3> QED
      BY <3>1 DEF Copies
  <2> QED
    BY <2>1, <2>2, <2>3, <2>5, <2>6
    DEF Inv, NeverOvercharged, PasswordSticks, LostOnlyByOverlap
<1> QED
  BY <1>2, <1>3

\* Traffic is added, whatever the handlers do meanwhile.
LEMMA AddTrafficStep ==
  ASSUME Inv, NEW n \in Amounts, AddTraffic(n),
         \/ UNCHANGED op
         \/ \E p \in Procs : op' = [op EXCEPT ![p] = Idle]
  PROVE  Inv'
<1>1. /\ n \in Nat
      /\ version' = version + 1 /\ version' \in 0 .. MaxVersion
      /\ row' = [row EXCEPT !.used = row.used + n]
      /\ pushed' = pushed + n /\ pushed' \in Nat
      /\ UNCHANGED <<exists, wish, overwritten>>
  BY BoundsAssumption DEF AddTraffic, Added, Inv, TypeOK
<1>2. /\ row'.banned = row.banned /\ row'.secret = row.secret /\ row'.pass = row.pass
      /\ row'.used = row.used + n /\ row' \in Columns' /\ row.used \in Nat
  BY <1>1 DEF Inv, TypeOK, Columns
<1>3. ASSUME NEW q \in Procs
      PROVE  /\ op'[q] \in [kind : Kinds \cup {"idle", "push"}, copy : Columns,
                            seen : 0 .. version]
             /\ op'[q].copy.used <= pushed
  BY IdleFits DEF Inv, TypeOK, Copies
<1>4. op' \in [Procs -> [kind : Kinds \cup {"idle", "push"}, copy : Columns, seen : 0 .. version]]
  BY IdleFits DEF Inv, TypeOK
<1>5. TypeOK'
  BY <1>1, <1>2, <1>4 DEF Inv, TypeOK, Columns
<1>6. Copies'
  <2>1. ASSUME NEW q \in Procs
        PROVE  op'[q].copy.used <= pushed' /\ op'[q].seen # version'
    BY <1>1, <1>3 DEF Inv, TypeOK, Columns
  <2> QED
    BY <2>1 DEF Copies
<1> QED
  <2>1. NeverOvercharged' /\ PasswordSticks'
    BY <1>1, <1>2 DEF Inv, TypeOK, NeverOvercharged, PasswordSticks
  <2>2. LostOnlyByOverlap'
    BY <1>1, <1>2 DEF Inv, LostOnlyByOverlap
  <2> QED
    BY <1>5, <1>6, <2>1, <2>2 DEF Inv

\* Every step keeps the invariant.
LEMMA NextInv == Inv /\ [Next]_vars => Inv'
<1> SUFFICES ASSUME Inv, [Next]_vars PROVE Inv'
  OBVIOUS
<1>1. ASSUME NEW p \in Procs, NEW k \in Handlers, Read(p, k) PROVE Inv'
  BY <1>1, ReadStep, HandlersAssumption
<1>2. ASSUME NEW p \in Procs, Write(p) PROVE Inv'
  BY <1>2, WriteStep
<1>3. ASSUME NEW p \in Procs, WritePassword(p) PROVE Inv'
  BY <1>3, WritePasswordStep
<1>4. ASSUME NEW p \in Procs, PushLookup(p) PROVE Inv'
  <2> DEFINE o == [kind |-> "push", copy |-> op[p].copy, seen |-> op[p].seen]
  <2>1. op' = [op EXCEPT ![p] = o]
    <3>1. op' = [op EXCEPT ![p].kind = "push"]
      BY <1>4 DEF PushLookup
    <3>2. op[p] \in [kind : Kinds \cup {"idle", "push"}, copy : Columns, seen : 0 .. version]
      BY DEF Inv, TypeOK
    <3>3. [op[p] EXCEPT !.kind = "push"] = o
      BY <3>2
    <3>4. op' = [op EXCEPT ![p] = [op[p] EXCEPT !.kind = "push"]]
      BY <3>1
    <3> QED
      BY <3>3, <3>4
  <2>2. /\ o \in [kind : Kinds \cup {"idle", "push"}, copy : Columns, seen : 0 .. version]
        /\ o.copy.used <= pushed /\ o.kind \notin Kinds
    BY OpFields, KindsAre DEF Inv, Copies
  <2> QED
    BY <1>4, <2>1, <2>2, OpOnly DEF PushLookup, Inv, TypeOK
<1>5. ASSUME NEW p \in Procs, NEW n \in Amounts, PushFound(p, n) PROVE Inv'
  BY <1>5, AddTrafficStep DEF PushFound
<1>6. ASSUME NEW p \in Procs, Abort(p) PROVE Inv'
  BY <1>6, IdleFits, OpOnly DEF Abort, Inv, TypeOK
<1>7. ASSUME NEW n \in Amounts, PushById(n) PROVE Inv'
  BY <1>7, AddTrafficStep DEF PushById
<1>8. ASSUME Delete PROVE Inv'
  BY <1>8
  DEF Delete, Inv, TypeOK, Columns, Copies, NeverOvercharged, PasswordSticks, LostOnlyByOverlap
<1>9. CASE UNCHANGED vars
  BY <1>9
  DEF vars, Inv, TypeOK, Columns, Copies, NeverOvercharged, PasswordSticks, LostOnlyByOverlap
<1> QED
  BY <1>1, <1>2, <1>3, <1>4, <1>5, <1>6, <1>7, <1>8, <1>9 DEF Next

\* The inductive invariant.
THEOREM SpecInv == Spec => []Inv
  BY InitInv, NextInv, PTL DEF Spec

\* The types are right in every reachable state.
THEOREM TypeCorrect == Spec => []TypeOK
<1>1. Inv => TypeOK
  BY DEF Inv
<1> QED
  BY <1>1, SpecInv, PTL

\* However logins, edits and pushes overlap, nobody is charged for traffic that
\* was not reported.
THEOREM NoOvercharge == Spec => []NeverOvercharged
<1>1. Inv => NeverOvercharged
  BY DEF Inv
<1> QED
  BY <1>1, SpecInv, PTL

\* No full-row write brings an old password back.
THEOREM PasswordsStick == Spec => []PasswordSticks
<1>1. Inv => PasswordSticks
  BY DEF Inv
<1> QED
  BY <1>1, SpecInv, PTL

\* A ban, a rotated secret or pushed traffic is lost to a stale write only.
THEOREM LossNeedsOverlap == Spec => []LostOnlyByOverlap
<1>1. Inv => LostOnlyByOverlap
  BY DEF Inv
<1> QED
  BY <1>1, SpecInv, PTL

-----------------------------------------------------------------------------
(* The node API: NodeUsers, whose pushes end in AddTrafficByUserID above,  *)
(* for any number of requests, nodes, edits and units of traffic.          *)

RequestSet ==
  [pc : {"idle", "get", "node", "users", "fill", "answer", "add", "servers", "delete", "beat",
         "save"},
   node : Nodes, admitted : BOOLEAN, list : Lists, keys : SUBSET Nodes,
   owed : 0 .. MaxUsed, excused : BOOLEAN, behind : BOOLEAN]

\* The tables, the keys and the history, whatever requests are on their way.
\* A key of a node that is yet to be created holds nothing.
NodeTables ==
  /\ servers \in [Nodes -> {"new", "there", "gone"}]
  /\ admits \subseteq Nodes /\ late \subseteq Nodes /\ active \in BOOLEAN
  /\ used \in 0 .. MaxUsed /\ settled \in 0 .. used
  /\ edits \in 0 .. MaxEdits /\ beats \in 0 .. MaxBeats
  /\ cache \in [Nodes -> Lists \cup {Miss}]
  /\ \A n \in Nodes : cache[n] # Miss => cache[n].used <= used
  /\ \A n \in Nodes : servers[n] = "new" => cache[n] = Miss
  /\ request \in [Requests -> RequestSet]

\* The key of node n, if it lists the user, tells at least x units of traffic,
\* unless the history has an excuse.
Told(n, x) == cache[n] # Miss /\ cache[n].listed /\ n \notin late => cache[n].used >= x

\* A node that is there is told whatever was answered.
NodesAreTold == \A n \in nodes : Told(n, settled)

\* A request o at each of its steps: what it pulls tells what its node was owed
\* when it began; what it pushed is told by every key it is not about to delete;
\* what it holds of a row is the row, until it is known to be behind.
Fits(o) ==
  /\ o.pc # "idle" => servers[o.node] # "new"
  /\ o.list.used <= used /\ o.owed <= used
  /\ o.pc = "get" => Told(o.node, o.owed)
  /\ o.pc = "fill" /\ o.list.listed => o.list.used >= o.owed
  /\ o.pc = "answer" /\ o.list.listed => o.list.used >= o.owed \/ o.excused
  /\ o.pc = "delete" => \A n \in nodes \ o.keys : Told(n, o.owed)
  /\ o.pc \in Holding /\ ~o.behind => (o.admitted <=> o.node \in admits)

NodeInv == NodeTables /\ NodesAreTold /\ \A p \in Requests : Fits(request[p])

NodesUnchanged == UNCHANGED <<servers, admits, active, used, cache, settled, late>>

\* Whether something is in a set is a truth value that a record may hold.
LEMMA InOrNot ==
  ASSUME NEW x, NEW S
  PROVE  \E b \in BOOLEAN : b = (x \in S)
<1>1. CASE x \in S
  <2>1. TRUE = (x \in S)
    BY <1>1
  <2> QED
    BY <2>1
<1>2. CASE x \notin S
  <2>1. FALSE = (x \in S)
    BY <1>2
  <2> QED
    BY <2>1
<1> QED
  BY <1>1, <1>2

\* A request that has not begun, or is over.
LEMMA IdleNode ==
  ASSUME NodeTables
  PROVE  /\ NoRequest \in RequestSet /\ Fits(NoRequest)
         /\ NoRequest.pc = "idle" /\ NoRequest.list = [listed |-> FALSE, used |-> 0]
         /\ NoRequest.owed = 0 /\ NoRequest.excused = FALSE /\ NoRequest.behind = FALSE
<1> DEFINE n0 == CHOOSE n \in Nodes : TRUE
<1>1. n0 \in Nodes
  BY NodeUsersAssumption
<1> HIDE DEF n0
<1>2. NoRequest = [pc |-> "idle", node |-> n0, admitted |-> FALSE,
                   list |-> [listed |-> FALSE, used |-> 0], keys |-> {}, owed |-> 0,
                   excused |-> FALSE, behind |-> FALSE]
  BY DEF NoRequest, NoList, n0
<1>3. [listed |-> FALSE, used |-> 0] \in Lists
  BY NodeUsersAssumption DEF Lists
<1>4. /\ NoRequest \in RequestSet
      /\ NoRequest.pc = "idle" /\ NoRequest.list = [listed |-> FALSE, used |-> 0]
      /\ NoRequest.owed = 0 /\ NoRequest.excused = FALSE /\ NoRequest.behind = FALSE
  BY <1>1, <1>2, <1>3, NodeUsersAssumption DEF RequestSet
<1>5. NoRequest.list.used = 0
  BY <1>4
<1> QED
  BY <1>4, <1>5 DEF Fits, NodeTables, Holding

\* A step of one request that leaves the tables and the keys alone.
LEMMA RequestStep ==
  ASSUME NodeInv, NEW p \in Requests, NEW o \in RequestSet, Fits(o),
         request' = [request EXCEPT ![p] = o], NodesUnchanged,
         edits' \in 0 .. MaxEdits, beats' \in 0 .. MaxBeats
  PROVE  NodeInv'
<1> USE DEF NodesUnchanged
<1>1. NodeTables'
  BY DEF NodeInv, NodeTables
<1>2. NodesAreTold'
  BY DEF NodeInv, NodesAreTold, Told, nodes
<1>3. \A q \in Requests : request'[q] = IF q = p THEN o ELSE request[q]
  BY DEF NodeInv, NodeTables
<1>4. \A x : Fits(x) => Fits(x)'
  BY DEF Fits, Told, nodes
<1>5. ASSUME NEW q \in Requests PROVE Fits(request[q])'
  <2> DEFINE r == request'[q]
  <2>1. Fits(r)
    BY <1>3 DEF NodeInv
  <2> QED
    BY <2>1 DEF Fits, Told, nodes
<1> QED
  BY <1>1, <1>2, <1>5 DEF NodeInv

\* The steps of a pull and of a push that only read.
LEMMA ReadingStep ==
  ASSUME NodeInv, NEW p \in Requests,
         \/ \E n \in Nodes : \/ Pull(p, n) \/ Push(p, n)
                             \/ Alive(p, n) \/ ManageRead(p, n)
         \/ Get(p) \/ ReadNode(p) \/ ReadUsers(p) \/ Answer(p)
         \/ ListServers(p) \/ HangUp(p)
  PROVE  NodeInv'
<1>1. NodeTables /\ request[p] \in RequestSet /\ Fits(request[p])
  BY DEF NodeInv, NodeTables
<1>i. /\ NoRequest \in RequestSet /\ Fits(NoRequest)
      /\ NoRequest.pc = "idle" /\ NoRequest.list = [listed |-> FALSE, used |-> 0]
      /\ NoRequest.owed = 0 /\ NoRequest.excused = FALSE /\ NoRequest.behind = FALSE
  BY <1>1, IdleNode
<1>r. \E x : request' = [request EXCEPT ![p] = x]
  <2>1. ASSUME NEW n \in Nodes,
               Pull(p, n) \/ Push(p, n) \/ Alive(p, n) \/ ManageRead(p, n)
        PROVE  \E x : request' = [request EXCEPT ![p] = x]
    BY <2>1 DEF Pull, Push, Alive, ManageRead, ReadRow, Become
  <2>2. ASSUME Get(p) PROVE \E x : request' = [request EXCEPT ![p] = x]
    BY <2>2 DEF Get, Become, Goto
  <2>3. ASSUME ReadNode(p) \/ ReadUsers(p) \/ Answer(p)
        PROVE  \E x : request' = [request EXCEPT ![p] = x]
    BY <2>3 DEF ReadNode, ReadUsers, Answer, Become, End
  <2>4. ASSUME ListServers(p) \/ HangUp(p)
        PROVE  \E x : request' = [request EXCEPT ![p] = x]
    BY <2>4 DEF ListServers, HangUp, Become, End
  <2> QED
    BY <2>1, <2>2, <2>3, <2>4
<1>2. PICK o : request' = [request EXCEPT ![p] = o] /\ o = request'[p]
  BY <1>1, <1>r DEF NodeTables
<1>e. \A x : Become(p, x) => o = x
  BY <1>1, <1>2 DEF NodeTables, Become
<1>3. NodesUnchanged /\ edits' \in 0 .. MaxEdits /\ beats' \in 0 .. MaxBeats
  <2>0. edits \in 0 .. MaxEdits /\ beats \in 0 .. MaxBeats /\ MaxBeats \in Nat
    BY <1>1, NodeUsersAssumption DEF NodeTables
  <2>1. ASSUME NEW n \in Nodes, Pull(p, n) \/ Push(p, n)
        PROVE  NodesUnchanged /\ edits' = edits /\ beats' = beats
    BY <2>1 DEF Pull, Push, NodesUnchanged
  <2>2. ASSUME NEW n \in Nodes, Alive(p, n) \/ ManageRead(p, n)
        PROVE  NodesUnchanged /\ edits' = edits /\ beats' \in 0 .. MaxBeats
    <3>1. NodesUnchanged /\ edits' = edits
      BY <2>2 DEF Alive, ManageRead, ReadRow, NodesUnchanged
    <3>2. beats' = beats \/ (beats < MaxBeats /\ beats' = beats + 1)
      BY <2>2 DEF Alive, ManageRead
    <3> QED
      BY <2>0, <3>1, <3>2
  <2>3. ASSUME Get(p) \/ ReadNode(p) \/ ReadUsers(p)
        PROVE  NodesUnchanged /\ edits' = edits /\ beats' = beats
    BY <2>3 DEF Get, ReadNode, ReadUsers, NodesUnchanged
  <2>4. ASSUME Answer(p) \/ ListServers(p) \/ HangUp(p)
        PROVE  NodesUnchanged /\ edits' = edits /\ beats' = beats
    BY <2>4 DEF Answer, ListServers, HangUp, NodesUnchanged
  <2> QED
    BY <2>0, <2>1, <2>2, <2>3, <2>4
<1>4. o \in RequestSet /\ Fits(o)
  <2>1. ASSUME NEW n \in Nodes, Pull(p, n) PROVE o \in RequestSet /\ Fits(o)
    <3>1. o = [NoRequest EXCEPT !.pc = "get", !.node = n, !.owed = settled]
      BY <1>e, <2>1 DEF Pull
    <3>2. Told(n, settled) /\ servers[n] # "new"
      BY <2>1 DEF Pull, nodes, NodeInv, NodesAreTold
    <3>3. settled \in 0 .. MaxUsed /\ settled <= used
      <4>1. used \in 0 .. MaxUsed /\ settled \in 0 .. used /\ MaxUsed \in Nat
        BY <1>1, NodeUsersAssumption DEF NodeTables
      <4> QED
        BY <4>1
    <3>4. /\ o \in RequestSet /\ o.pc = "get" /\ o.node = n /\ o.owed = settled
          /\ o.list = [listed |-> FALSE, used |-> 0]
      BY <1>i, <3>1, <3>3 DEF RequestSet
    <3>5. o.list.used = 0 /\ used >= 0
      BY <1>1, <3>4 DEF NodeTables
    <3> QED
      BY <3>2, <3>3, <3>4, <3>5 DEF Fits, Holding
  <2>2. ASSUME NEW n \in Nodes, Push(p, n) PROVE o \in RequestSet /\ Fits(o)
    <3>1. o = [NoRequest EXCEPT !.pc = "add", !.node = n]
      BY <1>e, <2>2 DEF Push
    <3>2. servers[n] # "new"
      BY <2>2 DEF Push, nodes
    <3>4. /\ o \in RequestSet /\ o.pc = "add" /\ o.node = n /\ o.owed = 0
          /\ o.list = [listed |-> FALSE, used |-> 0]
      BY <1>i, <3>1 DEF RequestSet
    <3>5. o.list.used = 0 /\ used >= 0
      BY <1>1, <3>4 DEF NodeTables
    <3> QED
      BY <3>2, <3>4, <3>5 DEF Fits, Holding
  <2>3. ASSUME NEW n \in Nodes, NEW pc \in {"beat", "save"}, ReadRow(p, n, pc)
        PROVE  o \in RequestSet /\ Fits(o)
    <3>0. PICK b \in BOOLEAN : b = (n \in admits)
      BY InOrNot
    <3>1. o = [NoRequest EXCEPT !.pc = pc, !.node = n, !.admitted = b]
      BY <1>e, <2>3, <3>0 DEF ReadRow
    <3>2. servers[n] # "new"
      BY <2>3 DEF ReadRow, nodes
    <3>4. /\ o \in RequestSet /\ o.pc = pc /\ o.node = n /\ o.owed = 0
          /\ o.admitted = b
          /\ o.list = [listed |-> FALSE, used |-> 0]
      BY <1>i, <3>1 DEF RequestSet
    <3>5. o.list.used = 0 /\ used >= 0
      BY <1>1, <3>4 DEF NodeTables
    <3> QED
      BY <3>0, <3>2, <3>4, <3>5 DEF Fits, Holding
  <2>4. ASSUME Get(p) PROVE o \in RequestSet /\ Fits(o)
    <3> DEFINE n == request[p].node
    <3>0. PICK b \in BOOLEAN : b = (n \in late)
      BY InOrNot
    <3>1. \/ /\ cache[n] # Miss
             /\ o = [request[p] EXCEPT !.pc = "answer", !.list = cache[n], !.excused = b]
          \/ o = [request[p] EXCEPT !.pc = "node"]
      BY <1>e, <2>4, <3>0 DEF Get, Goto
    <3>2. request[p].pc = "get" /\ n \in Nodes
      BY <1>1, <2>4 DEF Get, RequestSet
    <3>3. cache[n] # Miss => cache[n] \in Lists /\ cache[n].used <= used
      BY <1>1, <3>2 DEF NodeTables
    <3>4. servers[n] # "new" /\ Told(n, request[p].owed)
      BY <1>1, <3>2 DEF Fits
    <3> HIDE DEF n
    <3>5. CASE /\ cache[n] # Miss
               /\ o = [request[p] EXCEPT !.pc = "answer", !.list = cache[n], !.excused = b]
      <4>1. /\ o \in RequestSet /\ o.pc = "answer" /\ o.node = n /\ o.owed = request[p].owed
            /\ o.list = cache[n] /\ o.excused = b
        BY <1>1, <3>3, <3>5 DEF RequestSet, n
      <4> QED
        BY <1>1, <3>0, <3>3, <3>4, <3>5, <4>1 DEF Fits, Told, Holding
    <3>6. CASE o = [request[p] EXCEPT !.pc = "node"]
      <4>1. /\ o \in RequestSet /\ o.pc = "node" /\ o.node = n /\ o.owed = request[p].owed
            /\ o.list = request[p].list
        BY <1>1, <3>6 DEF RequestSet, n
      <4> QED
        BY <1>1, <3>4, <4>1 DEF Fits, Holding
    <3> QED
      BY <3>1, <3>5, <3>6
  <2>5. ASSUME ReadNode(p) PROVE o \in RequestSet /\ Fits(o)
    <3>0. PICK c \in BOOLEAN : c = (request[p].node \in admits)
      BY InOrNot
    <3>1. \/ o = NoRequest
          \/ \E b \in BOOLEAN : o = [request[p] EXCEPT !.pc = "users", !.admitted = b]
      BY <1>e, <2>5, <3>0 DEF ReadNode, End
    <3>2. ASSUME NEW b \in BOOLEAN, o = [request[p] EXCEPT !.pc = "users", !.admitted = b]
          PROVE  o \in RequestSet /\ Fits(o)
      <4>1. /\ o \in RequestSet /\ o.pc = "users" /\ o.node = request[p].node
            /\ o.owed = request[p].owed /\ o.list = request[p].list
        BY <1>1, <3>2 DEF RequestSet
      <4>2. request[p].pc # "idle"
        BY <2>5 DEF ReadNode
      <4> QED
        BY <1>1, <4>1, <4>2 DEF Fits, Holding
    <3> QED
      BY <1>i, <3>1, <3>2
  <2>6. ASSUME ReadUsers(p) PROVE o \in RequestSet /\ Fits(o)
    <3> DEFINE l == IF request[p].admitted /\ active THEN [listed |-> TRUE, used |-> used]
                                                     ELSE NoList
    <3>1. o = [request[p] EXCEPT !.pc = "fill", !.list = l]
      BY <1>e, <2>6 DEF ReadUsers
    <3>2. used \in 0 .. MaxUsed /\ MaxUsed \in Nat
      BY <1>1, NodeUsersAssumption DEF NodeTables
    <3>3. l \in Lists /\ l.used <= used /\ (l.listed => l.used = used)
      BY <3>2 DEF Lists, NoList
    <3> HIDE DEF l
    <3>4. /\ o \in RequestSet /\ o.pc = "fill" /\ o.node = request[p].node
          /\ o.owed = request[p].owed /\ o.list = l
      BY <1>1, <3>1, <3>3 DEF RequestSet
    <3>5. request[p].pc # "idle"
      BY <2>6 DEF ReadUsers
    <3> QED
      BY <1>1, <3>3, <3>4, <3>5 DEF Fits, Holding
  <2>7. ASSUME ListServers(p) PROVE o \in RequestSet /\ Fits(o)
    <3>1. o = [request[p] EXCEPT !.pc = "delete", !.keys = nodes]
      BY <1>e, <2>7 DEF ListServers
    <3>2. nodes \subseteq Nodes
      BY DEF nodes
    <3>3. /\ o \in RequestSet /\ o.pc = "delete" /\ o.node = request[p].node
          /\ o.owed = request[p].owed /\ o.list = request[p].list /\ o.keys = nodes
      BY <1>1, <3>1, <3>2 DEF RequestSet
    <3>4. request[p].pc # "idle"
      BY <2>7 DEF ListServers
    <3> QED
      BY <1>1, <3>3, <3>4 DEF Fits, Holding
  <2>8. ASSUME Answer(p) \/ HangUp(p) PROVE o \in RequestSet /\ Fits(o)
    <3>1. o = NoRequest
      BY <1>e, <2>8 DEF Answer, HangUp, End
    <3> QED
      BY <1>i, <3>1
  <2> QED
    BY <2>1, <2>2, <2>3, <2>4, <2>5, <2>6, <2>7, <2>8 DEF Alive, ManageRead
<1> QED
  BY <1>2, <1>3, <1>4, RequestStep

\* The numbers of the tables, by themselves.
LEMMA NodeNumbers ==
  ASSUME NodeTables
  PROVE  /\ MaxUsed \in Nat /\ MaxEdits \in Nat /\ MaxBeats \in Nat
         /\ used \in Nat /\ used <= MaxUsed /\ settled \in Nat /\ settled <= used
<1>1. /\ MaxUsed \in Nat /\ MaxEdits \in Nat /\ MaxBeats \in Nat
      /\ used \in 0 .. MaxUsed /\ settled \in 0 .. used
  BY NodeUsersAssumption DEF NodeTables
<1> QED
  BY <1>1

\* Keys that tell no less than before still tell what a request needs.
LEMMA StillFits ==
  ASSUME NodeTables, NEW o \in RequestSet, Fits(o), used \in Nat, used' \in Nat, used <= used',
         \A n \in Nodes : servers'[n] = "new" => servers[n] = "new",
         \A n \in nodes' \ nodes : cache[n] = Miss,
         \A n \in Nodes : \A x \in 0 .. used : (cache[n] = Miss \/ Told(n, x)) => Told(n, x)',
         o.pc \in Holding /\ ~o.behind => (o.node \in admits' <=> o.node \in admits)
  PROVE  Fits(o)'
<1>1. o.node \in Nodes /\ o.owed \in 0 .. used /\ o.list.used <= used'
  <2>1. /\ o.node \in Nodes /\ o.owed \in 0 .. MaxUsed
        /\ o.list.used <= used /\ o.list.used \in Int
    BY DEF RequestSet, Lists, Fits
  <2>2. o.owed \in Nat
    BY <2>1
  <2>3. o.owed <= used
    BY DEF Fits
  <2> QED
    BY <2>1, <2>2, <2>3
<1>2. o.owed <= used'
  BY <1>1
<1>3. o.pc = "get" => Told(o.node, o.owed)'
  BY <1>1 DEF Fits
<1>4. o.pc = "delete" => \A n \in nodes' \ o.keys : Told(n, o.owed)'
  BY <1>1 DEF Fits, nodes
<1>5. o.pc # "idle" => servers'[o.node] # "new"
  BY <1>1 DEF Fits
<1>6. o.pc \in Holding /\ ~o.behind => (o.admitted <=> o.node \in admits')
  BY DEF Fits
<1> QED
  BY <1>1, <1>2, <1>3, <1>4, <1>5, <1>6 DEF Fits, Holding

\* Traffic is added: no key tells less, and the push is owed what it added.
LEMMA AddStep ==
  ASSUME NodeInv, NEW p \in Requests, Add(p)
  PROVE  NodeInv'
<1>1. NodeTables /\ request[p] \in RequestSet /\ Fits(request[p])
  BY DEF NodeInv, NodeTables
<1>2. /\ MaxUsed \in Nat /\ used \in Nat /\ used <= MaxUsed /\ settled \in Nat /\ settled <= used
  BY <1>1, NodeNumbers
<1>3. /\ request[p].pc = "add" /\ used < MaxUsed /\ used' = used + 1
      /\ request' = [request EXCEPT ![p] = [request[p] EXCEPT !.pc = "servers", !.owed = used + 1]]
      /\ UNCHANGED <<servers, admits, active, cache, edits, beats, settled, late>>
  BY DEF Add, Become
<1>4. used' \in 0 .. MaxUsed /\ used' \in Nat /\ used < used' /\ settled \in 0 .. used'
  BY <1>2, <1>3
<1> DEFINE o == [request[p] EXCEPT !.pc = "servers", !.owed = used + 1]
<1>5. /\ o \in RequestSet /\ o.pc = "servers" /\ o.owed = used' /\ o.node = request[p].node
      /\ o.list = request[p].list
  BY <1>1, <1>3, <1>4 DEF RequestSet
<1>6. /\ request' \in [Requests -> RequestSet]
      /\ \A q \in Requests : request'[q] = IF q = p THEN o ELSE request[q]
  BY <1>1, <1>3, <1>5 DEF NodeTables
<1> HIDE DEF o
<1>7. \A n \in Nodes : cache[n] # Miss => cache[n].used <= used'
  <2>1. ASSUME NEW n \in Nodes, cache[n] # Miss PROVE cache[n].used <= used'
    <3>1. cache[n] \in Lists /\ cache[n].used <= used
      BY <1>1, <2>1 DEF NodeTables
    <3>2. cache[n].used \in Int
      BY <3>1 DEF Lists
    <3> QED
      BY <1>2, <1>4, <3>1, <3>2
  <2> QED
    BY <2>1
<1>8. NodeTables'
  BY <1>1, <1>3, <1>4, <1>6, <1>7 DEF NodeTables
<1>9. NodesAreTold'
  BY <1>3 DEF NodeInv, NodesAreTold, Told, nodes
<1>10. ASSUME NEW q \in Requests PROVE Fits(request[q])'
  <2>1. CASE q = p
    <3>1. o.list.used <= used'
      <4>1. o.list.used \in Int /\ o.list.used <= used
        BY <1>1, <1>5 DEF RequestSet, Lists, Fits
      <4> QED
        BY <1>2, <1>4, <4>1
    <3>2. servers[o.node] # "new"
      BY <1>1, <1>3, <1>5 DEF Fits
    <3>3. request'[q] = o
      BY <1>6, <2>1
    <3>4. o.owed <= used'
      BY <1>4, <1>5
    <3> QED
      BY <1>3, <1>5, <3>1, <3>2, <3>3, <3>4 DEF Fits, Holding
  <2>2. CASE q # p
    <3> DEFINE r == request[q]
    <3>1. r \in RequestSet /\ Fits(r) /\ request'[q] = r
      BY <1>1, <1>6, <2>2 DEF NodeInv, NodeTables
    <3>r. PICK s : s = r
      OBVIOUS
    <3>2. \A n \in Nodes : \A x \in 0 .. used : (cache[n] = Miss \/ Told(n, x)) => Told(n, x)'
      BY <1>3 DEF Told
    <3>3. used <= used'
      BY <1>2, <1>4
    <3>4. nodes' = nodes
      BY <1>3 DEF nodes
    <3>5. s \in RequestSet /\ Fits(s)
      BY <3>1, <3>r
    <3> HIDE DEF r
    <3>6. Fits(s)'
      BY <1>1, <1>2, <1>3, <1>4, <3>2, <3>3, <3>4, <3>5, StillFits
    <3> QED
      BY <3>1, <3>6, <3>r DEF Fits
  <2> QED
    BY <2>1, <2>2
<1> QED
  BY <1>8, <1>9, <1>10 DEF NodeInv

\* What is left to show of a step that adds no traffic, once its tables are.
LEMMA WorldStep ==
  ASSUME NodeInv, NodeTables', NodesAreTold', used' = used,
         \A n \in Nodes : servers'[n] = "new" => servers[n] = "new",
         \A n \in nodes' \ nodes : cache[n] = Miss,
         \A n \in Nodes : \A x \in 0 .. used : (cache[n] = Miss \/ Told(n, x)) => Told(n, x)',
         \A q \in Requests :
           /\ Fits(request'[q])
           /\ request'[q].pc \in Holding /\ ~request'[q].behind =>
                (request'[q].node \in admits' <=> request'[q].node \in admits)
  PROVE  NodeInv'
<1>1. used \in Nat /\ used' \in Nat /\ used <= used'
  BY NodeNumbers DEF NodeInv
<1>2. ASSUME NEW q \in Requests PROVE Fits(request[q])'
  <2>1. PICK o : o = request'[q]
    OBVIOUS
  <2>2. /\ o \in RequestSet /\ Fits(o)
        /\ o.pc \in Holding /\ ~o.behind => (o.node \in admits' <=> o.node \in admits)
    BY <2>1 DEF NodeTables
  <2>3. Fits(o)'
    BY <1>1, <2>2, StillFits DEF NodeInv
  <2> QED
    BY <2>1, <2>3 DEF Fits
<1> QED
  BY <1>2 DEF NodeInv

\* A list is stored: its key tells all traffic there is, or is noted as late.
LEMMA FillStep ==
  ASSUME NodeInv, NEW p \in Requests, Fill(p)
  PROVE  NodeInv'
<1>1. NodeTables /\ request[p] \in RequestSet /\ Fits(request[p])
  BY DEF NodeInv, NodeTables
<1>2. /\ used \in Nat /\ used <= MaxUsed /\ settled \in Nat /\ settled <= used
  BY <1>1, NodeNumbers
<1>3. PICK n \in Nodes, l \in Lists : n = request[p].node /\ l = request[p].list
  BY <1>1 DEF RequestSet
<1>4. /\ request[p].pc = "fill"
      /\ \/ /\ cache' = [cache EXCEPT ![n] = l]
            /\ late' = IF l.used < used THEN late \cup {n} ELSE late \ {n}
         \/ cache' = cache /\ late' = late
      /\ request' = [request EXCEPT ![p] = [request[p] EXCEPT !.pc = "answer"]]
      /\ UNCHANGED <<servers, admits, active, used, edits, beats, settled>>
  BY <1>3 DEF Fill, Goto, Become
<1> DEFINE o == [request[p] EXCEPT !.pc = "answer"]
<1>5. /\ o \in RequestSet /\ o.pc = "answer" /\ o.node = n /\ o.list = l
      /\ o.owed = request[p].owed
  BY <1>1, <1>3 DEF RequestSet
<1>6. l.used <= used /\ l.used \in Int /\ servers[n] # "new"
      /\ (l.listed => l.used >= o.owed) /\ o.owed <= used
  BY <1>1, <1>3, <1>4, <1>5 DEF Fits, Lists
<1>7. Fits(o)
  BY <1>5, <1>6 DEF Fits, Holding
<1>8. /\ request' \in [Requests -> RequestSet]
      /\ \A q \in Requests : request'[q] = IF q = p THEN o ELSE request[q]
  BY <1>1, <1>4, <1>5 DEF NodeTables
<1> HIDE DEF o
<1>9. /\ cache' \in [Nodes -> Lists \cup {Miss}]
      /\ \A m \in Nodes : cache'[m] = cache[m] \/ (m = n /\ cache'[m] = l)
      /\ late' \subseteq Nodes
  BY <1>1, <1>4 DEF NodeTables
<1>10. \A m \in Nodes : cache'[m] # Miss => cache'[m].used <= used
  BY <1>1, <1>6, <1>9 DEF NodeTables
<1>11. \A m \in Nodes : servers[m] = "new" => cache'[m] = Miss
  BY <1>1, <1>6, <1>9 DEF NodeTables
<1>12. NodeTables'
  BY <1>1, <1>4, <1>8, <1>9, <1>10, <1>11 DEF NodeTables
<1>13. ASSUME NEW m \in Nodes, NEW x \in 0 .. used, cache[m] = Miss \/ Told(m, x)
       PROVE  Told(m, x)'
  <2>1. CASE cache' = cache /\ late' = late
    BY <1>13, <2>1 DEF Told
  <2>2. CASE /\ cache' = [cache EXCEPT ![n] = l]
             /\ late' = IF l.used < used THEN late \cup {n} ELSE late \ {n}
    <3>1. CASE m # n
      <4>1. cache'[m] = cache[m] /\ (m \in late' <=> m \in late)
        BY <1>1, <2>2, <3>1 DEF NodeTables
      <4> QED
        BY <1>13, <4>1 DEF Told
    <3>2. CASE m = n
      <4>1. cache'[m] = l /\ (m \notin late' => ~(l.used < used))
        BY <1>1, <2>2, <3>2 DEF NodeTables
      <4>2. m \notin late' => l.used >= x
        BY <1>2, <1>6, <4>1
      <4> QED
        BY <4>1, <4>2 DEF Told
    <3> QED
      BY <3>1, <3>2
  <2> QED
    BY <1>4, <2>1, <2>2
<1>14. NodesAreTold'
  <2>1. nodes' = nodes /\ nodes \subseteq Nodes /\ settled \in 0 .. used
    BY <1>2, <1>4 DEF nodes
  <2>2. \A m \in nodes : Told(m, settled)'
    BY <1>4, <1>13, <2>1 DEF NodeInv, NodesAreTold, Told
  <2> QED
    BY <2>1, <2>2 DEF NodesAreTold
<1>15. \A q \in Requests :
         /\ Fits(request'[q])
         /\ request'[q].pc \in Holding /\ ~request'[q].behind =>
              (request'[q].node \in admits' <=> request'[q].node \in admits)
  BY <1>4, <1>7, <1>8 DEF NodeInv
<1>16. nodes' = nodes
  BY <1>4 DEF nodes
<1> QED
  BY <1>4, <1>12, <1>13, <1>14, <1>15, <1>16, WorldStep

\* A key goes.
LEMMA ExpireStep ==
  ASSUME NodeInv, NEW n \in Nodes, Expire(n)
  PROVE  NodeInv'
<1>1. NodeTables
  BY DEF NodeInv
<1>2. /\ cache' = [cache EXCEPT ![n] = Miss] /\ late' = late \ {n}
      /\ UNCHANGED <<servers, admits, active, used, request, edits, beats, settled>>
  BY DEF Expire
<1>3. /\ cache' \in [Nodes -> Lists \cup {Miss}]
      /\ \A m \in Nodes : cache'[m] = Miss \/ (m # n /\ cache'[m] = cache[m])
  BY <1>1, <1>2 DEF NodeTables
<1>4. NodeTables'
  BY <1>1, <1>2, <1>3 DEF NodeTables
<1>5. \A m \in Nodes : \A x : (cache[m] = Miss \/ Told(m, x)) => Told(m, x)'
  BY <1>2, <1>3 DEF Told
<1>6. NodesAreTold' /\ nodes' = nodes
  BY <1>2, <1>3 DEF NodeInv, NodesAreTold, nodes, Told
<1> QED
  BY <1>2, <1>4, <1>5, <1>6, WorldStep DEF NodeInv

\* A push deletes the keys and is answered: what it owed is told by now.
LEMMA DeleteStep ==
  ASSUME NodeInv, NEW p \in Requests, DeleteKeys(p)
  PROVE  NodeInv'
<1>1. NodeTables /\ request[p] \in RequestSet /\ Fits(request[p])
  BY DEF NodeInv, NodeTables
<1>2. /\ used \in Nat /\ used <= MaxUsed /\ settled \in Nat /\ settled <= used
  BY <1>1, NodeNumbers
<1>3. PICK K \in SUBSET Nodes, w \in 0 .. MaxUsed : K = request[p].keys /\ w = request[p].owed
  BY <1>1 DEF RequestSet
<1>4. /\ request[p].pc = "delete"
      /\ \/ /\ cache' = [n \in Nodes |-> IF n \in K THEN Miss ELSE cache[n]]
            /\ late' = late \ K
         \/ /\ late' = late \cup {n \in K : cache[n] # Miss /\ cache[n].used < used}
            /\ cache' = cache
      /\ settled' = IF w > settled THEN w ELSE settled
      /\ request' = [request EXCEPT ![p] = NoRequest]
      /\ UNCHANGED <<servers, admits, active, used, edits, beats>>
  BY <1>3 DEF DeleteKeys, End, Become
<1>5. /\ NoRequest \in RequestSet /\ Fits(NoRequest) /\ NoRequest.pc = "idle"
  BY <1>1, IdleNode
<1>6. /\ request' \in [Requests -> RequestSet]
      /\ \A q \in Requests : request'[q] = IF q = p THEN NoRequest ELSE request[q]
  BY <1>1, <1>4, <1>5 DEF NodeTables
<1>7. w <= used /\ w \in Nat /\ \A n \in nodes \ K : Told(n, w)
  BY <1>1, <1>3, <1>4 DEF Fits
<1>8. settled' \in 0 .. used /\ (settled' = w \/ settled' = settled)
  BY <1>2, <1>4, <1>7
<1>9. /\ cache' \in [Nodes -> Lists \cup {Miss}]
      /\ \A n \in Nodes : cache'[n] = cache[n] \/ (n \in K /\ cache'[n] = Miss)
  BY <1>1, <1>3, <1>4 DEF NodeTables
<1>10. late' \subseteq Nodes
  BY <1>1, <1>3, <1>4 DEF NodeTables
<1>11. NodeTables'
  BY <1>1, <1>4, <1>6, <1>8, <1>9, <1>10 DEF NodeTables
<1>12. ASSUME NEW n \in Nodes, NEW x \in 0 .. used, cache[n] = Miss \/ Told(n, x) \/ n \in K
       PROVE  Told(n, x)'
  <2>1. CASE n \notin K
    <3>1. cache'[n] = cache[n] /\ (n \in late' <=> n \in late)
      BY <1>4, <1>9, <2>1
    <3> QED
      BY <1>12, <2>1, <3>1 DEF Told
  <2>2. CASE n \in K /\ cache'[n] = Miss
    BY <2>2 DEF Told
  <2>3. CASE n \in K /\ cache'[n] # Miss
    <3>1. cache' = cache /\ late' = late \cup {m \in K : cache[m] # Miss /\ cache[m].used < used}
      BY <1>4, <2>3
    <3>2. cache[n] \in Lists
      BY <1>1, <2>3, <3>1 DEF NodeTables
    <3>3. cache[n].used \in Int
      BY <3>2 DEF Lists
    <3>4. n \notin late' => ~(cache[n].used < used)
      BY <2>3, <3>1
    <3>5. n \notin late' => cache[n].used >= x
      BY <1>2, <3>3, <3>4
    <3> QED
      BY <3>1, <3>5 DEF Told
  <2> QED
    BY <2>1, <2>2, <2>3
<1>13. NodesAreTold'
  <2>1. nodes' = nodes /\ nodes \subseteq Nodes
    BY <1>4 DEF nodes
  <2>2. \A n \in nodes : Told(n, w) \/ n \in K
    BY <1>7
  <2>3. \A n \in nodes : Told(n, settled)
    BY DEF NodeInv, NodesAreTold
  <2>4. w \in 0 .. used /\ settled \in 0 .. used
    BY <1>2, <1>7
  <2>5. ASSUME NEW n \in nodes
        PROVE  cache'[n] # Miss /\ cache'[n].listed /\ n \notin late' => cache'[n].used >= settled'
    <3>1. PICK s : s = settled'
      OBVIOUS
    <3>2. s \in 0 .. used /\ (Told(n, s) \/ n \in K)
      BY <1>8, <2>2, <2>3, <2>5, <3>1 DEF Told
    <3>3. Told(n, s)'
      BY <1>12, <2>1, <2>5, <3>2
    <3> QED
      BY <3>1, <3>3 DEF Told
  <2> QED
    BY <2>1, <2>5 DEF NodesAreTold, Told
<1>14. nodes' = nodes
  BY <1>4 DEF nodes
<1>15. NoRequest.pc \notin Holding
  BY <1>5 DEF Holding
<1>16. \A q \in Requests :
         /\ Fits(request'[q])
         /\ request'[q].pc \in Holding /\ ~request'[q].behind =>
              (request'[q].node \in admits' <=> request'[q].node \in admits)
  BY <1>4, <1>5, <1>6 DEF NodeInv
<1> QED
  BY <1>4, <1>11, <1>12, <1>13, <1>14, <1>16, WorldStep

\* What UpdateServer does to the requests: those in done are over, and copies of
\* the row of n are behind if n is there.
LEMMA UpdateEffect ==
  ASSUME NodeInv, NEW done, NEW n \in Nodes, NEW b \in BOOLEAN,
         Update(done, n, With(n, b))
  PROVE  /\ request' \in [Requests -> RequestSet]
         /\ admits' \subseteq Nodes
         /\ \A m \in Nodes : m # n \/ n \notin nodes => (m \in admits' <=> m \in admits)
         /\ n \in nodes => (n \in admits' <=> b)
         /\ \A q \in Requests :
              /\ q \in done => request'[q] = NoRequest
              /\ Fits(request'[q])
              /\ request'[q].pc \in Holding /\ ~request'[q].behind =>
                   (request'[q].node \in admits' <=> request'[q].node \in admits)
<1>1. NodeTables
  BY DEF NodeInv
<1>2. /\ NoRequest \in RequestSet /\ Fits(NoRequest) /\ NoRequest.pc = "idle"
  BY <1>1, IdleNode
<1>3. /\ admits' = IF n \in nodes
                   THEN IF b THEN admits \cup {n} ELSE admits \ {n}
                   ELSE admits
      /\ request' = [q \in Requests |->
           IF q \in done THEN NoRequest
           ELSE IF request[q].pc \in Holding /\ request[q].node = n /\ n \in nodes
           THEN [request[q] EXCEPT !.behind = TRUE]
           ELSE request[q]]
  BY DEF Update, With
<1>4. /\ admits' \subseteq Nodes
      /\ \A m \in Nodes : m # n \/ n \notin nodes => (m \in admits' <=> m \in admits)
      /\ n \in nodes => (n \in admits' <=> b)
  BY <1>1, <1>3 DEF NodeTables
<1>5. ASSUME NEW q \in Requests
      PROVE  /\ request'[q] \in RequestSet
             /\ q \in done => request'[q] = NoRequest
             /\ Fits(request'[q])
             /\ request'[q].pc \in Holding /\ ~request'[q].behind =>
                  (request'[q].node \in admits' <=> request'[q].node \in admits)
  <2>1. request[q] \in RequestSet /\ Fits(request[q])
    BY <1>1 DEF NodeInv, NodeTables
  <2>2. CASE q \in done
    <3>1. request'[q] = NoRequest
      BY <1>3, <2>2
    <3>2. NoRequest.pc \notin Holding
      BY <1>2 DEF Holding
    <3> QED
      BY <1>2, <3>1, <3>2
  <2>3. CASE /\ q \notin done
             /\ request[q].pc \in Holding /\ request[q].node = n /\ n \in nodes
    <3>1. PICK r : r = [request[q] EXCEPT !.behind = TRUE]
      OBVIOUS
    <3>2. request'[q] = r
      BY <1>3, <2>3, <3>1
    <3>3. /\ r \in RequestSet /\ r.behind /\ r.pc = request[q].pc /\ r.node = request[q].node
          /\ r.list = request[q].list /\ r.owed = request[q].owed
      BY <2>1, <3>1 DEF RequestSet
    <3>4. r.pc \in {"beat", "save"}
      BY <2>3, <3>3 DEF Holding
    <3>5. Fits(r)
      BY <2>1, <3>3, <3>4 DEF Fits
    <3> QED
      BY <2>3, <3>2, <3>3, <3>5
  <2>4. CASE /\ q \notin done
             /\ ~(request[q].pc \in Holding /\ request[q].node = n /\ n \in nodes)
    <3>1. request'[q] = request[q]
      BY <1>3, <2>4
    <3>2. request[q].node \in Nodes
      BY <2>1 DEF RequestSet
    <3> QED
      BY <1>4, <2>1, <2>4, <3>1, <3>2
  <2> QED
    BY <2>2, <2>3, <2>4
<1>6. request' = [q \in Requests |-> request'[q]]
  BY <1>3
<1> QED
  BY <1>4, <1>5, <1>6

\* A step that changes what admins made, and nothing that pulls tell.
LEMMA EditStep ==
  ASSUME NodeInv, UNCHANGED <<used, cache, settled, late>>,
         servers' \in [Nodes -> {"new", "there", "gone"}],
         \A n \in Nodes : /\ servers'[n] = "new" => servers[n] = "new"
                          /\ servers'[n] = "there" => servers[n] \in {"new", "there"},
         admits' \subseteq Nodes, active' \in BOOLEAN,
         edits' \in 0 .. MaxEdits, beats' \in 0 .. MaxBeats,
         request' \in [Requests -> RequestSet],
         \A q \in Requests :
           /\ Fits(request'[q])
           /\ request'[q].pc \in Holding /\ ~request'[q].behind =>
                (request'[q].node \in admits' <=> request'[q].node \in admits)
  PROVE  NodeInv'
<1>1. NodeTables
  BY DEF NodeInv
<1>2. NodeTables'
  BY <1>1 DEF NodeTables
<1>3. \A n \in nodes' \ nodes : cache[n] = Miss
  BY <1>1 DEF NodeTables, nodes
<1>4. \A n \in Nodes : \A x : (cache[n] = Miss \/ Told(n, x)) => Told(n, x)'
  BY DEF Told
<1>5. NodesAreTold'
  BY <1>3 DEF NodeInv, NodesAreTold, Told, nodes
<1> QED
  BY <1>2, <1>3, <1>4, <1>5, WorldStep

\* What admins and heartbeats do to the rows of nodes.
LEMMA AdminsStep ==
  ASSUME NodeInv,
         \/ EditUser
         \/ \E n \in Nodes : CreateNode(n) \/ EditNode(n) \/ DropNode(n)
         \/ \E p \in Requests : Beat(p) \/ ManageSave(p)
  PROVE  NodeInv'
<1>1. NodeTables
  BY DEF NodeInv
<1>t. /\ servers \in [Nodes -> {"new", "there", "gone"}] /\ admits \subseteq Nodes
      /\ active \in BOOLEAN /\ edits \in 0 .. MaxEdits /\ beats \in 0 .. MaxBeats
      /\ request \in [Requests -> RequestSet]
  BY <1>1 DEF NodeTables
<1>2. Edit => UNCHANGED <<used, cache, beats, settled, late>> /\ edits' \in 0 .. MaxEdits
  <2>1. Edit => UNCHANGED <<used, cache, beats, settled, late>> /\ edits < MaxEdits
                /\ edits' = edits + 1
    BY DEF Edit
  <2>2. MaxEdits \in Nat
    BY <1>1, NodeNumbers
  <2> QED
    BY <1>t, <2>1, <2>2
<1>3. \A q \in Requests : Fits(request[q])
  BY DEF NodeInv
<1>4. CASE EditUser
  <2>1. Edit /\ active' = ~active /\ UNCHANGED <<servers, admits, request>>
    BY <1>4 DEF EditUser
  <2> QED
    BY <1>t, <1>2, <1>3, <2>1, EditStep
<1>5. ASSUME NEW n \in Nodes, CreateNode(n) PROVE NodeInv'
  <2>1. /\ Edit /\ servers[n] = "new" /\ servers' = [servers EXCEPT ![n] = "there"]
        /\ admits' \in {admits, admits \cup {n}} /\ UNCHANGED <<active, request>>
    BY <1>5 DEF CreateNode
  <2>2. ASSUME NEW q \in Requests, request[q].pc \in Holding
        PROVE  request[q].node \in admits' <=> request[q].node \in admits
    <3>1. request[q].pc # "idle"
      BY <2>2 DEF Holding
    <3>2. request[q].node # n
      BY <1>3, <2>1, <3>1 DEF Fits
    <3> QED
      BY <2>1, <3>2
  <2>3. /\ servers' \in [Nodes -> {"new", "there", "gone"}] /\ admits' \subseteq Nodes
        /\ \A m \in Nodes : /\ servers'[m] = "new" => servers[m] = "new"
                            /\ servers'[m] = "there" => servers[m] \in {"new", "there"}
    BY <1>t, <2>1
  <2> QED
    BY <1>t, <1>2, <1>3, <2>1, <2>2, <2>3, EditStep
<1>6. ASSUME NEW n \in Nodes, DropNode(n) PROVE NodeInv'
  <2>1. /\ Edit /\ n \in nodes /\ servers' = [servers EXCEPT ![n] = "gone"]
        /\ UNCHANGED <<admits, active, request>>
    BY <1>6 DEF DropNode
  <2>2. /\ servers' \in [Nodes -> {"new", "there", "gone"}]
        /\ \A m \in Nodes : /\ servers'[m] = "new" => servers[m] = "new"
                            /\ servers'[m] = "there" => servers[m] \in {"new", "there"}
    BY <1>t, <2>1
  <2> QED
    BY <1>t, <1>2, <1>3, <2>1, <2>2, EditStep
<1>7. ASSUME NEW done, NEW n \in Nodes, NEW b \in BOOLEAN,
             Update(done, n, With(n, b)),
             UNCHANGED <<servers, active, used, cache, settled, late>>,
             edits' \in 0 .. MaxEdits, beats' \in 0 .. MaxBeats
      PROVE  NodeInv'
  <2>1. /\ request' \in [Requests -> RequestSet]
        /\ admits' \subseteq Nodes
        /\ \A q \in Requests :
             /\ Fits(request'[q])
             /\ request'[q].pc \in Holding /\ ~request'[q].behind =>
                  (request'[q].node \in admits' <=> request'[q].node \in admits)
    BY <1>7, UpdateEffect
  <2> QED
    BY <1>t, <1>7, <2>1, EditStep
<1>8. ASSUME NEW n \in Nodes, EditNode(n) PROVE NodeInv'
  <2>1. PICK b \in BOOLEAN : b = (n \notin admits)
    <3>1. CASE n \in admits
      <4>1. FALSE = (n \notin admits)
        BY <3>1
      <4> QED
        BY <4>1
    <3>2. CASE n \notin admits
      <4>1. TRUE = (n \notin admits)
        BY <3>2
      <4> QED
        BY <4>1
    <3> QED
      BY <3>1, <3>2
  <2>2. Edit /\ Update({}, n, With(n, b)) /\ UNCHANGED <<servers, active>>
    BY <1>8, <2>1 DEF EditNode
  <2> QED
    BY <1>t, <1>2, <1>7, <2>2
<1>9. ASSUME NEW p \in Requests, Beat(p) PROVE NodeInv'
  <2>1. request[p].node \in Nodes /\ request[p].admitted \in BOOLEAN
    BY <1>t DEF RequestSet
  <2>2. /\ Update({p}, request[p].node, With(request[p].node, request[p].admitted))
        /\ UNCHANGED <<servers, active, used, cache, edits, beats, settled, late>>
    BY <1>9 DEF Beat
  <2> QED
    BY <1>t, <1>7, <2>1, <2>2
<1>10. ASSUME NEW p \in Requests, ManageSave(p) PROVE NodeInv'
  <2>1. request[p].node \in Nodes
    BY <1>t DEF RequestSet
  <2>2. PICK b \in BOOLEAN : Update({p}, request[p].node, With(request[p].node, b))
    BY <1>10 DEF ManageSave
  <2>3. Edit /\ UNCHANGED <<servers, active>>
    BY <1>10 DEF ManageSave
  <2> QED
    BY <1>t, <1>2, <1>7, <2>1, <2>2, <2>3
<1> QED
  BY <1>4, <1>5, <1>6, <1>8, <1>9, <1>10

\* The invariant holds at the start.
LEMMA NodeInitInv == NodesInit => NodeInv
<1> SUFFICES ASSUME NodesInit PROVE NodeInv
  OBVIOUS
<1>1. /\ MaxUsed \in Nat /\ MaxEdits \in Nat /\ MaxBeats \in Nat
  BY NodeUsersAssumption
<1>2. NodeTables /\ Fits(NoRequest)
  <2> DEFINE n0 == CHOOSE n \in Nodes : TRUE
  <2>1. n0 \in Nodes
    BY NodeUsersAssumption
  <2> HIDE DEF n0
  <2>2. NoRequest = [pc |-> "idle", node |-> n0, admitted |-> FALSE,
                     list |-> [listed |-> FALSE, used |-> 0], keys |-> {}, owed |-> 0,
                     excused |-> FALSE, behind |-> FALSE]
    BY DEF NoRequest, NoList, n0
  <2>3. NoRequest \in RequestSet
    BY <1>1, <2>1, <2>2 DEF RequestSet, Lists
  <2>4. request \in [Requests -> RequestSet]
    BY <2>3 DEF NodesInit
  <2>5. cache = [n \in Nodes |-> Miss]
    BY DEF NodesInit
  <2>6. /\ servers \in [Nodes -> {"new", "there", "gone"}] /\ admits \subseteq Nodes
        /\ late \subseteq Nodes /\ active \in BOOLEAN
    BY DEF NodesInit, nodes
  <2>7. /\ used \in 0 .. MaxUsed /\ settled \in 0 .. used
        /\ edits \in 0 .. MaxEdits /\ beats \in 0 .. MaxBeats
    BY <1>1 DEF NodesInit
  <2>8. NodeTables
    BY <2>4, <2>5, <2>6, <2>7 DEF NodeTables
  <2> QED
    BY <2>8, IdleNode
<1>3. NodesAreTold
  BY DEF NodesAreTold, Told, NodesInit, nodes
<1>4. \A p \in Requests : request[p] = NoRequest
  BY DEF NodesInit
<1> QED
  BY <1>2, <1>3, <1>4 DEF NodeInv

\* Every step keeps it.
LEMMA NodeNextInv == NodeInv /\ [NodesNext]_(nodesVars) => NodeInv'
<1> SUFFICES ASSUME NodeInv, [NodesNext]_(nodesVars) PROVE NodeInv'
  OBVIOUS
<1>1. ASSUME NEW p \in Requests, NEW n \in Nodes,
             Pull(p, n) \/ Push(p, n) \/ Alive(p, n) \/ ManageRead(p, n)
      PROVE  NodeInv'
  BY <1>1, ReadingStep
<1>2. ASSUME NEW p \in Requests, Step(p) \/ HangUp(p) PROVE NodeInv'
  <2>1. CASE \/ Get(p) \/ ReadNode(p) \/ ReadUsers(p) \/ Answer(p)
             \/ ListServers(p) \/ HangUp(p)
    BY <2>1, ReadingStep
  <2>2. CASE Fill(p)
    BY <2>2, FillStep
  <2>3. CASE Add(p)
    BY <2>3, AddStep
  <2>4. CASE DeleteKeys(p)
    BY <2>4, DeleteStep
  <2>5. CASE Beat(p) \/ ManageSave(p)
    BY <2>5, AdminsStep
  <2> QED
    BY <1>2, <2>1, <2>2, <2>3, <2>4, <2>5 DEF Step
<1>3. CASE EditUser
  BY <1>3, AdminsStep
<1>4. ASSUME NEW n \in Nodes,
             CreateNode(n) \/ EditNode(n) \/ DropNode(n) \/ Expire(n)
      PROVE  NodeInv'
  BY <1>4, AdminsStep, ExpireStep
<1>5. CASE UNCHANGED nodesVars
  <2>1. UNCHANGED <<servers, admits, active, used, cache, request, edits, beats, settled, late>>
    BY <1>5 DEF nodesVars
  <2>2. NodeTables' /\ NodesAreTold' /\ nodes' = nodes
    BY <2>1 DEF NodeInv, NodeTables, NodesAreTold, Told, nodes
  <2>3. \A n \in Nodes : \A x : (cache[n] = Miss \/ Told(n, x)) => Told(n, x)'
    BY <2>1 DEF Told
  <2> QED
    BY <2>1, <2>2, <2>3, WorldStep DEF NodeInv
<1> QED
  BY <1>1, <1>2, <1>3, <1>4, <1>5 DEF NodesNext

\* The invariant holds in every reachable state.
LEMMA NodeAlways == NodesSpec => []NodeInv
<1>1. NodesInit => NodeInv
  BY NodeInitInv
<1>2. NodeInv /\ [NodesNext]_(nodesVars) => NodeInv'
  BY NodeNextInv
<1> QED
  BY <1>1, <1>2, PTL DEF NodesSpec

\* For any number of requests and nodes, failing keys and edits: a pull tells the
\* traffic of every push that was answered before it began, but for the lists
\* that came late and the deletions that failed.
THEOREM TrafficIsTold == NodesSpec => []PushIsTold
<1>0. NodesSpec => []NodeInv
  BY NodeAlways
<1>1. NodeInv => PushIsTold
  BY DEF NodeInv, Fits, PushIsTold
<1> QED
  BY <1>0, <1>1, PTL

\* What an admin last made of a node stays so: a heartbeat takes it back only if
\* it read the row before that edit and writes it after.
THEOREM AdminEditsStick == NodesSpec => EditsStick
<1>0. NodesSpec => []NodeInv
  BY NodeAlways
<1> DEFINE Kept == admits' # admits =>
                     \/ edits' # edits
                     \/ \E p \in Requests :
                          request[p].pc = "beat" /\ request[p].behind /\ request'[p].pc = "idle"
<1>1. NodeInv /\ [NodesNext]_(nodesVars) => [Kept]_(nodesVars)
  <2> SUFFICES ASSUME NodeInv, NodesNext, admits' # admits
               PROVE  \/ edits' # edits
                      \/ \E p \in Requests :
                           request[p].pc = "beat" /\ request[p].behind /\ request'[p].pc = "idle"
    BY DEF nodesVars
  <2>1. Edit => edits' # edits
    <3>1. edits \in 0 .. MaxEdits /\ MaxEdits \in Nat
      BY NodeUsersAssumption DEF NodeInv, NodeTables
    <3> QED
      BY <3>1 DEF Edit
  <2>2. ASSUME NEW n \in Nodes, CreateNode(n) \/ EditNode(n) \/ DropNode(n)
        PROVE  edits' # edits
    BY <2>1, <2>2 DEF CreateNode, EditNode, DropNode
  <2>3. ASSUME NEW p \in Requests, Beat(p)
        PROVE  request[p].pc = "beat" /\ request[p].behind /\ request'[p].pc = "idle"
    <3>1. PICK n \in Nodes, b \in BOOLEAN : n = request[p].node /\ b = request[p].admitted
      BY DEF NodeInv, NodeTables, RequestSet
    <3>2. request[p].pc = "beat" /\ Update({p}, n, With(n, b))
      BY <2>3, <3>1 DEF Beat
    <3>3. /\ admits' \subseteq Nodes
          /\ \A m \in Nodes : m # n \/ n \notin nodes => (m \in admits' <=> m \in admits)
          /\ n \in nodes => (n \in admits' <=> b)
          /\ request'[p] = NoRequest
      BY <3>2, UpdateEffect
    <3>4. NoRequest.pc = "idle"
      BY IdleNode DEF NodeInv
    <3>5. admits \subseteq Nodes
      BY DEF NodeInv, NodeTables
    <3>6. ASSUME ~request[p].behind PROVE FALSE
      <4>1. b <=> n \in admits
        BY <3>1, <3>2, <3>6 DEF NodeInv, Fits, Holding
      <4>2. \A m \in Nodes : m \in admits' <=> m \in admits
        BY <3>3, <4>1
      <4> QED
        BY <3>3, <3>5, <4>2
    <3> QED
      BY <3>2, <3>3, <3>4, <3>6
  <2>4. ASSUME NEW p \in Requests, NEW n \in Nodes,
               Pull(p, n) \/ Push(p, n) \/ Alive(p, n) \/ ManageRead(p, n)
        PROVE  FALSE
    BY <2>4 DEF Pull, Push, Alive, ManageRead, ReadRow
  <2>5. ASSUME NEW p \in Requests, Step(p) \/ HangUp(p), ~Beat(p)
        PROVE  edits' # edits
    BY <2>1, <2>5 DEF Step, HangUp, Get, ReadNode, ReadUsers, Fill,
       Answer, Add, ListServers, DeleteKeys, ManageSave
  <2>6. CASE EditUser \/ \E n \in Nodes : Expire(n)
    BY <2>6 DEF EditUser, Expire
  <2> QED
    BY <2>2, <2>3, <2>4, <2>5, <2>6 DEF NodesNext
<1> HIDE DEF Kept
<1>2. NodesSpec => [][Kept]_(nodesVars)
  BY <1>0, <1>1, PTL DEF NodesSpec
<1> QED
  BY <1>2 DEF Kept, EditsStick

\* Tables, keys, requests and the history keep their types; no key and no request
\* tells more traffic than there is.
THEOREM NodeTypes == NodesSpec => []NodesTypeOK
<1>0. NodesSpec => []NodeInv
  BY NodeAlways
<1>1. NodeInv => NodesTypeOK
  <2> SUFFICES ASSUME NodeInv PROVE NodesTypeOK
    OBVIOUS
  <2>1. NodeTables /\ used \in Nat
    BY NodeNumbers DEF NodeInv
  <2>2. cache \in [Nodes -> [listed : BOOLEAN, used : 0 .. used] \cup {Miss}]
    <3>1. ASSUME NEW n \in Nodes
          PROVE  cache[n] \in [listed : BOOLEAN, used : 0 .. used] \cup {Miss}
      <4>1. cache[n] # Miss => cache[n] \in Lists /\ cache[n].used <= used
        BY <2>1 DEF NodeTables
      <4> QED
        BY <2>1, <4>1 DEF Lists
    <3>2. cache = [n \in Nodes |-> cache[n]]
      BY <2>1 DEF NodeTables
    <3> QED
      BY <3>1, <3>2
  <2>3. ASSUME NEW p \in Requests
        PROVE  request[p] \in
                 [pc : {"idle", "get", "node", "users", "fill", "answer", "add", "servers",
                        "delete", "beat", "save"},
                  node : Nodes, admitted : BOOLEAN, list : Lists, keys : SUBSET Nodes,
                  owed : 0 .. used, excused : BOOLEAN, behind : BOOLEAN]
    <3>1. request[p] \in RequestSet /\ request[p].owed <= used
      BY <2>1 DEF NodeInv, NodeTables, Fits
    <3>2. request[p].owed \in 0 .. MaxUsed
      BY <3>1 DEF RequestSet
    <3>3. request[p].owed \in 0 .. used
      BY <2>1, <3>1, <3>2
    <3> QED
      BY <3>1, <3>3 DEF RequestSet
  <2>4. request = [p \in Requests |-> request[p]]
    BY <2>1 DEF NodeTables
  <2> QED
    BY <2>1, <2>2, <2>3, <2>4 DEF NodeTables, NodesTypeOK
<1> QED
  BY <1>0, <1>1, PTL
==============================================================================
