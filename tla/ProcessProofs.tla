----------------------------- MODULE ProcessProofs ----------------------------
(***************************************************************************)
(* Proofs about Process, for every size of a GiB, every quota that is      *)
(* sent, any number of plans, accounts, requests and starts:               *)
(*   - the database is closed under running requests only when the         *)
(*     deadline of the shutdown has passed;                                *)
(*   - the table of plans is well formed, every quota in it is stored in   *)
(*     bytes, and saving a plan as it is shown costs it less than a GiB,   *)
(*     once;                                                               *)
(*   - an owner who was told of a registration signs in to that account;   *)
(*   - each default row is there once when the process serves, or its      *)
(*     absence is accounted for.                                           *)
(***************************************************************************)
EXTENDS Process, FiniteSetTheorems, WellFoundedInduction, TLAPS

-----------------------------------------------------------------------------
(* The shutdown.                                                           *)

Drain == phase \in {"closing", "waiting"} /\ running # {} => late

LEMMA DrainInit == Init => Drain
  BY DEF Init, Drain, Account!Init

LEMMA DrainStep == Drain /\ [Next]_vars => Drain'
<1> SUFFICES ASSUME Drain, [Next]_vars PROVE Drain'
  OBVIOUS
<1> USE DEF Drain
<1>1. CASE Start \/ SeedOne \/ SkipDemo \/ NextTable
  BY <1>1 DEF Start, SeedOne, SkipDemo, NextTable, requests, history
<1>2. CASE Ask
  BY <1>2 DEF Ask
<1>3. ASSUME NEW r \in running, Proceed(r) PROVE Drain'
  BY <1>3 DEF Proceed, history
<1>4. CASE EditPlan \/ DropRow \/ EditUser
  BY <1>4 DEF EditPlan, DropRow, EditUser, Edits
<1>5. CASE ListenFails \/ Signal \/ ListenEnds
  BY <1>5 DEF ListenFails, Signal, ListenEnds, requests, history
<1>6. CASE Drained \/ CleanUp
  BY <1>6 DEF Drained, CleanUp, requests, history
<1>7. CASE Deadline
  BY <1>7 DEF Deadline
<1>8. CASE Exit \/ Fatal \/ Crash
  BY <1>8 DEF Exit, Fatal, Crash, Gone
<1>9. CASE UNCHANGED vars
  BY <1>9 DEF vars, requests, history
<1> QED BY <1>1, <1>2, <1>3, <1>4, <1>5, <1>6, <1>7, <1>8, <1>9 DEF Next

\* The cleanup of main finds no request running, or the drain has been given up: for
\* any number of requests and starts, wherever the process is killed.
THEOREM DrainsFirst == Spec => []DrainedFirst
<1>1. Drain => DrainedFirst
  BY DEF Drain, DrainedFirst
<1> QED BY DrainInit, DrainStep, <1>1, PTL DEF Spec

-----------------------------------------------------------------------------
(* The two conversions of a quota.                                         *)

LEMMA Constants == Gib \in Nat /\ Gib > 0 /\ Typed \subseteq Int
  BY ProcessAssumption DEF Plan!PlansAssumption

\* What is stored is nothing, or at least a GiB.
LEMMA NormalStores ==
  ASSUME NEW value \in Int
  PROVE  /\ Plan!normalizeAdminPlanTransferLimit(value) \in Nat
         /\ \/ Plan!normalizeAdminPlanTransferLimit(value) = 0
            \/ Plan!normalizeAdminPlanTransferLimit(value) >= Gib
<1> USE Constants
<1>1. CASE value <= 0
  BY <1>1 DEF Plan!normalizeAdminPlanTransferLimit
<1>2. CASE value >= Gib
  BY <1>2 DEF Plan!normalizeAdminPlanTransferLimit
<1>3. CASE value > 0 /\ value < Gib
  <2>1. value * Gib \in Nat /\ value * Gib >= Gib
    BY <1>3
  <2> QED BY <1>3, <2>1 DEF Plan!normalizeAdminPlanTransferLimit
<1> QED BY <1>1, <1>2, <1>3

\* What adminPlanFetch shows is a number, for the next request.
LEMMA ShownIsNumber ==
  ASSUME NEW quota \in Nat
  PROVE  Plan!bytesToGiBValue(quota) \in Int
  BY Constants DEF Plan!bytesToGiBValue

LEMMA Division ==
  ASSUME NEW a \in Nat, NEW b \in Nat, b > 0
  PROVE  a \div b \in Nat /\ (a \div b) * b <= a /\ a < (a \div b) * b + b
  OBVIOUS

\* A quota that is shown and comes back is the whole number of GiB below it, and stays
\* that from then on.
LEMMA RoundTrip ==
  ASSUME NEW quota \in Nat, quota = 0 \/ quota >= Gib, quota < Gib * Gib
  PROVE  LET once == Plan!normalizeAdminPlanTransferLimit(Plan!bytesToGiBValue(quota))
         IN  /\ once <= quota /\ quota < once + Gib
             /\ Plan!normalizeAdminPlanTransferLimit(Plan!bytesToGiBValue(once)) = once
<1> USE Constants
<1>1. CASE quota = 0
  BY <1>1 DEF Plan!normalizeAdminPlanTransferLimit, Plan!bytesToGiBValue
<1>2. CASE quota >= Gib
  <2> DEFINE n == quota \div Gib
  <2>1. n \in Nat /\ n * Gib <= quota /\ quota < n * Gib + Gib
    BY Division
  <2>2. n >= 1
    BY <1>2, <2>1
  <2>3. n < Gib
    <3> SUFFICES ASSUME n >= Gib PROVE FALSE
      BY <2>1
    <3>1. n * Gib >= Gib * Gib
      BY <2>1
    <3> QED BY <2>1, <3>1
  <2>4. Plan!bytesToGiBValue(quota) = n
    BY <1>2 DEF Plan!bytesToGiBValue
  <2>5. Plan!normalizeAdminPlanTransferLimit(n) = n * Gib
    BY <2>1, <2>2, <2>3 DEF Plan!normalizeAdminPlanTransferLimit
  <2>6. n * Gib >= Gib /\ (n * Gib) \div Gib = n
    BY <2>1, <2>2
  <2>7. Plan!bytesToGiBValue(n * Gib) = n
    BY <2>1, <2>6 DEF Plan!bytesToGiBValue
  <2> HIDE DEF n
  <2> QED BY <2>1, <2>4, <2>5, <2>7
<1> QED BY <1>1, <1>2

-----------------------------------------------------------------------------
(* The table of plans.                                                     *)

\* The rows, and what the seed has still to insert into the table.
Stored ==
  /\ Plan!TypeOK
  /\ Plan!StoredInBytes
  /\ table \in 1 .. 4
  /\ phase = "seeding" /\ table = 1 => todo \in {<<"Starter", "Pro">>, <<"Pro">>, <<>>}

\* A row of the table.
Row == [id : 1 .. lastPlan, name : PlanNames \cup {"Starter", "Pro"}, quota : Nat,
        show : BOOLEAN, sort : Nat]
Rows == lastPlan \in Nat /\ \A p \in plans : p \in Row /\ (p.quota = 0 \/ p.quota >= Gib)

LEMMA RowsMeans == Rows <=> Plan!TypeOK /\ Plan!StoredInBytes
  BY DEF Rows, Row, Plan!TypeOK, Plan!StoredInBytes

LEMMA RowsSame == Rows /\ UNCHANGED <<plans, lastPlan>> => Rows'
  BY DEF Rows, Row

\* A new row.
LEMMA Created ==
  ASSUME Rows, NEW name \in PlanNames \cup {"Starter", "Pro"}, NEW quota \in Nat,
         quota = 0 \/ quota >= Gib, NEW show \in BOOLEAN, NEW sort \in Nat,
         Plan!CreatePlan(name, quota, show, sort)
  PROVE  Rows'
  BY DEF Rows, Row, Plan!CreatePlan

\* A row that is written again.
LEMMA Saved ==
  ASSUME Rows, NEW p \in plans, NEW name \in PlanNames \cup {p.name}, NEW value \in Int,
         NEW show \in BOOLEAN, NEW sort \in Nat,
         Plan!adminPlanSave(p, name, value, show, sort)
  PROVE  Rows'
<1> DEFINE quota == Plan!normalizeAdminPlanTransferLimit(value)
           row == [p EXCEPT !.name = name, !.quota = quota, !.show = show, !.sort = sort]
<1>1. quota \in Nat /\ (quota = 0 \/ quota >= Gib)
  BY NormalStores
<1>2. plans' = (plans \ {p}) \cup {row} /\ lastPlan' = lastPlan
  BY DEF Plan!adminPlanSave
<1> HIDE DEF quota
<1>3. row \in Row /\ row.quota = quota
  BY <1>1 DEF Rows, Row
<1> HIDE DEF row
<1> QED BY <1>1, <1>2, <1>3 DEF Rows, Row

\* A new order.
LEMMA Sorted ==
  ASSUME Rows, NEW p \in plans, NEW q \in plans, Plan!adminPlanSort(<<p.id, q.id>>)
  PROVE  Rows'
<1> DEFINE ids == <<p.id, q.id>>
           new(x) == IF \E i \in DOMAIN ids : ids[i] = x.id
                     THEN [x EXCEPT !.sort = CHOOSE i \in DOMAIN ids : ids[i] = x.id] ELSE x
<1>1. plans' = {new(x) : x \in plans} /\ lastPlan' = lastPlan
  BY DEF Plan!adminPlanSort
<1>2. ASSUME NEW x \in plans PROVE new(x) \in Row /\ new(x).quota = x.quota
  <2> DEFINE place == CHOOSE i \in DOMAIN ids : ids[i] = x.id
  <2>1. x \in Row
    BY DEF Rows
  <2>2. CASE \E i \in DOMAIN ids : ids[i] = x.id
    <3>1. place \in DOMAIN ids
      BY <2>2
    <3>2. place \in Nat
      BY <3>1
    <3> HIDE DEF place
    <3>3. [x EXCEPT !.sort = place] \in Row /\ [x EXCEPT !.sort = place].quota = x.quota
      BY <2>1, <3>2 DEF Row
    <3> QED BY <2>2, <3>3 DEF place
  <2>3. CASE ~(\E i \in DOMAIN ids : ids[i] = x.id)
    BY <2>1, <2>3
  <2> QED BY <2>2, <2>3
<1> HIDE DEF new
<1> QED BY <1>1, <1>2 DEF Rows, Row

LEMMA Dropped ==
  ASSUME Rows, NEW p, Plan!adminPlanDrop(p)
  PROVE  Rows'
  BY DEF Rows, Row, Plan!adminPlanDrop

\* The two lists the seed may still have to insert.
LEMMA HeadOfTwo ==
  Head(<<"Starter", "Pro">>) = "Starter" /\ Tail(<<"Starter", "Pro">>) = <<"Pro">>
  OBVIOUS
LEMMA HeadOfOne == Head(<<"Pro">>) = "Pro" /\ Tail(<<"Pro">>) = <<>>
  OBVIOUS

LEMMA StoredInit == Init => Stored
  BY Constants DEF Init, Stored, Plan!Init, Plan!TypeOK, Plan!StoredInBytes

LEMMA StoredStep == Stored /\ [Next]_vars => Stored'
<1> SUFFICES ASSUME Stored, [Next]_vars PROVE Stored'
  OBVIOUS
<1> DEFINE Todo == phase = "seeding" /\ table = 1 => todo \in {<<"Starter", "Pro">>, <<"Pro">>, <<>>}
<1>a. Rows /\ table \in 1 .. 4 /\ Todo
  BY RowsMeans DEF Stored
<1>b. SUFFICES Rows' /\ (table \in 1 .. 4)' /\ Todo'
  <2>1. Rows' => Plan!TypeOK' /\ Plan!StoredInBytes'
    BY RowsMeans, PTL
  <2> QED BY <2>1 DEF Stored
<1>1. CASE Start
  <2>1. UNCHANGED <<plans, lastPlan>> /\ table' = 1 /\ todo' = Missing("plans")
    BY <1>1 DEF Start
  <2>2. Missing("plans") \in {<<"Starter", "Pro">>, <<"Pro">>, <<>>}
    BY DEF Missing, Defaults
  <2> QED BY <1>a, <2>1, <2>2, RowsSame
<1>2. CASE SeedOne
  <2>1. Insert(Tables[table], Head(todo)) /\ todo' = Tail(todo) /\ UNCHANGED <<phase, table>>
        /\ phase = "seeding" /\ todo # <<>>
    BY <1>2 DEF SeedOne
  <2>2. CASE table = 1
    <3>1. todo \in {<<"Starter", "Pro">>, <<"Pro">>}
      BY <1>a, <2>1, <2>2
    <3>2. Head(todo) \in {"Starter", "Pro"} /\ Tail(todo) \in {<<"Pro">>, <<>>}
      BY <3>1, HeadOfTwo, HeadOfOne
    <3>3. Tables[table] = "plans"
      BY <2>2 DEF Tables
    <3>4. Plan!CreatePlan(Head(todo), Quota[Head(todo)], TRUE, Sort[Head(todo)])
      BY <2>1, <3>3 DEF Insert
    <3>5. Quota[Head(todo)] \in Nat /\ Quota[Head(todo)] >= Gib /\ Sort[Head(todo)] \in Nat
      BY <3>2, Constants DEF Quota, Sort
    <3>6. Rows'
      BY <1>a, <3>2, <3>4, <3>5, Created
    <3> QED BY <1>a, <2>1, <3>2, <3>6
  <2>3. CASE table # 1
    <3>1. Tables[table] # "plans"
      BY <1>a, <2>3 DEF Tables
    <3>2. UNCHANGED <<plans, lastPlan>>
      BY <2>1, <3>1 DEF Insert
    <3> QED BY <1>a, <2>1, <2>3, <3>2, RowsSame
  <2> QED BY <2>2, <2>3
<1>3. CASE SkipDemo
  BY <1>a, <1>3, RowsSame DEF SkipDemo, database
<1>4. CASE NextTable
  <2>1. UNCHANGED <<plans, lastPlan>>
    BY <1>4 DEF NextTable, database
  <2>2. table' \in 1 .. 4 /\ (phase' = "seeding" => table' # 1)
    BY <1>a, <1>4 DEF NextTable, Tables
  <2> QED BY <1>a, <2>1, <2>2, RowsSame
<1>5. CASE Ask
  BY <1>a, <1>5, RowsSame DEF Ask
<1>6. ASSUME NEW r \in running, Proceed(r) PROVE Rows' /\ (table \in 1 .. 4)' /\ Todo'
  BY <1>a, <1>6, RowsSame DEF Proceed
<1>7. CASE EditPlan
  <2>1. UNCHANGED <<phase, table, todo>>
    BY <1>7 DEF EditPlan, Edits
  <2>2. ASSUME NEW name \in PlanNames, NEW value \in Typed, Plan!adminPlanCreate(name, value, TRUE)
        PROVE Rows'
    BY <1>a, <2>2, Constants, NormalStores, Created DEF Plan!adminPlanCreate
  <2>3. ASSUME NEW p \in plans, NEW name \in PlanNames \cup {p.name}, NEW value \in Typed,
               \/ Plan!adminPlanSave(p, name, value, FALSE, p.sort)
               \/ Plan!adminPlanSave(p, name, value, TRUE, 99)
        PROVE Rows'
    <3>1. p.sort \in Nat
      BY <1>a DEF Rows, Row
    <3> QED BY <1>a, <2>3, <3>1, Constants, Saved
  <2>4. ASSUME NEW p \in plans, Plan!SaveUntouched(p) PROVE Rows'
    <3>1. p.quota \in Nat /\ p.show \in BOOLEAN /\ p.sort \in Nat
      BY <1>a DEF Rows, Row
    <3> QED BY <1>a, <2>4, <3>1, ShownIsNumber, Saved DEF Plan!SaveUntouched
  <2>5. ASSUME NEW p \in plans, NEW q \in plans, Plan!adminPlanSort(<<p.id, q.id>>) PROVE Rows'
    BY <1>a, <2>5, Sorted
  <2>6. ASSUME NEW p \in plans, Plan!adminPlanDrop(p) PROVE Rows'
    BY <1>a, <2>6, Dropped
  <2>7. Rows'
    BY <1>7, <2>2, <2>3, <2>4, <2>5, <2>6 DEF EditPlan
  <2> QED BY <1>a, <2>1, <2>7
<1>8. CASE DropRow \/ EditUser
  BY <1>a, <1>8, RowsSame DEF DropRow, EditUser, Edits
<1>9. CASE ListenFails \/ Signal \/ ListenEnds \/ Drained \/ Deadline \/ CleanUp
  BY <1>a, <1>9, RowsSame DEF ListenFails, Signal, ListenEnds, Drained, Deadline, CleanUp, database
<1>10. CASE Exit \/ Fatal \/ Crash
  BY <1>a, <1>10, RowsSame DEF Exit, Fatal, Crash, Gone, database
<1>11. CASE UNCHANGED vars
  BY <1>a, <1>11, RowsSame DEF vars, database
<1> QED BY <1>1, <1>2, <1>3, <1>4, <1>5, <1>6, <1>7, <1>8, <1>9, <1>10, <1>11 DEF Next

\* Every quota of the table is nothing or at least a GiB, whatever is sent; and a plan
\* that is saved as it is shown loses less than a GiB and keeps what is left.
THEOREM QuotasKept == Spec => []EditKeepsQuota
<1>1. Stored => EditKeepsQuota
  <2> SUFFICES ASSUME Stored PROVE Plan!StoredInBytes /\ Plan!EditKeepsQuota
    BY DEF EditKeepsQuota
  <2>1. \A p \in plans : p.quota \in Nat /\ (p.quota = 0 \/ p.quota >= Gib)
    BY RowsMeans DEF Stored, Rows, Row
  <2>2. Plan!EditKeepsQuota
    BY <2>1, RoundTrip DEF Plan!EditKeepsQuota
  <2> QED BY <2>2 DEF Stored
<1> QED BY StoredInit, StoredStep, <1>1, PTL DEF Spec

\* The table of plans is well formed, whatever is sent and wherever the seed is cut short.
THEOREM StoredAlways == Spec => []Stored
  BY StoredInit, StoredStep, PTL DEF Spec

-----------------------------------------------------------------------------
(* The accounts.                                                           *)

\* What the rows of accounts and the requests of several steps look like.
Email == Account!Addresses(People) \cup {Account!Address(Drawn, FALSE)}
PlanId == Nat \cup {NoPlan}
Profile == [email : Email, plan : PlanId, by : {"seed", "register", "admin"}]
Request == [n : Nat, at : {"look", "insert", "issue", "generate"}, email : Email,
            left : Int, plan : PlanId, id : Nat]
Seeded == {Account!Address(Root, FALSE), Account!Address(Demo, FALSE)}

\* Two rows share an address only if it was drawn; a registration and the seed store it
\* in lower case.
Members ==
  /\ users \in Seq(Profile)
  /\ \A i, j \in DOMAIN users :
       users[i].email = users[j].email /\ users[i].email.name # Drawn => i = j
  /\ \A i \in DOMAIN users :
       /\ users[i].by = "register" => users[i].email.name \in People /\ ~users[i].email.capitals
       /\ users[i].by = "seed" => users[i].email \in Seeded

\* A registration is about an address in lower case, and from its insert on about a row.
Sound(r) ==
  /\ r \in Request /\ r.n \in 1 .. asked
  /\ r.at # "generate" => r.email.name \in People /\ ~r.email.capitals
  /\ r.at = "issue" => r.id \in DOMAIN users

Owned ==
  /\ Members
  /\ asked \in Nat /\ \A r \in running : Sound(r)
  /\ told \subseteq DOMAIN users

LEMMA Names == Drawn \notin People /\ Asked \subseteq People /\ Root \in People /\ Demo \in People
               /\ Root # Demo
  BY ProcessAssumption DEF Account!AccountsAssumption

\* An address is a record of two fields.
LEMMA EmailMeans ==
  ASSUME NEW e \in Email
  PROVE  e \in [name : People \cup {Drawn}, capitals : BOOLEAN]
<1>1. ASSUME e \in Account!Addresses(People) PROVE e \in [name : People, capitals : BOOLEAN]
  BY <1>1 DEF Account!Addresses, Account!Address
<1>2. CASE e = Account!Address(Drawn, FALSE)
  BY <1>2 DEF Account!Address
<1> QED BY <1>1, <1>2 DEF Email

LEMMA AddressIs ==
  ASSUME NEW name \in People, NEW capitals \in BOOLEAN
  PROVE  LET e == Account!Address(name, capitals)
         IN  e \in Email /\ e.name = name /\ e.capitals = capitals
  BY DEF Email, Account!Addresses, Account!Address

LEMMA LowerIs ==
  ASSUME NEW e \in Email
  PROVE  LET l == Account!lower(e) IN l.name = e.name /\ l.capitals = FALSE
  BY DEF Account!lower, Account!Address

LEMMA AskedEmail ==
  ASSUME NEW e \in Account!Addresses(Asked)
  PROVE  e \in Email
<1>1. e \in [name : Asked, capitals : BOOLEAN]
  BY DEF Account!Addresses, Account!Address
<1>2. e.name \in People /\ e.capitals \in BOOLEAN /\ e = Account!Address(e.name, e.capitals)
  BY <1>1, Names DEF Account!Address
<1> QED BY <1>2, AddressIs

LEMMA SameEmail ==
  ASSUME NEW e \in Email, NEW f \in Email, e.name = f.name, e.capitals = f.capitals
  PROVE  e = f
  BY EmailMeans

LEMMA Element ==
  ASSUME NEW S, NEW s \in Seq(S), NEW i \in DOMAIN s
  PROVE  s[i] \in S
  OBVIOUS

LEMMA RowIs ==
  ASSUME Members, NEW i \in DOMAIN users
  PROVE  /\ users[i] \in Profile
         /\ users[i].email \in Email /\ users[i].plan \in PlanId
         /\ users[i].by \in {"seed", "register", "admin"}
<1>1. users[i] \in Profile
  BY Element DEF Members
<1> QED BY <1>1 DEF Profile

\* Every set of numbers that is not empty has a least one.
LEMMA Least ==
  ASSUME NEW S \in SUBSET Nat, S # {}
  PROVE  \E m \in S : \A j \in S : m <= j
<1> DEFINE R == OpToRel(<, Nat)
<1>1. \A a, b \in Nat : <<a, b>> \in R <=> a < b
  BY DEF OpToRel
<1>2. IsWellFoundedOn(R, Nat)
  BY NatLessThanWellFounded
<1> HIDE DEF R
<1>3. PICK m \in S : \A j \in S : ~(<<j, m>> \in R)
  BY <1>2, WFMin
<1>4. ASSUME NEW j \in S PROVE m <= j
  <2>1. ~(j < m)
    BY <1>1, <1>3
  <2> QED BY <2>1
<1> QED BY <1>4

\* The first row that is found is one that was found.
LEMMA FirstMatches ==
  ASSUME Members, NEW e, Account!Matches(e) # {}
  PROVE  Account!UserByEmail(e) \in Account!Matches(e)
<1> DEFINE S == Account!Matches(e)
<1>1. S \in SUBSET Nat
  BY DEF Members, Account!Matches
<1> HIDE DEF S
<1>2. \E m \in S : \A j \in S : m <= j
  BY <1>1, Least DEF S
<1>3. Account!UserByEmail(e) = CHOOSE m \in S : \A j \in S : m <= j
  BY DEF Account!UserByEmail, S
<1>4. Account!UserByEmail(e) \in S
  BY <1>2, <1>3
<1> QED BY <1>4 DEF S

LEMMA OwnerInvariant == Owned => OwnerSignsIn
<1> SUFFICES ASSUME Owned, NEW id \in told, users[id].by = "register",
                    users[Account!UserByEmail(users[id].email)].email.capitals = FALSE
             PROVE  Account!UserByEmail(users[id].email) = id
  <2>1. ASSUME Owned, NEW id \in told, users[id].by = "register"
        PROVE  users[Account!UserByEmail(users[id].email)].email.capitals \in BOOLEAN
    <3>1. Members /\ id \in DOMAIN users
      BY <2>1 DEF Owned
    <3>2. id \in Account!Matches(users[id].email)
      BY <3>1 DEF Account!Matches
    <3>3. Account!UserByEmail(users[id].email) \in DOMAIN users
      BY <3>1, <3>2, FirstMatches DEF Account!Matches
    <3>4. users[Account!UserByEmail(users[id].email)].email \in Email
      BY <3>1, <3>3, RowIs
    <3> QED BY <3>4, EmailMeans
  <2> QED BY <2>1 DEF OwnerSignsIn, Account!OwnerSignsIn
<1> DEFINE e == users[id].email
           first == Account!UserByEmail(e)
<1>1. Members /\ id \in DOMAIN users
  BY DEF Owned
<1>2. id \in Account!Matches(e)
  BY <1>1 DEF Account!Matches
<1>3. first \in Account!Matches(e)
  BY <1>1, <1>2, FirstMatches
<1>4. first \in DOMAIN users /\ Account!lower(users[first].email) = Account!lower(e)
  BY <1>3 DEF Account!Matches
<1>5. e \in Email /\ e.name \in People /\ e.capitals = FALSE
  <2>1. e \in Email /\ e.name \in People /\ ~e.capitals
    BY <1>1, RowIs DEF Members
  <2>2. e.capitals \in BOOLEAN
    BY <2>1, EmailMeans
  <2> QED BY <2>1, <2>2
<1>6. users[first].email \in Email
  BY <1>1, <1>4, RowIs
<1> HIDE DEF first, e
<1>7. users[first].email.name = e.name
  BY <1>4, <1>5, <1>6, LowerIs
<1>8. users[first].email.capitals = FALSE
  BY DEF first, e
<1>9. users[first].email = e
  BY <1>5, <1>6, <1>7, <1>8, SameEmail
<1>10. e.name # Drawn
  BY <1>5, Names
<1>11. first = id
  BY <1>1, <1>4, <1>9, <1>10 DEF Members, e
<1> QED BY <1>11 DEF first, e

-----------------------------------------------------------------------------
(* Where the seed is, and how the accounts change.                         *)

\* What is left to insert into a table: the end of its two defaults.  While the table of
\* accounts is filled it holds nothing but the first of them.
Rest(k) == LET two == Defaults[Tables[k]] IN {two, <<two[2]>>, <<>>}
Progress ==
  /\ table \in 1 .. 4
  /\ phase = "seeding" => todo \in Rest(table)
  /\ phase # "seeding" => table = 1 /\ todo = <<>>
  /\ phase = "seeding" /\ table = 4 /\ todo # <<>> =>
       \A i \in DOMAIN users : todo = <<Demo>> /\ users[i].email = Account!Address(Root, FALSE)

LEMMA Two ==
  ASSUME NEW a, NEW b
  PROVE  /\ Head(<<a, b>>) = a /\ Tail(<<a, b>>) = <<b>> /\ Head(<<b>>) = b /\ Tail(<<b>>) = <<>>
         /\ <<a, b>> # <<>> /\ <<b>> # <<>> /\ <<a, b>> # <<b>>
         /\ <<a, b>>[1] = a /\ <<a, b>>[2] = b /\ DOMAIN <<a, b>> = {1, 2}
         /\ <<b>>[1] = b /\ DOMAIN <<b>> = {1} /\ DOMAIN <<>> = {}
  OBVIOUS

LEMMA FourTables ==
  /\ Tables[1] = "plans" /\ Tables[2] = "notices" /\ Tables[3] = "servers" /\ Tables[4] = "users"
  /\ Len(Tables) = 4 /\ DOMAIN Tables = 1 .. 4
  BY DEF Tables

\* Each has two defaults.
LEMMA Pairs ==
  ASSUME NEW k \in 1 .. 4
  PROVE  LET two == Defaults[Tables[k]] IN two = <<two[1], two[2]>> /\ two[1] # two[2]
<1>1. CASE k = 1
  BY <1>1, FourTables DEF Defaults
<1>2. CASE k = 2
  BY <1>2, FourTables DEF Defaults
<1>3. CASE k = 3
  BY <1>3, FourTables DEF Defaults
<1>4. CASE k = 4
  BY <1>4, FourTables, Names DEF Defaults
<1> QED BY <1>1, <1>2, <1>3, <1>4

LEMMA MissingRest ==
  ASSUME NEW k \in 1 .. 4
  PROVE  Missing(Tables[k]) \in Rest(k)
  BY DEF Missing, Rest

\* Taking the head off leaves less.
LEMMA RestShrinks ==
  ASSUME NEW k \in 1 .. 4, NEW left \in Rest(k), left # <<>>
  PROVE  LET two == Defaults[Tables[k]]
         IN  /\ Tail(left) \in Rest(k)
             /\ \/ left = two /\ Head(left) = two[1] /\ Tail(left) = <<two[2]>>
                \/ left = <<two[2]>> /\ Head(left) = two[2] /\ Tail(left) = <<>>
<1> DEFINE two == Defaults[Tables[k]]
<1>1. PICK a, b : two = <<a, b>> /\ two[1] = a /\ two[2] = b
  BY Pairs
<1>2. (left = two \/ left = <<two[2]>>) /\ Rest(k) = {two, <<two[2]>>, <<>>}
  BY DEF Rest
<1> HIDE DEF two
<1>3. Head(<<a, b>>) = a /\ Tail(<<a, b>>) = <<b>> /\ Head(<<b>>) = b /\ Tail(<<b>>) = <<>>
  BY Two
<1>4. \/ left = two /\ Head(left) = two[1] /\ Tail(left) = <<two[2]>>
      \/ left = <<two[2]>> /\ Head(left) = two[2] /\ Tail(left) = <<>>
  BY <1>1, <1>2, <1>3
<1>5. Tail(left) \in Rest(k)
  BY <1>2, <1>4
<1> QED BY <1>4, <1>5 DEF two

LEMMA Appended ==
  ASSUME NEW S, NEW s \in Seq(S), NEW x \in S
  PROVE  LET t == Append(s, x)
         IN  /\ t \in Seq(S) /\ Len(t) = Len(s) + 1 /\ Len(s) \in Nat
             /\ DOMAIN t = DOMAIN s \cup {Len(s) + 1} /\ Len(s) + 1 \notin DOMAIN s
             /\ t[Len(s) + 1] = x /\ \A i \in DOMAIN s : t[i] = s[i]
  OBVIOUS

\* Rows are added, none of them by the seed.
Grows ==
  /\ DOMAIN users \subseteq DOMAIN users' /\ \A i \in DOMAIN users : users'[i] = users[i]
  /\ \A i \in DOMAIN users' : i \in DOMAIN users \/ users'[i].by # "seed"

\* A row that no other has the address of.
LEMMA Added ==
  ASSUME Members, NEW e \in Email, NEW plan \in PlanId, NEW by \in {"seed", "register", "admin"},
         \A i \in DOMAIN users : users[i].email = e => e.name = Drawn,
         by = "register" => e.name \in People /\ ~e.capitals, by = "seed" => e \in Seeded,
         Account!CreateUser(e, plan, by)
  PROVE  Members' /\ DOMAIN users \subseteq DOMAIN users' /\ Len(users) + 1 \in DOMAIN users'
         /\ Len(users) \in Nat
         /\ DOMAIN users' = DOMAIN users \cup {Len(users) + 1}
         /\ users'[Len(users) + 1] = [email |-> e, plan |-> plan, by |-> by]
         /\ \A i \in DOMAIN users : users'[i] = users[i]
<1> DEFINE row == [email |-> e, plan |-> plan, by |-> by]
           n == Len(users) + 1
<1>1. row \in Profile
  BY DEF Profile
<1>2. users' = Append(users, row) /\ users \in Seq(Profile)
  BY DEF Account!CreateUser, Members
<1>3. row.email = e /\ row.plan = plan /\ row.by = by
  OBVIOUS
<1> HIDE DEF row
<1>4. /\ users' \in Seq(Profile) /\ Len(users) \in Nat
      /\ DOMAIN users' = DOMAIN users \cup {n} /\ n \notin DOMAIN users
      /\ users'[n] = row /\ \A i \in DOMAIN users : users'[i] = users[i]
  BY <1>1, <1>2, Appended
<1> HIDE DEF n
<1>5. ASSUME NEW i \in DOMAIN users', NEW j \in DOMAIN users',
             users'[i].email = users'[j].email, users'[i].email.name # Drawn
      PROVE  i = j
  <2>1. CASE i \in DOMAIN users /\ j \in DOMAIN users
    BY <1>4, <1>5, <2>1 DEF Members
  <2>2. CASE i \in DOMAIN users /\ j = n
    BY <1>3, <1>4, <1>5, <2>2
  <2>3. CASE i = n /\ j \in DOMAIN users
    BY <1>3, <1>4, <1>5, <2>3
  <2> QED BY <1>4, <2>1, <2>2, <2>3
<1>6. ASSUME NEW i \in DOMAIN users'
      PROVE  /\ users'[i].by = "register" => users'[i].email.name \in People /\ ~users'[i].email.capitals
             /\ users'[i].by = "seed" => users'[i].email \in Seeded
  BY <1>3, <1>4 DEF Members
<1>7. Members'
  BY <1>4, <1>5, <1>6 DEF Members
<1> QED BY <1>4, <1>7 DEF n, row

LEMMA AddedGrows ==
  ASSUME Members, NEW e \in Email, NEW plan \in PlanId, NEW by \in {"register", "admin"},
         Account!CreateUser(e, plan, by)
  PROVE  Grows
<1> DEFINE row == [email |-> e, plan |-> plan, by |-> by]
<1>1. users' = Append(users, row) /\ users \in Seq(Profile)
  BY DEF Account!CreateUser, Members
<1>2. row.by # "seed" /\ row \in Profile
  BY DEF Profile
<1> HIDE DEF row
<1>3. /\ DOMAIN users' = DOMAIN users \cup {Len(users) + 1} /\ users'[Len(users) + 1] = row
      /\ \A i \in DOMAIN users : users'[i] = users[i]
  BY <1>1, <1>2, Appended
<1> QED BY <1>2, <1>3 DEF Grows

LEMMA NotTaken ==
  ASSUME NEW e, ~Account!Taken(e)
  PROVE  \A i \in DOMAIN users : users[i].email = e => e.name = Drawn
  BY DEF Account!Taken

LEMMA MembersSame == Members /\ UNCHANGED users => Members'
  BY DEF Members

\* A request stays what it is while rows and requests are added.
LEMMA SoundStays ==
  ASSUME NEW r, Sound(r), DOMAIN users \subseteq DOMAIN users', asked \in Nat, asked' \in Nat, asked <= asked'
  PROVE  Sound(r)'
  BY DEF Sound, Request

\* So all of it stays while no request changes.
LEMMA OwnedSame ==
  ASSUME Owned, UNCHANGED <<users, asked, told>>, running' \subseteq running
  PROVE  Owned'
<1>1. \A r \in running' : Sound(r)'
  BY DEF Owned, Sound
<1> QED BY <1>1, MembersSame DEF Owned

\* A request begins.
LEMMA OwnedAsks ==
  ASSUME Owned, NEW at \in {"look", "generate"}, NEW e \in Email, NEW left \in Int,
         at # "generate" => e.name \in People /\ ~e.capitals,
         Account!Asks([n |-> 0, at |-> at, email |-> e, left |-> left, plan |-> NoPlan, id |-> 0])
  PROVE  Owned'
<1>1. PICK s : /\ s = [n |-> asked + 1, at |-> at, email |-> e, left |-> left, plan |-> NoPlan, id |-> 0]
               /\ running' = running \cup {s}
  <2> DEFINE r0 == [n |-> 0, at |-> at, email |-> e, left |-> left, plan |-> NoPlan, id |-> 0]
  <2>1. [r0 EXCEPT !.n = asked + 1] =
        [n |-> asked + 1, at |-> at, email |-> e, left |-> left, plan |-> NoPlan, id |-> 0]
    OBVIOUS
  <2>2. running' = running \cup {[r0 EXCEPT !.n = asked + 1]}
    BY DEF Account!Asks
  <2> QED BY <2>1, <2>2
<1>2. asked \in Nat /\ asked' = asked + 1 /\ UNCHANGED <<users, told>>
  BY DEF Owned, Account!Asks
<1>3. s \in Request /\ s.n = asked + 1 /\ s.at = at /\ s.email = e
  BY <1>1, <1>2 DEF Request, PlanId
<1>4. Sound(s)'
  BY <1>2, <1>3 DEF Sound, Request
<1>5. ASSUME NEW r \in running PROVE Sound(r)'
  BY <1>2, SoundStays DEF Owned
<1>6. Members' /\ told' \subseteq DOMAIN users'
  BY <1>2, MembersSame DEF Owned
<1> QED BY <1>1, <1>2, <1>4, <1>5, <1>6 DEF Owned

\* A request goes on, or ends.
LEMMA OwnedGoes ==
  ASSUME Owned, Members', DOMAIN users \subseteq DOMAIN users', UNCHANGED asked,
         told' \subseteq DOMAIN users',
         \A r \in running' : r \in running \/ Sound(r)'
  PROVE  Owned'
<1>1. ASSUME NEW r \in running, Sound(r) PROVE Sound(r)'
  BY <1>1, SoundStays DEF Owned
<1> QED BY <1>1 DEF Owned

\* passportRegister finds nobody who has the address.
LEMMA OwnedLooks ==
  ASSUME Owned, NEW r \in running, NEW plan \in PlanId, Account!RegisterLooks(r, plan)
  PROVE  Owned' /\ UNCHANGED users
<1>1. Sound(r) /\ r \in Request /\ r.at = "look" /\ UNCHANGED <<users, asked, told>>
  BY DEF Owned, Sound, Account!RegisterLooks
<1>2. PICK s : s = [r EXCEPT !.at = "insert", !.plan = plan]
  OBVIOUS
<1>3. s \in Request /\ s.at = "insert" /\ s.email = r.email /\ s.n = r.n
  BY <1>1, <1>2 DEF Request
<1>4. Sound(s)
  BY <1>1, <1>3 DEF Sound
<1>5. Sound(s)' /\ Members' /\ told' \subseteq DOMAIN users' /\ DOMAIN users \subseteq DOMAIN users'
  BY <1>1, <1>4, MembersSame DEF Owned, Sound
<1>6. \A x \in running' : x \in running \/ x = s
  BY <1>2 DEF Account!RegisterLooks, Account!Goes, Account!Ends
<1> QED BY <1>1, <1>5, <1>6, OwnedGoes

\* It inserts the account, unless the index keeps it from it.
LEMMA OwnedInserts ==
  ASSUME Owned, NEW r \in running, Account!RegisterInserts(r)
  PROVE  Owned' /\ Grows
<1>1. Sound(r) /\ r \in Request /\ r.at = "insert" /\ UNCHANGED <<asked, told>> /\ Members
  BY DEF Owned, Sound, Account!RegisterInserts
<1>2. CASE Account!Taken(r.email)
  <2>1. Owned' /\ UNCHANGED users
    BY <1>1, <1>2, OwnedSame DEF Account!RegisterInserts, Account!Ends
  <2> QED BY <2>1 DEF Grows
<1>3. CASE ~Account!Taken(r.email)
  <2>1. Account!CreateUser(r.email, r.plan, "register")
    BY <1>3 DEF Account!RegisterInserts
  <2>2. r.email \in Email /\ r.plan \in PlanId /\ r.email.name \in People /\ ~r.email.capitals
    BY <1>1 DEF Sound, Request
  <2>3. /\ Members' /\ DOMAIN users \subseteq DOMAIN users' /\ Len(users) + 1 \in DOMAIN users'
        /\ Len(users) \in Nat
    BY <1>1, <1>3, <2>1, <2>2, NotTaken, Added
  <2>4. PICK s : s = [r EXCEPT !.at = "issue", !.id = Len(users) + 1]
    OBVIOUS
  <2>5. s \in Request /\ s.at = "issue" /\ s.email = r.email /\ s.n = r.n /\ s.id = Len(users) + 1
    <3>1. Len(users) + 1 \in Nat
      BY <2>3
    <3> QED BY <1>1, <2>4, <3>1 DEF Request
  <2>6. Sound(s)'
    BY <1>1, <2>2, <2>3, <2>5 DEF Sound, Request
  <2>7. \A x \in running' : x \in running \/ x = s
    BY <1>3, <2>4 DEF Account!RegisterInserts, Account!Goes
  <2>8. told' \subseteq DOMAIN users'
    BY <1>1, <2>3 DEF Owned
  <2>9. Grows
    BY <1>1, <2>1, <2>2, AddedGrows
  <2> QED BY <1>1, <2>3, <2>6, <2>7, <2>8, <2>9, OwnedGoes
<1> QED BY <1>2, <1>3

\* It answers, and the owner of the account may get to know of it.
LEMMA OwnedAnswers ==
  ASSUME Owned, NEW r \in running, NEW issued \in BOOLEAN, Account!RegisterAnswers(r, issued)
  PROVE  Owned' /\ UNCHANGED users
<1>1. Sound(r) /\ r.at = "issue" /\ UNCHANGED <<users, asked>> /\ running' \subseteq running
  BY DEF Owned, Account!RegisterAnswers, Account!Ends
<1>2. told' \subseteq DOMAIN users'
  BY <1>1 DEF Owned, Sound, Account!RegisterAnswers
<1>3. Members'
  BY <1>1, MembersSame DEF Owned
<1> QED BY <1>1, <1>2, <1>3, OwnedGoes

\* A turn of adminUserGenerate.
LEMMA OwnedGenerates ==
  ASSUME Owned, NEW r \in running, Account!GenerateInserts(r)
  PROVE  Owned' /\ Grows
<1>1. Sound(r) /\ r \in Request /\ r.at = "generate" /\ UNCHANGED <<asked, told>> /\ Members
  BY DEF Owned, Sound, Account!GenerateInserts
<1>2. CASE Account!Taken(r.email)
  <2>1. Owned' /\ UNCHANGED users
    BY <1>1, <1>2, OwnedSame DEF Account!GenerateInserts, Account!Ends
  <2> QED BY <2>1 DEF Grows
<1>3. CASE ~Account!Taken(r.email)
  <2>1. Account!CreateUser(r.email, r.plan, "admin")
    BY <1>3 DEF Account!GenerateInserts
  <2>2. r.email \in Email /\ r.plan \in PlanId /\ r.left \in Int
    BY <1>1 DEF Request
  <2>3. Members' /\ DOMAIN users \subseteq DOMAIN users'
    BY <1>1, <1>3, <2>1, <2>2, NotTaken, Added
  <2>4. PICK s : s = [r EXCEPT !.left = @ - 1, !.email = Account!Address(Drawn, FALSE)]
    OBVIOUS
  <2>5. s \in Request /\ s.at = "generate" /\ s.n = r.n
    <3>1. Account!Address(Drawn, FALSE) \in Email /\ r.left - 1 \in Int
      BY <2>2 DEF Email
    <3> QED BY <1>1, <2>4, <3>1 DEF Request
  <2>6. Sound(s)'
    BY <1>1, <2>5 DEF Sound, Request
  <2>7. \A x \in running' : x \in running \/ x = s
    BY <1>3, <2>4 DEF Account!GenerateInserts, Account!Goes, Account!Ends
  <2>8. told' \subseteq DOMAIN users'
    BY <1>1, <2>3 DEF Owned
  <2>9. Grows
    BY <1>1, <2>1, <2>2, AddedGrows
  <2> QED BY <1>1, <2>3, <2>6, <2>7, <2>8, <2>9, OwnedGoes
<1> QED BY <1>2, <1>3

\* adminUserUpdate: a row gets an address that no other has.
LEMMA OwnedUpdate ==
  ASSUME Owned, NEW id \in DOMAIN users, NEW address \in Account!Addresses(Asked),
         Account!adminUserUpdate(id, address)
  PROVE  /\ Owned' /\ DOMAIN users' = DOMAIN users
         /\ \A i \in DOMAIN users : i # id => users'[i] = users[i]
         /\ users'[id].by = "admin"
<1> DEFINE row == [users[id] EXCEPT !.email = address, !.by = "admin"]
<1>1. Members /\ users \in Seq(Profile) /\ users[id] \in Profile
  BY RowIs DEF Owned, Members
<1>2. address \in Email
  BY AskedEmail
<1>3. row \in Profile /\ row.email = address /\ row.by = "admin"
  BY <1>1, <1>2 DEF Profile
<1>4. users' = [users EXCEPT ![id] = row]
  BY DEF Account!adminUserUpdate
<1> HIDE DEF row
<1>5. /\ users' \in Seq(Profile) /\ DOMAIN users' = DOMAIN users /\ users'[id] = row
      /\ \A i \in DOMAIN users : i # id => users'[i] = users[i]
  BY <1>1, <1>3, <1>4
<1>6. \A i \in DOMAIN users : users[i].email = address => address.name = Drawn
  BY NotTaken DEF Account!adminUserUpdate
<1>7. ASSUME NEW i \in DOMAIN users', NEW j \in DOMAIN users',
             users'[i].email = users'[j].email, users'[i].email.name # Drawn
      PROVE  i = j
  <2>1. CASE i # id /\ j # id
    BY <1>1, <1>5, <1>7, <2>1 DEF Members
  <2>2. CASE i # id /\ j = id
    BY <1>3, <1>5, <1>6, <1>7, <2>2
  <2>3. CASE i = id /\ j # id
    BY <1>3, <1>5, <1>6, <1>7, <2>3
  <2> QED BY <2>1, <2>2, <2>3
<1>8. ASSUME NEW i \in DOMAIN users'
      PROVE  /\ users'[i].by = "register" => users'[i].email.name \in People /\ ~users'[i].email.capitals
             /\ users'[i].by = "seed" => users'[i].email \in Seeded
  BY <1>1, <1>3, <1>5 DEF Members
<1>9. Members'
  BY <1>5, <1>7, <1>8 DEF Members
<1>10. UNCHANGED <<running, asked, told>>
  BY DEF Account!adminUserUpdate
<1>11. told' \subseteq DOMAIN users'
  BY <1>5, <1>10 DEF Owned
<1>12. Owned'
  BY <1>5, <1>9, <1>10, <1>11, OwnedGoes
<1> QED BY <1>3, <1>5, <1>12

\* One step of a request.
LEMMA OwnedProceeds ==
  ASSUME Stored, Owned, NEW r \in running, Proceed(r)
  PROVE  Owned' /\ Grows
<1>1. Rows /\ NoPlan \in PlanId
  BY RowsMeans DEF Stored, PlanId
<1>2. ASSUME UNCHANGED users PROVE Grows
  BY <1>2 DEF Grows
<1>3. CASE Account!RegisterInserts(r)
  BY <1>3, OwnedInserts
<1>4. ASSUME NEW issued \in BOOLEAN, Account!RegisterAnswers(r, issued) PROVE Owned' /\ Grows
  BY <1>2, <1>4, OwnedAnswers
<1>5. CASE Account!GenerateInserts(r)
  BY <1>5, OwnedGenerates
<1>6. ASSUME NEW p \in plans, Account!RegisterLooks(r, p.id) PROVE Owned' /\ Grows
  <2>1. p.id \in PlanId
    BY <1>1 DEF Rows, Row, PlanId
  <2> QED BY <1>2, <1>6, <2>1, OwnedLooks
<1>7. CASE Account!RegisterLooks(r, NoPlan)
  BY <1>1, <1>2, <1>7, OwnedLooks
<1> QED BY <1>3, <1>4, <1>5, <1>6, <1>7 DEF Proceed, Account!Proceed

LEMMA OwnedAsk ==
  ASSUME Owned, Ask
  PROVE  Owned' /\ UNCHANGED users
<1>1. Account!Ask
  BY DEF Ask
<1>2. PICK address \in Account!Addresses(Asked) :
        Account!passportRegister(address) \/ (\E count \in 1 .. 2 : Account!adminUserGenerate(address, count))
  BY <1>1 DEF Account!Ask
<1>3. address \in Email /\ Account!lower(address) \in Email
      /\ Account!lower(address).name \in People /\ ~Account!lower(address).capitals
  <2>1. address \in [name : Asked, capitals : BOOLEAN]
    BY DEF Account!Addresses, Account!Address
  <2>2. address.name \in People
    BY <2>1, Names
  <2> QED BY <2>2, AskedEmail, AddressIs DEF Account!lower
<1>4. UNCHANGED users
  BY <1>2 DEF Account!passportRegister, Account!adminUserGenerate, Account!Asks
<1>5. CASE Account!passportRegister(address)
  BY <1>3, <1>4, <1>5, OwnedAsks DEF Account!passportRegister
<1>6. ASSUME NEW count \in 1 .. 2, Account!adminUserGenerate(address, count) PROVE Owned'
  BY <1>3, <1>6, OwnedAsks DEF Account!adminUserGenerate
<1> QED BY <1>2, <1>4, <1>5, <1>6

\* The seed inserts a default account.
LEMMA OwnedSeeds ==
  ASSUME Owned, Progress, SeedOne, table = 4
  PROVE  /\ Owned'
         /\ DOMAIN users' = DOMAIN users \cup {Len(users) + 1}
         /\ \A i \in DOMAIN users : users'[i] = users[i]
         /\ LET row == users'[Len(users) + 1]
            IN  /\ row.email = Account!Address(Head(todo), FALSE)
                /\ row.plan \in {1, 2} /\ row.by = "seed"
         /\ \/ todo = <<Root, Demo>> /\ Head(todo) = Root /\ DOMAIN users = {} /\ todo' = <<Demo>>
            \/ todo = <<Demo>> /\ Head(todo) = Demo /\ todo' = <<>>
<1>1. phase = "seeding" /\ todo # <<>> /\ Insert(Tables[4], Head(todo)) /\ todo' = Tail(todo)
      /\ UNCHANGED <<asked, told, running>>
  BY DEF SeedOne, requests
<1>2. Defaults[Tables[4]] = <<Root, Demo>> /\ Defaults[Tables[4]][1] = Root /\ Defaults[Tables[4]][2] = Demo
  BY FourTables DEF Defaults
<1>3. \/ todo = <<Root, Demo>> /\ Head(todo) = Root /\ todo' = <<Demo>>
      \/ todo = <<Demo>> /\ Head(todo) = Demo /\ todo' = <<>>
  BY <1>1, <1>2, RestShrinks DEF Progress
<1>4. <<Root, Demo>> # <<Demo>>
  BY Two
<1>5. \A i \in DOMAIN users : todo = <<Demo>> /\ users[i].email = Account!Address(Root, FALSE)
  BY <1>1 DEF Progress
<1>6. todo = <<Root, Demo>> => DOMAIN users = {}
  BY <1>4, <1>5
<1> DEFINE d == Head(todo)
           plan == IF d = Root THEN 2 ELSE 1
<1>7. d \in {Root, Demo}
  BY <1>3
<1>8. Account!CreateUser(Account!Address(d, FALSE), plan, "seed")
  BY <1>1, FourTables DEF Insert
<1>9. Account!Address(d, FALSE) \in Email /\ Account!Address(d, FALSE) \in Seeded /\ plan \in PlanId
  BY <1>7, Names, AddressIs DEF Seeded, PlanId
<1>10. \A i \in DOMAIN users : users[i].email # Account!Address(d, FALSE)
  <2>1. Account!Address(Root, FALSE) # Account!Address(Demo, FALSE)
    BY Names, AddressIs
  <2> QED BY <1>3, <1>5, <1>6, <2>1
<1> HIDE DEF d, plan
<1>11. /\ Members' /\ DOMAIN users \subseteq DOMAIN users'
       /\ DOMAIN users' = DOMAIN users \cup {Len(users) + 1}
       /\ users'[Len(users) + 1] = [email |-> Account!Address(d, FALSE), plan |-> plan, by |-> "seed"]
       /\ \A i \in DOMAIN users : users'[i] = users[i]
  <2>1. Members
    BY DEF Owned
  <2>2. "seed" = "register" => FALSE
    OBVIOUS
  <2> HIDE DEF Account!CreateUser
  <2> QED BY <1>8, <1>9, <1>10, <2>1, <2>2, Added
<1>12. told' \subseteq DOMAIN users'
  BY <1>1, <1>11 DEF Owned
<1>13. Owned'
  BY <1>1, <1>11, <1>12, OwnedGoes
<1>14. plan \in {1, 2}
  BY DEF plan
<1>15. LET row == users'[Len(users) + 1]
       IN  row.email = Account!Address(d, FALSE) /\ row.plan \in {1, 2} /\ row.by = "seed"
  BY <1>11, <1>14
<1> QED BY <1>3, <1>6, <1>11, <1>13, <1>15 DEF d

LEMMA OwnedInit == Init => Owned /\ Progress
<1> SUFFICES ASSUME Init PROVE Owned /\ Progress
  OBVIOUS
<1>1. users = <<>> /\ running = {} /\ asked = 0 /\ told = {} /\ phase = "down" /\ table = 1 /\ todo = <<>>
  BY DEF Init, Account!Init
<1>2. <<>> \in Seq(Profile) /\ DOMAIN <<>> = {}
  BY Two
<1> QED BY <1>1, <1>2 DEF Owned, Members, Progress

LEMMA OwnedStep == Stored /\ Owned /\ Progress /\ [Next]_vars => Owned' /\ Progress'
<1> SUFFICES ASSUME Stored, Owned, Progress, [Next]_vars PROVE Owned' /\ Progress'
  OBVIOUS
<1> DEFINE accounts == <<users, running, asked, told>>
           seed == <<phase, table, todo>>
<1>a. UNCHANGED accounts => Owned'
  BY OwnedSame
<1>b. phase # "seeding" /\ UNCHANGED seed => Progress'
  BY DEF Progress
<1>c. UNCHANGED <<users, phase, table, todo>> => Progress'
  BY DEF Progress
<1>d. phase' # "seeding" /\ table' = 1 /\ todo' = <<>> => Progress'
  BY DEF Progress
<1>1. CASE Start
  <2>1. UNCHANGED accounts /\ phase' = "seeding" /\ table' = 1 /\ todo' = Missing("plans")
    BY <1>1 DEF Start, requests
  <2>2. todo' \in Rest(1)
    BY <2>1, MissingRest, FourTables
  <2> QED BY <1>a, <2>1, <2>2 DEF Progress
<1>2. CASE SeedOne
  <2>1. /\ phase = "seeding" /\ todo # <<>> /\ todo' = Tail(todo) /\ UNCHANGED <<phase, table, running, asked, told>>
        /\ Insert(Tables[table], Head(todo))
    BY <1>2 DEF SeedOne, requests
  <2>2. todo' \in Rest(table)
    BY <2>1, RestShrinks DEF Progress
  <2>3. CASE table # 4
    <3>1. Tables[table] # "users"
      BY <2>3 DEF Progress, Tables
    <3>2. UNCHANGED users
      BY <2>1, <3>1 DEF Insert
    <3> QED BY <1>a, <2>1, <2>2, <2>3, <3>2 DEF Progress
  <2>4. CASE table = 4
    <3>1. Owned'
      BY <1>2, <2>4, OwnedSeeds
    <3>2. todo' # <<>> => \A i \in DOMAIN users' : todo' = <<Demo>> /\ users'[i].email = Account!Address(Root, FALSE)
      <4> DEFINE n == Len(users) + 1
      <4>1. DOMAIN users' = DOMAIN users \cup {n} /\ users'[n].email = Account!Address(Head(todo), FALSE)
        BY <1>2, <2>4, OwnedSeeds
      <4>2. \/ Head(todo) = Root /\ DOMAIN users = {} /\ todo' = <<Demo>>
            \/ todo' = <<>>
        BY <1>2, <2>4, OwnedSeeds
      <4> HIDE DEF n
      <4> QED BY <4>1, <4>2
    <3> QED BY <2>1, <2>2, <2>4, <3>1, <3>2 DEF Progress
  <2> QED BY <2>3, <2>4
<1>3. CASE SkipDemo
  <2>1. UNCHANGED accounts /\ UNCHANGED <<phase, table>> /\ todo' = <<>> /\ phase = "seeding"
    BY <1>3 DEF SkipDemo, database, requests
  <2>2. <<>> \in Rest(table)
    BY DEF Rest
  <2> QED BY <1>a, <2>1, <2>2 DEF Progress
<1>4. CASE NextTable
  <2>1. UNCHANGED accounts /\ phase = "seeding" /\ todo = <<>>
    BY <1>4 DEF NextTable, database, requests
  <2>2. CASE table < 4
    <3>1. table' = table + 1 /\ todo' = Missing(Tables[table + 1]) /\ UNCHANGED phase /\ table + 1 \in 1 .. 4
      BY <1>4, <2>2, FourTables DEF NextTable, Progress
    <3>2. todo' \in Rest(table')
      BY <3>1, MissingRest
    <3>3. table' = 4 /\ todo' # <<>> => DOMAIN users = {}
      <4> SUFFICES ASSUME table' = 4, todo' # <<>> PROVE DOMAIN users = {}
        OBVIOUS
      <4>1. Empty("users")
        BY <3>1, FourTables DEF Missing
      <4> QED BY <4>1, Two DEF Empty
    <3> QED BY <1>a, <2>1, <3>1, <3>2, <3>3 DEF Progress
  <2>3. CASE ~(table < 4)
    <3>1. phase' = "serving" /\ table' = 1 /\ todo' = todo
      BY <1>4, <2>3, FourTables DEF NextTable
    <3> QED BY <1>a, <1>d, <2>1, <3>1
  <2> QED BY <2>2, <2>3
<1>5. CASE Ask
  BY <1>5, <1>c, OwnedAsk DEF Ask
<1>6. ASSUME NEW r \in running, Proceed(r) PROVE Owned' /\ Progress'
  BY <1>6, <1>b, OwnedProceeds DEF Proceed, Handling
<1>7. CASE EditPlan \/ DropRow
  <2>1. UNCHANGED accounts /\ UNCHANGED seed
    BY <1>7 DEF EditPlan, DropRow, Edits, requests
  <2> QED BY <1>a, <1>c, <2>1
<1>8. CASE EditUser
  <2>1. phase = "serving" /\ UNCHANGED seed
    BY <1>8 DEF EditUser, Edits
  <2> QED BY <1>8, <1>b, <2>1, OwnedUpdate DEF EditUser
<1>9. CASE ListenFails \/ Signal \/ ListenEnds \/ Drained \/ Deadline \/ CleanUp
  <2>1. UNCHANGED accounts /\ UNCHANGED <<table, todo>>
    BY <1>9 DEF ListenFails, Signal, ListenEnds, Drained, Deadline, CleanUp, database, requests
  <2>2. phase # "seeding" /\ phase' # "seeding"
    BY <1>9 DEF ListenFails, Signal, ListenEnds, Drained, Deadline, CleanUp
  <2> QED BY <1>a, <2>1, <2>2 DEF Progress
<1>10. CASE Exit \/ Fatal \/ Crash
  <2>1. Gone
    BY <1>10 DEF Exit, Fatal, Crash
  <2>2. Owned'
    BY <2>1, OwnedSame DEF Gone, database
  <2> QED BY <1>d, <2>1, <2>2 DEF Gone
<1>11. CASE UNCHANGED vars
  BY <1>a, <1>c, <1>11 DEF vars, database, requests
<1> QED BY <1>1, <1>2, <1>3, <1>4, <1>5, <1>6, <1>7, <1>8, <1>9, <1>10, <1>11 DEF Next

\* No two rows share an address that was not drawn, and every request of several steps
\* carries what its next step relies on.
THEOREM OwnedAlways == Spec => [](Owned /\ Progress)
  BY OwnedInit, OwnedStep, StoredAlways, PTL DEF Spec

\* Whoever was told of a registration signs in with its address to that account, unless
\* an admin has typed the address with capitals: for any number of registrations side by
\* side, accounts the admin makes or renames, and starts of the process.
THEOREM RegistrationsHold == Spec => []OwnerSignsIn
  BY OwnedAlways, OwnerInvariant, PTL

-----------------------------------------------------------------------------
(* The defaults.                                                           *)

\* A default is in its table; it is accounted for; it is among those that the seed is
\* about to insert; its table comes later.
There(k, d) ==
  CASE k = 1 -> \E p \in plans : p.name = d
    [] k = 4 -> \E i \in DOMAIN users : users[i].by = "seed" /\ users[i].email.name = d
    [] OTHER -> rows[Tables[k]][d] = 1
Gap(d) == d \in cut \cup dropped
ToDo(k, d) == phase = "seeding" /\ table = k /\ \E i \in DOMAIN todo : todo[i] = d
Ahead(k) == phase = "down" \/ (phase = "seeding" /\ table < k)

\* What is about to be inserted is not there; and whatever is not there is accounted for,
\* or is inserted before the process serves.
Pair(k) == {Defaults[Tables[k]][1], Defaults[Tables[k]][2]}
Filled(k) ==
  \A d \in Pair(k) :
    /\ ToDo(k, d) => ~There(k, d)
    /\ There(k, d) \/ Gap(d) \/ ToDo(k, d) \/ (Ahead(k) /\ Empty(Tables[k]))

\* The rows of the other two tables.
Others ==
  /\ DOMAIN rows = {"notices", "servers"}
  /\ rows["notices"] \in [{"Welcome", "Password"} -> 0 .. 1]
  /\ rows["servers"] \in [{"Tokyo", "Singapore"} -> 0 .. 1]

\* No plan is there twice under the name of a default.
Unique == \A p, q \in plans : p.name = q.name /\ p.name \in {"Starter", "Pro"} => p = q

Defaulted == (\A k \in 1 .. 4 : Filled(k)) /\ Others /\ Unique

LEMMA PairIs ==
  /\ Pair(1) = {"Starter", "Pro"} /\ Pair(2) = {"Welcome", "Password"}
  /\ Pair(3) = {"Tokyo", "Singapore"} /\ Pair(4) = {Root, Demo}
  BY FourTables DEF Pair, Defaults

LEMMA PlanNamesOwn == "Starter" \notin PlanNames /\ "Pro" \notin PlanNames
  BY ProcessAssumption

\* A default of a table is none of another's turn.
LEMMA ToDoOnly ==
  ASSUME NEW k \in 1 .. 4, NEW d, Progress, ToDo(k, d)
  PROVE  phase = "seeding" /\ table = k /\ todo # <<>> /\ ~Ahead(k)
  BY Two DEF ToDo, Ahead, Progress

LEMMA EmptyMeans ==
  ASSUME Others, NEW k \in 1 .. 4, NEW d \in Pair(k), Empty(Tables[k])
  PROVE  ~There(k, d)
<1>1. CASE k = 1
  BY <1>1, FourTables DEF There, Empty
<1>2. CASE k = 4
  BY <1>2, FourTables, Two DEF There, Empty
<1>3. CASE k = 2
  <2>1. d \in DOMAIN rows["notices"]
    BY <1>3, PairIs DEF Others
  <2> QED BY <1>3, <2>1, FourTables DEF There, Empty
<1>4. CASE k = 3
  <2>1. d \in DOMAIN rows["servers"]
    BY <1>4, PairIs DEF Others
  <2> QED BY <1>4, <2>1, FourTables DEF There, Empty
<1> QED BY <1>1, <1>2, <1>3, <1>4

\* The seed turns to a table, and takes up all of it or nothing.
LEMMA Turns ==
  ASSUME Others, Progress, NEW k \in 1 .. 4, NEW j \in 1 .. 4, Filled(j), todo = <<>>,
         UNCHANGED <<plans, users, rows, cut, dropped>>,
         phase' = "seeding", table' = k, todo' = Missing(Tables[k]),
         Ahead(j) <=> j >= k
  PROVE  Filled(j)'
<1> SUFFICES ASSUME NEW d \in Pair(j)
             PROVE  /\ ToDo(j, d)' => ~There(j, d)'
                    /\ There(j, d)' \/ Gap(d)' \/ ToDo(j, d)' \/ (Ahead(j) /\ Empty(Tables[j]))'
  BY DEF Filled, Pair
<1>1. (There(j, d)' <=> There(j, d)) /\ (Gap(d)' <=> Gap(d)) /\ (Empty(Tables[j])' <=> Empty(Tables[j]))
  BY DEF There, Gap, Empty
<1>2. ~ToDo(j, d)
  BY ToDoOnly
<1>3. There(j, d) \/ Gap(d) \/ (j >= k /\ Empty(Tables[j]))
  BY <1>2 DEF Filled
<1>4. CASE j # k
  <2>1. ~ToDo(j, d)'
    BY <1>4 DEF ToDo
  <2>2. Ahead(j)' <=> j > k
    BY DEF Ahead
  <2> QED BY <1>1, <1>3, <1>4, <2>1, <2>2
<1>5. CASE j = k /\ ~Empty(Tables[k])
  <2>1. ~ToDo(j, d)'
    BY <1>5, Two DEF ToDo, Missing
  <2> QED BY <1>1, <1>3, <1>5, <2>1
<1>6. CASE j = k /\ Empty(Tables[k])
  <2>1. todo' = Defaults[Tables[k]]
    BY <1>6 DEF Missing
  <2>2. ToDo(j, d)'
    <3>1. PICK a, b : Defaults[Tables[k]] = <<a, b>> /\ Defaults[Tables[k]][1] = a /\ Defaults[Tables[k]][2] = b
      BY Pairs
    <3>2. d = a \/ d = b
      BY <1>6, <3>1 DEF Pair
    <3>3. todo' = <<a, b>>
      BY <2>1, <3>1
    <3>4. \E i \in DOMAIN todo' : todo'[i] = d
      BY <3>2, <3>3, Two
    <3> QED BY <1>6, <3>4 DEF ToDo
  <2> QED BY <1>1, <1>6, <2>2, EmptyMeans
<1> QED BY <1>4, <1>5, <1>6

\* Once the process serves, whatever is not there is accounted for, and stays so.
Here(k) == \A d \in Pair(k) : There(k, d) \/ Gap(d)

LEMMA HereMeans ==
  ASSUME Progress, NEW k \in 1 .. 4, Filled(k), ~Ahead(k), todo = <<>>
  PROVE  Here(k)
  BY ToDoOnly DEF Here, Filled

LEMMA HereStays ==
  ASSUME NEW k \in 1 .. 4, Here(k), phase' # "seeding",
         \A d \in Pair(k) : There(k, d) => There(k, d)' \/ Gap(d)',
         cut \subseteq cut', dropped \subseteq dropped'
  PROVE  Filled(k)'
  BY DEF Here, Filled, Gap, ToDo, Pair

\* The seed inserts a default: it is there, and nothing else comes to be.
LEMMA Inserted ==
  ASSUME Rows, Others, Owned, Progress, Filled(table), SeedOne, NEW d \in Pair(table)
  PROVE  There(table, d)' <=> There(table, d) \/ d = Head(todo)
<1>1. /\ phase = "seeding" /\ todo # <<>> /\ table \in 1 .. 4 /\ table' = table
      /\ Insert(Tables[table], Head(todo))
  BY DEF SeedOne, Progress
<1> DEFINE first == Head(todo)
<1>2. first \in Pair(table)
  BY <1>1, RestShrinks DEF Progress, Pair
<1>3. CASE table = 1
  <2>1. plans' = plans \cup {[id |-> lastPlan + 1, name |-> first, quota |-> Quota[first],
                              show |-> TRUE, sort |-> Sort[first]]}
    BY <1>1, <1>3, FourTables DEF Insert, Plan!CreatePlan
  <2>2. PICK p : plans' = plans \cup {p} /\ p.name = first
    <3> DEFINE q == [id |-> lastPlan + 1, name |-> first, quota |-> Quota[first],
                     show |-> TRUE, sort |-> Sort[first]]
    <3>1. q.name = first
      OBVIOUS
    <3>2. plans' = plans \cup {q}
      BY <2>1
    <3> HIDE DEF q
    <3> QED BY <3>1, <3>2
  <2> QED BY <1>1, <1>3, <2>2 DEF There
<1>4. CASE table = 4
  <2> DEFINE n == Len(users) + 1
  <2>1. DOMAIN users' = DOMAIN users \cup {n} /\ \A i \in DOMAIN users : users'[i] = users[i]
    BY <1>4, OwnedSeeds
  <2>2. users'[n].email = Account!Address(first, FALSE) /\ users'[n].by = "seed"
    BY <1>4, OwnedSeeds
  <2> HIDE DEF n
  <2>3. users'[n].email.name = first
    <3>1. Account!Address(first, FALSE).name = first
      BY DEF Account!Address
    <3> QED BY <2>2, <3>1
  <2>4. n \notin DOMAIN users
    <3>1. users \in Seq(Profile)
      BY DEF Owned, Members
    <3> QED BY <3>1 DEF n
  <2> HIDE DEF first
  <2>5. There(table, d) <=> \E i \in DOMAIN users : users[i].by = "seed" /\ users[i].email.name = d
    BY <1>4 DEF There
  <2>6. There(table, d)' <=> \E i \in DOMAIN users' : users'[i].by = "seed" /\ users'[i].email.name = d
    BY <1>1, <1>4 DEF There
  <2>7. (\E i \in DOMAIN users' : users'[i].by = "seed" /\ users'[i].email.name = d)
        <=> (\E i \in DOMAIN users : users[i].by = "seed" /\ users[i].email.name = d) \/ d = first
    BY <2>1, <2>2, <2>3, <2>4
  <2> QED BY <2>5, <2>6, <2>7 DEF first
<1>5. ASSUME NEW t \in {"notices", "servers"}, Tables[table] = t, table # 1, table # 4,
             rows[t] \in [Pair(table) -> 0 .. 1]
      PROVE  There(table, d)' <=> There(table, d) \/ d = first
  <2>1. rows' = [rows EXCEPT ![t][first] = @ + 1]
    BY <1>1, <1>5 DEF Insert
  <2>2. ToDo(table, first)
    <3>1. \E i \in DOMAIN todo : todo[i] = first
      <4>1. PICK a, b : Defaults[Tables[table]] = <<a, b>> /\ Defaults[Tables[table]][1] = a
                        /\ Defaults[Tables[table]][2] = b
        BY <1>1, Pairs
      <4>2. (todo = <<a, b>> /\ first = a) \/ (todo = <<b>> /\ first = b)
        BY <1>1, <4>1, RestShrinks DEF Progress
      <4> QED BY <4>2, Two
    <3> QED BY <1>1, <3>1 DEF ToDo
  <2>3. ~There(table, first)
    BY <1>2, <2>2 DEF Filled
  <2>4. rows[t][first] = 0
    BY <1>2, <1>5, <2>3 DEF There
  <2>5. rows'[t][d] = IF d = first THEN 1 ELSE rows[t][d]
    BY <1>2, <1>5, <2>1, <2>4 DEF Others
  <2>6. There(table, d)' <=> rows'[t][d] = 1
    BY <1>1, <1>5 DEF There
  <2>7. There(table, d) <=> rows[t][d] = 1
    BY <1>5 DEF There
  <2> QED BY <2>5, <2>6, <2>7
<1>6. CASE table = 2
  BY <1>5, <1>6, FourTables, PairIs DEF Others
<1>7. CASE table = 3
  BY <1>5, <1>7, FourTables, PairIs DEF Others
<1> QED BY <1>1, <1>3, <1>4, <1>6, <1>7

\* Other tables do not change.
LEMMA NotInserted ==
  ASSUME Progress, Others, SeedOne, NEW k \in 1 .. 4, k # table, NEW d \in Pair(k)
  PROVE  (There(k, d)' <=> There(k, d)) /\ (Empty(Tables[k])' <=> Empty(Tables[k]))
<1>1. Insert(Tables[table], Head(todo)) /\ table \in 1 .. 4
  BY DEF SeedOne, Progress
<1>2. CASE k = 1
  <2>0. Tables[table] # "plans"
    BY <1>1, <1>2 DEF Tables
  <2>1. UNCHANGED plans
    BY <1>1, <2>0 DEF Insert
  <2> QED BY <1>2, <2>1, FourTables DEF There, Empty
<1>3. CASE k = 4
  <2>0. Tables[table] # "users"
    BY <1>1, <1>3 DEF Tables
  <2>1. UNCHANGED users
    BY <1>1, <2>0 DEF Insert
  <2> QED BY <1>3, <2>1, FourTables DEF There, Empty
<1>4. ASSUME NEW t \in {"notices", "servers"}, Tables[k] = t, k # 1, k # 4, Tables[table] # t
      PROVE  (There(k, d)' <=> There(k, d)) /\ (Empty(Tables[k])' <=> Empty(Tables[k]))
  <2>1. rows'[t] = rows[t]
    BY <1>1, <1>4 DEF Insert, Others
  <2> QED BY <1>4, <2>1 DEF There, Empty
<1>5. CASE k = 2
  BY <1>1, <1>4, <1>5, FourTables
<1>6. CASE k = 3
  BY <1>1, <1>4, <1>6, FourTables
<1> QED BY <1>2, <1>3, <1>5, <1>6

LEMMA SeedFills ==
  ASSUME Rows, Owned, Progress, Defaulted, SeedOne, NEW k \in 1 .. 4
  PROVE  Filled(k)'
<1> SUFFICES ASSUME NEW d \in Pair(k)
             PROVE  /\ ToDo(k, d)' => ~There(k, d)'
                    /\ There(k, d)' \/ Gap(d)' \/ ToDo(k, d)' \/ (Ahead(k) /\ Empty(Tables[k]))'
  BY DEF Filled, Pair
<1>1. /\ phase = "seeding" /\ todo # <<>> /\ table \in 1 .. 4 /\ todo' = Tail(todo)
      /\ UNCHANGED <<phase, table, cut, dropped>>
  BY DEF SeedOne, Progress, history
<1>2. (Gap(d)' <=> Gap(d)) /\ (Ahead(k)' <=> Ahead(k)) /\ Others
  BY <1>1 DEF Gap, Ahead, Defaulted
<1>3. /\ ToDo(k, d) => ~There(k, d)
      /\ There(k, d) \/ Gap(d) \/ ToDo(k, d) \/ (Ahead(k) /\ Empty(Tables[k]))
  BY DEF Defaulted, Filled
<1>4. CASE k # table
  <2>1. ~ToDo(k, d) /\ ~ToDo(k, d)'
    BY <1>1, <1>4 DEF ToDo
  <2> QED BY <1>2, <1>3, <1>4, <2>1, NotInserted
<1>5. CASE k = table
  <2>1. There(k, d)' <=> There(k, d) \/ d = Head(todo)
    BY <1>1, <1>2, <1>5, Inserted DEF Defaulted
  <2>2. ~Ahead(k)
    BY <1>1, <1>5 DEF Ahead
  <2>3. PICK a, b : Defaults[Tables[k]] = <<a, b>> /\ Defaults[Tables[k]][1] = a
                    /\ Defaults[Tables[k]][2] = b /\ a # b
    BY Pairs
  <2>4. d = a \/ d = b
    BY <2>3 DEF Pair
  <2>5. \/ todo = <<a, b>> /\ Head(todo) = a /\ todo' = <<b>>
        \/ todo = <<b>> /\ Head(todo) = b /\ todo' = <<>>
    BY <1>1, <1>5, <2>3, RestShrinks DEF Progress
  <2>6. (ToDo(k, d) <=> \E i \in DOMAIN todo : todo[i] = d)
        /\ (ToDo(k, d)' <=> \E i \in DOMAIN todo' : todo'[i] = d)
    BY <1>1, <1>5 DEF ToDo
  <2>7. CASE todo = <<a, b>> /\ Head(todo) = a /\ todo' = <<b>>
    <3>1. ToDo(k, d) /\ (ToDo(k, d)' <=> d = b)
      BY <2>4, <2>6, <2>7, Two
    <3> QED BY <1>3, <2>1, <2>3, <2>4, <2>7, <3>1
  <2>8. CASE todo = <<b>> /\ Head(todo) = b /\ todo' = <<>>
    <3>1. (ToDo(k, d) <=> d = b) /\ ~ToDo(k, d)'
      BY <2>6, <2>8, Two
    <3> QED BY <1>2, <1>3, <2>1, <2>2, <2>3, <2>4, <2>8, <3>1
  <2> QED BY <2>5, <2>7, <2>8
<1> QED BY <1>4, <1>5

\* The demo account is left out.
LEMMA SkipFills ==
  ASSUME Progress, Defaulted, SkipDemo, NEW k \in 1 .. 4
  PROVE  Filled(k)'
<1> SUFFICES ASSUME NEW d \in Pair(k)
             PROVE  ~ToDo(k, d)' /\ (There(k, d)' \/ Gap(d)' \/ (Ahead(k) /\ Empty(Tables[k]))')
  BY DEF Filled, Pair
<1>1. /\ phase = "seeding" /\ todo = <<Demo>> /\ todo' = <<>> /\ cut' = cut \cup {Demo}
      /\ UNCHANGED <<phase, table, plans, users, rows, dropped>>
  BY DEF SkipDemo, database
<1>2. (There(k, d)' <=> There(k, d)) /\ (Empty(Tables[k])' <=> Empty(Tables[k]))
      /\ (Gap(d)' <=> Gap(d) \/ d = Demo) /\ (Ahead(k)' <=> Ahead(k))
  BY <1>1 DEF There, Empty, Gap, Ahead
<1>3. There(k, d) \/ Gap(d) \/ ToDo(k, d) \/ (Ahead(k) /\ Empty(Tables[k]))
  BY DEF Defaulted, Filled
<1>4. ToDo(k, d) => d = Demo
  BY <1>1, Two DEF ToDo
<1>5. ~ToDo(k, d)'
  BY <1>1, Two DEF ToDo
<1> QED BY <1>2, <1>3, <1>4, <1>5

\* The process ends: what was still to be inserted is noted.
LEMMA GoneFills ==
  ASSUME Progress, Defaulted, Gone, NEW k \in 1 .. 4
  PROVE  Filled(k)'
<1> SUFFICES ASSUME NEW d \in Pair(k)
             PROVE  ~ToDo(k, d)' /\ (There(k, d)' \/ Gap(d)' \/ (Ahead(k) /\ Empty(Tables[k]))')
  BY DEF Filled, Pair
<1>1. /\ phase' = "down" /\ cut' = cut \cup {todo[i] : i \in DOMAIN todo}
      /\ UNCHANGED <<plans, users, rows, dropped>>
  BY DEF Gone, database
<1>2. (There(k, d)' <=> There(k, d)) /\ (Empty(Tables[k])' <=> Empty(Tables[k])) /\ (Gap(d) => Gap(d)')
  BY <1>1 DEF There, Empty, Gap
<1>3. There(k, d) \/ Gap(d) \/ ToDo(k, d) \/ (Ahead(k) /\ Empty(Tables[k]))
  BY DEF Defaulted, Filled
<1>4. ToDo(k, d) => Gap(d)'
  BY <1>1 DEF ToDo, Gap
<1>5. ~ToDo(k, d)' /\ Ahead(k)'
  BY <1>1 DEF ToDo, Ahead
<1> QED BY <1>2, <1>3, <1>4, <1>5

\* What the admin does to a plan keeps its id and its name, or notes that the name is
\* dropped; and no second plan comes to have the name of a default.
Edited ==
  /\ \A p \in plans : p.name \in dropped' \/ \E q \in plans' : q.id = p.id /\ q.name = p.name
  /\ Unique => Unique'

\* A change of the rows one by one.
LEMMA EditedOneByOne ==
  ASSUME NEW f, plans' = {f[p] : p \in plans},
         \A p \in plans : f[p].id = p.id /\ f[p].name = p.name
  PROVE  Edited
<1>1. ASSUME NEW p \in plans PROVE \E q \in plans' : q.id = p.id /\ q.name = p.name
  BY <1>1
<1>2. ASSUME Unique, NEW a \in plans', NEW b \in plans', a.name = b.name, a.name \in {"Starter", "Pro"}
      PROVE  a = b
  <2>1. PICK p \in plans, q \in plans : a = f[p] /\ b = f[q]
    OBVIOUS
  <2>2. p = q
    BY <1>2, <2>1 DEF Unique
  <2> QED BY <2>1, <2>2
<1> QED BY <1>1, <1>2 DEF Edited, Unique

LEMMA SavedEdited ==
  ASSUME Rows, NEW p \in plans, NEW name \in PlanNames \cup {p.name}, NEW value \in Int,
         NEW show \in BOOLEAN, NEW sort \in Nat,
         Plan!adminPlanSave(p, name, value, show, sort),
         name = p.name \/ p.name \in dropped'
  PROVE  Edited
<1> DEFINE quota == Plan!normalizeAdminPlanTransferLimit(value)
           row == [p EXCEPT !.name = name, !.quota = quota, !.show = show, !.sort = sort]
<1>1. plans' = (plans \ {p}) \cup {row}
  BY DEF Plan!adminPlanSave
<1>2. quota \in Nat
  BY NormalStores
<1> HIDE DEF quota
<1>3. row.id = p.id /\ row.name = name
  BY <1>2 DEF Rows, Row
<1> HIDE DEF row
<1>4. ASSUME NEW x \in plans PROVE x.name \in dropped' \/ \E q \in plans' : q.id = x.id /\ q.name = x.name
  <2>1. CASE x = p
    BY <1>1, <1>3, <2>1
  <2>2. CASE x # p
    BY <1>1, <2>2
  <2> QED BY <2>1, <2>2
\* Another plan has the name of a default only if p itself had it, and is p.
<1>5. ASSUME Unique, NEW b \in plans, b # p, b.name = name PROVE name \notin {"Starter", "Pro"}
  BY <1>5, PlanNamesOwn DEF Unique
<1>6. Unique => Unique'
  BY <1>1, <1>3, <1>5 DEF Unique
<1> QED BY <1>4, <1>6 DEF Edited

LEMMA SortedEdited ==
  ASSUME Rows, NEW p \in plans, NEW q \in plans, Plan!adminPlanSort(<<p.id, q.id>>)
  PROVE  Edited
<1> DEFINE ids == <<p.id, q.id>>
           new(x) == IF \E i \in DOMAIN ids : ids[i] = x.id
                     THEN [x EXCEPT !.sort = CHOOSE i \in DOMAIN ids : ids[i] = x.id] ELSE x
           f == [x \in plans |-> new(x)]
<1>1. plans' = {new(x) : x \in plans}
  BY DEF Plan!adminPlanSort
<1>2. ASSUME NEW x \in plans PROVE new(x).id = x.id /\ new(x).name = x.name
  <2>1. x \in Row
    BY DEF Rows
  <2> DEFINE place == CHOOSE i \in DOMAIN ids : ids[i] = x.id
  <2> HIDE DEF place
  <2>2. [x EXCEPT !.sort = place].id = x.id /\ [x EXCEPT !.sort = place].name = x.name
    BY <2>1 DEF Row
  <2> QED BY <2>2 DEF place
<1> HIDE DEF new
<1>3. plans' = {f[x] : x \in plans}
  BY <1>1
<1>4. \A x \in plans : f[x].id = x.id /\ f[x].name = x.name
  BY <1>2
<1> HIDE DEF f
<1> QED BY <1>3, <1>4, EditedOneByOne

LEMMA PlanEdited ==
  ASSUME Rows, EditPlan
  PROVE  Edited
<1>1. ASSUME NEW name \in PlanNames, NEW value \in Typed, Plan!adminPlanCreate(name, value, TRUE)
      PROVE  Edited
  <2> DEFINE row == [id |-> lastPlan + 1, name |-> name, quota |-> Plan!normalizeAdminPlanTransferLimit(value),
                     show |-> TRUE, sort |-> 99]
  <2>1. plans' = plans \cup {row}
    BY <1>1 DEF Plan!adminPlanCreate, Plan!CreatePlan
  <2>2. row.name \notin {"Starter", "Pro"}
    BY PlanNamesOwn
  <2> HIDE DEF row
  <2> QED BY <2>1, <2>2 DEF Edited, Unique
<1>2. ASSUME NEW p \in plans, NEW name \in PlanNames \cup {p.name}, NEW value \in Typed,
             \/ Plan!adminPlanSave(p, name, value, FALSE, p.sort)
             \/ Plan!adminPlanSave(p, name, value, TRUE, 99),
             dropped' = dropped \cup ({p.name} \ {name})
      PROVE  Edited
  <2>1. p.sort \in Nat
    BY DEF Rows, Row
  <2> QED BY <1>2, <2>1, Constants, SavedEdited
<1>3. ASSUME NEW p \in plans, Plan!SaveUntouched(p) PROVE Edited
  <2>1. p.quota \in Nat /\ p.show \in BOOLEAN /\ p.sort \in Nat
    BY DEF Rows, Row
  <2> QED BY <1>3, <2>1, ShownIsNumber, SavedEdited DEF Plan!SaveUntouched
<1>4. ASSUME NEW p \in plans, NEW q \in plans, Plan!adminPlanSort(<<p.id, q.id>>) PROVE Edited
  BY <1>4, SortedEdited
<1>5. ASSUME NEW p \in plans, Plan!adminPlanDrop(p), dropped' = dropped \cup {p.name} PROVE Edited
  BY <1>5 DEF Plan!adminPlanDrop, Edited, Unique
<1> QED BY <1>1, <1>2, <1>3, <1>4, <1>5 DEF EditPlan

\* What the process does while it serves leaves each default there, or notes it.
LEMMA ServingKeeps ==
  ASSUME Stored, Owned, Others, NEW k \in 1 .. 4, NEW d \in Pair(k), There(k, d),
         EditPlan \/ DropRow \/ EditUser \/ \E r \in running : Proceed(r)
  PROVE  There(k, d)' \/ Gap(d)'
<1>0. Rows
  BY RowsMeans DEF Stored
<1>1. CASE EditPlan
  <2>1. UNCHANGED <<users, rows>>
    BY <1>1 DEF EditPlan
  <2>2. CASE k = 1
    BY <1>0, <1>1, <2>2, PlanEdited DEF Edited, There, Gap
  <2> QED BY <2>1, <2>2 DEF There
<1>2. CASE DropRow
  <2>1. UNCHANGED <<plans, users>>
    BY <1>2 DEF DropRow
  <2>2. PICK t \in DOMAIN rows : \E e \in DOMAIN rows[t] :
          rows[t][e] > 0 /\ rows' = [rows EXCEPT ![t][e] = @ - 1] /\ dropped' = dropped \cup {e}
    BY <1>2 DEF DropRow
  <2>3. PICK e \in DOMAIN rows[t] : rows' = [rows EXCEPT ![t][e] = @ - 1] /\ dropped' = dropped \cup {e}
    BY <2>2
  <2>4. \A u \in DOMAIN rows : \A x \in DOMAIN rows[u] : x # e => rows'[u][x] = rows[u][x]
    BY <2>3
  <2>5. CASE k = 1 \/ k = 4
    BY <2>1, <2>5 DEF There
  <2>6. CASE k = 2 \/ k = 3
    <3>1. Tables[k] \in DOMAIN rows /\ d \in DOMAIN rows[Tables[k]]
      BY <2>6, FourTables, PairIs DEF Others
    <3> QED BY <2>3, <2>4, <2>6, <3>1 DEF There, Gap
  <2> QED BY <2>5, <2>6
<1>3. CASE EditUser
  <2>1. UNCHANGED <<plans, rows>>
    BY <1>3 DEF EditUser
  <2>2. CASE k = 4
    <3>1. PICK i \in DOMAIN users : users[i].by = "seed" /\ users[i].email.name = d
      BY <2>2 DEF There
    <3>2. PICK id \in DOMAIN users, address \in Account!Addresses(Asked) :
            Account!adminUserUpdate(id, address)
            /\ dropped' = dropped \cup ({users[id].email.name} \cap {Root, Demo})
      BY <1>3 DEF EditUser
    <3>3. DOMAIN users' = DOMAIN users /\ \A j \in DOMAIN users : j # id => users'[j] = users[j]
      BY <3>2, OwnedUpdate
    <3>4. CASE i = id
      BY <2>2, <3>1, <3>2, <3>4, PairIs DEF Gap
    <3>5. CASE i # id
      BY <2>2, <3>1, <3>3, <3>5 DEF There
    <3> QED BY <3>4, <3>5
  <2> QED BY <2>1, <2>2 DEF There
<1>4. ASSUME NEW r \in running, Proceed(r) PROVE There(k, d)'
  <2>1. UNCHANGED <<plans, rows>> /\ Grows
    BY <1>4, OwnedProceeds DEF Proceed
  <2> QED BY <2>1 DEF There, Grows
<1> QED BY <1>1, <1>2, <1>3, <1>4

\* The same as the initial state lists them.
Pair2(t) == {Defaults[t][i] : i \in DOMAIN Defaults[t]}

LEMMA DefaultedInit == Init => Defaulted
<1> SUFFICES ASSUME Init PROVE Defaulted
  OBVIOUS
<1>1. plans = {} /\ users = <<>> /\ phase = "down"
  BY DEF Init, Plan!Init, Account!Init
<1>2. rows = [t \in {"notices", "servers"} |-> [d \in Pair2(t) |-> 0]]
  BY DEF Init, Pair2
<1>3. Others
  <2>1. Pair2("notices") = {"Welcome", "Password"} /\ Pair2("servers") = {"Tokyo", "Singapore"}
    BY Two DEF Pair2, Defaults
  <2> QED BY <1>2, <2>1 DEF Others
<1>4. ASSUME NEW k \in 1 .. 4 PROVE Filled(k)
  <2>1. Ahead(k) /\ \A d : ~ToDo(k, d)
    BY <1>1 DEF Ahead, ToDo
  <2>2. Empty(Tables[k])
    <3>1. \A t \in {"notices", "servers"} : \A d \in DOMAIN rows[t] : rows[t][d] = 0
      BY <1>2
    <3> QED BY <1>1, <3>1, FourTables DEF Empty
  <2> QED BY <2>1, <2>2 DEF Filled
<1>5. Unique
  BY <1>1 DEF Unique
<1> QED BY <1>3, <1>4, <1>5 DEF Defaulted

LEMMA OthersStep == Rows /\ Owned /\ Progress /\ Defaulted /\ [Next]_vars => Others'
<1> SUFFICES ASSUME Rows, Owned, Progress, Defaulted, [Next]_vars PROVE Others'
  OBVIOUS
<1>1. Others /\ (UNCHANGED rows => Others')
  BY DEF Defaulted, Others
<1>2. CASE SeedOne
  <2>1. Insert(Tables[table], Head(todo)) /\ table \in 1 .. 4 /\ phase = "seeding" /\ todo # <<>>
        /\ table' = table
    BY <1>2 DEF SeedOne, Progress
  <2>2. CASE table = 1 \/ table = 4
    BY <1>1, <2>1, <2>2, FourTables DEF Insert
  <2>3. CASE table = 2 \/ table = 3
    <3> DEFINE d == Head(todo)
               t == Tables[table]
    <3>1. d \in Pair(table) /\ t \in {"notices", "servers"}
      BY <2>1, <2>3, FourTables, RestShrinks DEF Progress, Pair
    <3>2. rows' = [rows EXCEPT ![t][d] = @ + 1]
      BY <2>1, <3>1 DEF Insert
    <3>3. ~There(table, d)
      <4>1. PICK a, b : Defaults[Tables[table]] = <<a, b>> /\ Defaults[Tables[table]][1] = a
                        /\ Defaults[Tables[table]][2] = b
        BY <2>1, Pairs
      <4>2. (todo = <<a, b>> /\ d = a) \/ (todo = <<b>> /\ d = b)
        BY <2>1, <4>1, RestShrinks DEF Progress
      <4>3. \E i \in DOMAIN todo : todo[i] = d
        BY <4>2, Two
      <4> QED BY <2>1, <3>1, <4>3 DEF ToDo, Defaulted, Filled
    <3>4. rows[t] \in [Pair(table) -> 0 .. 1]
      BY <1>1, <2>3, FourTables, PairIs DEF Others
    <3>5. rows[t][d] = 0
      BY <2>3, <3>1, <3>3, <3>4 DEF There
    <3>6. DOMAIN rows' = DOMAIN rows /\ rows'[t] \in [Pair(table) -> 0 .. 1]
          /\ \A u \in DOMAIN rows : u # t => rows'[u] = rows[u]
      BY <1>1, <3>1, <3>2, <3>4, <3>5 DEF Others
    <3> HIDE DEF d, t
    <3>7. (table = 2 => t = "notices") /\ (table = 3 => t = "servers")
      BY FourTables DEF t
    <3> QED BY <1>1, <2>3, <3>6, <3>7, PairIs DEF Others
  <2> QED BY <2>1, <2>2, <2>3
<1>3. CASE DropRow
  <2>1. PICK t \in DOMAIN rows : \E e \in DOMAIN rows[t] :
          rows[t][e] > 0 /\ rows' = [rows EXCEPT ![t][e] = @ - 1]
    BY <1>3 DEF DropRow
  <2>2. PICK e \in DOMAIN rows[t] : rows[t][e] > 0 /\ rows' = [rows EXCEPT ![t][e] = @ - 1]
    BY <2>1
  <2>3. CASE t = "notices"
    BY <1>1, <2>2, <2>3 DEF Others
  <2>4. CASE t = "servers"
    BY <1>1, <2>2, <2>4 DEF Others
  <2> QED BY <1>1, <2>3, <2>4 DEF Others
<1>4. CASE Start \/ SkipDemo \/ NextTable \/ Ask \/ EditPlan \/ EditUser
  BY <1>1, <1>4 DEF Start, SkipDemo, NextTable, Ask, EditPlan, EditUser, database
<1>5. ASSUME NEW r \in running, Proceed(r) PROVE Others'
  BY <1>1, <1>5 DEF Proceed
<1>6. CASE ListenFails \/ Signal \/ ListenEnds \/ Drained \/ Deadline \/ CleanUp \/ Exit \/ Fatal \/ Crash
  BY <1>1, <1>6 DEF ListenFails, Signal, ListenEnds, Drained, Deadline, CleanUp, Exit, Fatal, Crash, Gone, database
<1>7. CASE UNCHANGED vars
  BY <1>1, <1>7 DEF vars, database
<1> QED BY <1>2, <1>3, <1>4, <1>5, <1>6, <1>7 DEF Next

LEMMA UniqueStep == Rows /\ Owned /\ Progress /\ Defaulted /\ [Next]_vars => Unique'
<1> SUFFICES ASSUME Rows, Owned, Progress, Defaulted, [Next]_vars PROVE Unique'
  OBVIOUS
<1>1. Unique /\ (UNCHANGED plans => Unique')
  BY DEF Defaulted, Unique
<1>2. CASE SeedOne
  <2>1. Insert(Tables[table], Head(todo)) /\ table \in 1 .. 4 /\ phase = "seeding" /\ todo # <<>>
    BY <1>2 DEF SeedOne, Progress
  <2>2. CASE table # 1
    <3>1. Tables[table] # "plans"
      BY <2>1, <2>2 DEF Tables
    <3> QED BY <1>1, <2>1, <3>1 DEF Insert
  <2>3. CASE table = 1
    <3> DEFINE d == Head(todo)
               row == [id |-> lastPlan + 1, name |-> d, quota |-> Quota[d], show |-> TRUE, sort |-> Sort[d]]
    <3>1. plans' = plans \cup {row}
      BY <2>1, <2>3, FourTables DEF Insert, Plan!CreatePlan
    <3>2. d \in Pair(1) /\ \E i \in DOMAIN todo : todo[i] = d
      <4>1. PICK a, b : Defaults[Tables[table]] = <<a, b>> /\ Defaults[Tables[table]][1] = a
                        /\ Defaults[Tables[table]][2] = b
        BY <2>1, Pairs
      <4>2. (todo = <<a, b>> /\ d = a) \/ (todo = <<b>> /\ d = b)
        BY <2>1, <4>1, RestShrinks DEF Progress
      <4>3. \E i \in DOMAIN todo : todo[i] = d
        BY <4>2, Two
      <4> QED BY <2>3, <4>1, <4>2, <4>3 DEF Pair
    <3>3. \A p \in plans : p.name # d
      BY <2>1, <2>3, <3>2 DEF ToDo, Defaulted, Filled, There
    <3>4. row.name = d
      OBVIOUS
    <3> HIDE DEF row, d
    <3> QED BY <1>1, <3>1, <3>3, <3>4 DEF Unique
  <2> QED BY <2>2, <2>3
<1>3. CASE EditPlan
  BY <1>1, <1>3, PlanEdited DEF Edited
<1>4. CASE Start \/ SkipDemo \/ NextTable \/ Ask \/ DropRow \/ EditUser
  BY <1>1, <1>4 DEF Start, SkipDemo, NextTable, Ask, DropRow, EditUser, database
<1>5. ASSUME NEW r \in running, Proceed(r) PROVE Unique'
  BY <1>1, <1>5 DEF Proceed
<1>6. CASE ListenFails \/ Signal \/ ListenEnds \/ Drained \/ Deadline \/ CleanUp \/ Exit \/ Fatal \/ Crash
  BY <1>1, <1>6 DEF ListenFails, Signal, ListenEnds, Drained, Deadline, CleanUp, Exit, Fatal, Crash, Gone, database
<1>7. CASE UNCHANGED vars
  BY <1>1, <1>7 DEF vars, database
<1> QED BY <1>2, <1>3, <1>4, <1>5, <1>6, <1>7 DEF Next

LEMMA FilledStep ==
  ASSUME Stored, Owned, Progress, Defaulted, [Next]_vars, NEW k \in 1 .. 4
  PROVE  Filled(k)'
<1>0. Rows /\ Others /\ Filled(k)
  BY RowsMeans DEF Stored, Defaulted
<1>a. ASSUME UNCHANGED <<plans, users, rows, cut, dropped, phase, table, todo>> PROVE Filled(k)'
  <2>1. \A d \in Pair(k) : /\ There(k, d)' <=> There(k, d)
                           /\ Gap(d)' <=> Gap(d)
                           /\ ToDo(k, d)' <=> ToDo(k, d)
    BY <1>a DEF There, Gap, ToDo
  <2>2. (Ahead(k)' <=> Ahead(k)) /\ (Empty(Tables[k])' <=> Empty(Tables[k]))
    BY <1>a DEF Ahead, Empty
  <2> QED BY <1>0, <2>1, <2>2 DEF Filled, Pair
<1>b. ASSUME phase \notin {"down", "seeding"}, phase' # "seeding", cut \subseteq cut', dropped \subseteq dropped',
             \A d \in Pair(k) : There(k, d) => There(k, d)' \/ Gap(d)'
      PROVE  Filled(k)'
  <2>1. ~Ahead(k) /\ todo = <<>>
    BY <1>b DEF Ahead, Progress
  <2> QED BY <1>0, <1>b, <2>1, HereMeans, HereStays
<1>c. ASSUME phase \notin {"down", "seeding"}, phase' # "seeding", UNCHANGED <<plans, users, rows, cut, dropped>>
      PROVE  Filled(k)'
  <2>1. \A d \in Pair(k) : There(k, d) => There(k, d)'
    BY <1>c DEF There
  <2> QED BY <1>b, <1>c, <2>1
<1>1. CASE Start
  <2>1. phase = "down" /\ phase' = "seeding" /\ table' = 1 /\ todo' = Missing(Tables[1]) /\ todo = <<>>
        /\ UNCHANGED <<plans, users, rows, cut, dropped>>
    BY <1>1, FourTables DEF Start, history, Progress
  <2>2. Ahead(k) <=> k >= 1
    BY <2>1 DEF Ahead
  <2> QED BY <1>0, <2>1, <2>2, Turns
<1>2. CASE SeedOne
  BY <1>0, <1>2, SeedFills
<1>3. CASE SkipDemo
  BY <1>3, SkipFills
<1>4. CASE NextTable
  <2>1. phase = "seeding" /\ todo = <<>> /\ UNCHANGED <<plans, users, rows, cut, dropped>> /\ table \in 1 .. 4
    BY <1>4 DEF NextTable, database, Progress
  <2>2. Ahead(k) <=> k >= table + 1
    BY <2>1 DEF Ahead
  <2>3. CASE table < 4
    <3>1. table' = table + 1 /\ todo' = Missing(Tables[table + 1]) /\ phase' = "seeding" /\ table + 1 \in 1 .. 4
      BY <1>4, <2>1, <2>3, FourTables DEF NextTable
    <3> QED BY <1>0, <2>1, <2>2, <3>1, Turns
  <2>4. CASE table = 4
    <3>1. phase' = "serving" /\ ~Ahead(k)
      BY <1>4, <2>1, <2>2, <2>4, FourTables DEF NextTable
    <3>2. \A d \in Pair(k) : There(k, d) => There(k, d)'
      BY <2>1 DEF There
    <3>3. Here(k)
      BY <1>0, <2>1, <3>1, HereMeans
    <3> QED BY <2>1, <3>1, <3>2, <3>3, HereStays
  <2> QED BY <2>1, <2>3, <2>4
<1>5. CASE EditPlan \/ DropRow \/ EditUser
  <2>1. phase = "serving" /\ phase' = "serving" /\ cut' = cut /\ dropped \subseteq dropped'
    BY <1>5 DEF EditPlan, DropRow, EditUser, Edits
  <2> QED BY <1>0, <1>5, <1>b, <2>1, ServingKeeps
<1>6. ASSUME NEW r \in running, Proceed(r) PROVE Filled(k)'
  <2>1. phase \notin {"down", "seeding"} /\ phase' # "seeding" /\ UNCHANGED <<cut, dropped>>
    BY <1>6 DEF Proceed, Handling, history
  <2> QED BY <1>0, <1>6, <1>b, <2>1, ServingKeeps
<1>7. CASE Ask
  <2>1. UNCHANGED <<plans, users, rows, cut, dropped, phase, table, todo>>
    BY <1>7, OwnedAsk DEF Ask, history
  <2> QED BY <1>a, <2>1
<1>8. CASE ListenFails \/ Signal \/ ListenEnds \/ Drained \/ Deadline \/ CleanUp
  <2>1. UNCHANGED <<plans, users, rows, cut, dropped>>
    BY <1>8 DEF ListenFails, Signal, ListenEnds, Drained, Deadline, CleanUp, database, history
  <2>2. phase \notin {"down", "seeding"} /\ phase' # "seeding"
    BY <1>8 DEF ListenFails, Signal, ListenEnds, Drained, Deadline, CleanUp
  <2> QED BY <1>c, <2>1, <2>2
<1>9. CASE Exit \/ Fatal \/ Crash
  BY <1>9, GoneFills DEF Exit, Fatal, Crash
<1>10. CASE UNCHANGED vars
  BY <1>a, <1>10 DEF vars, database, history
<1> QED BY <1>1, <1>2, <1>3, <1>4, <1>5, <1>6, <1>7, <1>8, <1>9, <1>10 DEF Next

\* A default is there, or accounted for, or still to come.
THEOREM DefaultedAlways == Spec => []Defaulted
<1>1. Stored /\ Owned /\ Progress /\ Defaulted /\ [Next]_vars => Defaulted'
  <2> SUFFICES ASSUME Stored, Owned, Progress, Defaulted, [Next]_vars PROVE Defaulted'
    OBVIOUS
  <2>1. \A k \in 1 .. 4 : Filled(k)'
    BY FilledStep
  <2>2. Rows
    BY RowsMeans DEF Stored
  <2> QED BY <2>1, <2>2, OthersStep, UniqueStep DEF Defaulted
<1> QED BY <1>1, DefaultedInit, StoredAlways, OwnedAlways, PTL DEF Spec

\* The two plans of the default accounts are there, unless that is accounted for or the
\* seed has still to make them.
HasBoth == \E p, q \in plans : p.id = 1 /\ p.name = "Starter" /\ q.id = 2 /\ q.name = "Pro"
Intact == {"Starter", "Pro"} \cap (cut \cup dropped) = {}
Fresh == plans = {} /\ lastPlan = 0
Planned ==
  /\ Intact => \/ Fresh /\ phase = "down"
               \/ Fresh /\ phase = "seeding" /\ table = 1 /\ todo = <<"Starter", "Pro">>
               \/ /\ lastPlan = 1 /\ phase = "seeding" /\ table = 1 /\ todo = <<"Pro">>
                  /\ \E p \in plans : p.id = 1 /\ p.name = "Starter"
               \/ HasBoth
  /\ \A i \in DOMAIN users : users[i].by = "seed" => users[i].plan \in {1, 2}

\* The token of the nodes is drawn once.
Tokens ==
  /\ starts \in Nat /\ token \in 0 .. starts /\ given \in {0, token}
  /\ phase # "down" => token # 0
  /\ phase \in {"serving", "draining", "closing", "waiting"} => given = token
  /\ phase \in {"down", "seeding", "serving", "draining", "closing", "waiting"}
  /\ listen \in {"none", "running", "closed", "failed"}

LEMMA PlannedInit == Init => Planned
  BY Two DEF Init, Planned, Fresh, Plan!Init, Account!Init

LEMMA PlannedStep == Stored /\ Owned /\ Progress /\ Planned /\ [Next]_vars => Planned'
<1> SUFFICES ASSUME Stored, Owned, Progress, Planned, [Next]_vars PROVE Planned'
  OBVIOUS
<1> DEFINE First == Intact => \/ Fresh /\ phase = "down"
                              \/ Fresh /\ phase = "seeding" /\ table = 1 /\ todo = <<"Starter", "Pro">>
                              \/ /\ lastPlan = 1 /\ phase = "seeding" /\ table = 1 /\ todo = <<"Pro">>
                                 /\ \E p \in plans : p.id = 1 /\ p.name = "Starter"
                              \/ HasBoth
           Second == \A i \in DOMAIN users : users[i].by = "seed" => users[i].plan \in {1, 2}
<1>0. Rows
  BY RowsMeans DEF Stored
<1>a. Second /\ (UNCHANGED users => Second') /\ (Grows => Second')
  BY DEF Planned, Grows
<1>b. First /\ (UNCHANGED <<plans, lastPlan, phase, table, todo, cut, dropped>> => First')
  BY DEF Planned, Intact, HasBoth, Fresh
<1>c. ASSUME phase \notin {"down", "seeding"}, cut \subseteq cut', dropped \subseteq dropped',
             HasBoth => HasBoth' \/ ~Intact'
      PROVE  First'
  <2>1. Intact' => Intact
    BY <1>c DEF Intact
  <2> QED BY <1>b, <1>c, <2>1
<1>d. UNCHANGED plans => (HasBoth' <=> HasBoth)
  BY DEF HasBoth
<1> SUFFICES First' /\ Second'
  BY DEF Planned
<1> HIDE DEF First, Second
<1>1. CASE Start
  <2>1. UNCHANGED <<plans, lastPlan, users, cut, dropped>> /\ phase = "down" /\ phase' = "seeding"
        /\ table' = 1 /\ todo' = Missing("plans")
    BY <1>1 DEF Start, history
  <2>2. Fresh => todo' = <<"Starter", "Pro">>
    BY <2>1 DEF Fresh, Missing, Empty, Defaults
  <2>3. (Intact' <=> Intact) /\ (Fresh' <=> Fresh) /\ (HasBoth' <=> HasBoth)
    BY <2>1 DEF Intact, Fresh, HasBoth
  <2> QED BY <1>a, <1>b, <2>1, <2>2, <2>3 DEF First
<1>2. CASE SeedOne
  <2>1. /\ phase = "seeding" /\ todo # <<>> /\ todo' = Tail(todo) /\ UNCHANGED <<phase, table, cut, dropped>>
        /\ Insert(Tables[table], Head(todo)) /\ table \in 1 .. 4 /\ (Intact' <=> Intact)
    BY <1>2 DEF SeedOne, history, Progress, Intact
  <2>2. CASE table # 1
    <3>1. Tables[table] # "plans"
      BY <2>1, <2>2 DEF Tables
    <3>2. UNCHANGED plans
      BY <2>1, <3>1 DEF Insert
    <3>3. First'
      BY <1>b, <1>d, <2>1, <2>2, <3>2 DEF First
    <3>4. CASE table # 4
      <4>1. Tables[table] # "users"
        BY <2>1, <3>4 DEF Tables
      <4> QED BY <1>a, <2>1, <3>3, <4>1 DEF Insert
    <3>5. CASE table = 4
      <4> DEFINE n == Len(users) + 1
      <4>1. DOMAIN users' = DOMAIN users \cup {n} /\ (\A i \in DOMAIN users : users'[i] = users[i])
            /\ users'[n].plan \in {1, 2}
        BY <1>2, <3>5, OwnedSeeds
      <4> HIDE DEF n
      <4>2. Second'
        BY <1>a, <4>1 DEF Second
      <4> QED BY <3>3, <4>2
    <3> QED BY <3>4, <3>5
  <2>3. CASE table = 1
    <3> DEFINE d == Head(todo)
               row == [id |-> lastPlan + 1, name |-> d, quota |-> Quota[d], show |-> TRUE, sort |-> Sort[d]]
    <3>1. plans' = plans \cup {row} /\ lastPlan' = lastPlan + 1 /\ UNCHANGED users
      BY <2>1, <2>3, FourTables DEF Insert, Plan!CreatePlan
    <3>2. row.id = lastPlan + 1 /\ row.name = d
      OBVIOUS
    <3> HIDE DEF row
    <3>3. \/ todo = <<"Starter", "Pro">> /\ d = "Starter" /\ todo' = <<"Pro">>
          \/ todo = <<"Pro">> /\ d = "Pro" /\ todo' = <<>>
      <4>1. Defaults[Tables[1]] = <<"Starter", "Pro">> /\ Defaults[Tables[1]][1] = "Starter"
            /\ Defaults[Tables[1]][2] = "Pro"
        BY FourTables DEF Defaults
      <4> QED BY <2>1, <2>3, <4>1, RestShrinks DEF Progress
    <3>4. <<"Starter", "Pro">> # <<"Pro">>
      BY Two
    <3> HIDE DEF d
    <3>5. HasBoth => HasBoth'
      BY <3>1 DEF HasBoth
    <3>6. CASE Intact /\ Fresh /\ todo = <<"Starter", "Pro">>
      <4>1. row \in plans' /\ row.id = 1 /\ row.name = "Starter" /\ lastPlan' = 1 /\ todo' = <<"Pro">>
        BY <3>1, <3>2, <3>3, <3>4, <3>6 DEF Fresh
      <4> QED BY <1>a, <2>1, <2>3, <3>1, <4>1 DEF First
    <3>7. CASE Intact /\ lastPlan = 1 /\ todo = <<"Pro">> /\ \E p \in plans : p.id = 1 /\ p.name = "Starter"
      <4>1. HasBoth'
        BY <3>1, <3>2, <3>3, <3>4, <3>7 DEF HasBoth
      <4> QED BY <1>a, <3>1, <4>1 DEF First
    <3>8. CASE ~Intact \/ HasBoth
      BY <1>a, <2>1, <3>1, <3>5, <3>8 DEF First
    <3>9. (Intact /\ ~HasBoth) =>
             \/ Fresh /\ todo = <<"Starter", "Pro">>
             \/ lastPlan = 1 /\ todo = <<"Pro">> /\ \E p \in plans : p.id = 1 /\ p.name = "Starter"
      BY <1>b, <2>1 DEF First
    <3> QED BY <1>a, <3>1, <3>6, <3>7, <3>8, <3>9
  <2> QED BY <2>2, <2>3
<1>3. CASE SkipDemo
  <2>1. UNCHANGED <<plans, lastPlan, users, phase, table, dropped>> /\ todo = <<Demo>> /\ cut' = cut \cup {Demo}
        /\ phase = "seeding"
    BY <1>3 DEF SkipDemo, database
  <2>2. Intact' => Intact /\ Demo # "Pro"
    BY <2>1 DEF Intact
  <2>3. todo # <<"Starter", "Pro">> /\ (todo = <<"Pro">> => Demo = "Pro")
    <3>1. <<Demo>>[1] = Demo /\ <<"Pro">>[1] = "Pro" /\ Len(<<Demo>>) = 1 /\ Len(<<"Starter", "Pro">>) = 2
      OBVIOUS
    <3> QED BY <2>1, <3>1
  <2> QED BY <1>a, <1>b, <1>d, <2>1, <2>2, <2>3 DEF First
<1>4. CASE NextTable
  <2>1. UNCHANGED <<plans, lastPlan, users, cut, dropped>> /\ phase = "seeding" /\ todo = <<>>
    BY <1>4 DEF NextTable, database
  <2>2. (Intact' <=> Intact) /\ (HasBoth' <=> HasBoth)
    BY <2>1 DEF Intact, HasBoth
  <2>3. todo # <<"Starter", "Pro">> /\ todo # <<"Pro">>
    BY <2>1, Two
  <2> QED BY <1>a, <1>b, <2>1, <2>2, <2>3 DEF First
<1>5. CASE Ask
  BY <1>5, <1>a, <1>b, OwnedAsk DEF Ask, history
<1>6. ASSUME NEW r \in running, Proceed(r) PROVE First' /\ Second'
  BY <1>6, <1>a, <1>b, OwnedProceeds DEF Proceed, history
<1>7. CASE EditPlan
  <2>1. UNCHANGED <<users, cut>> /\ dropped \subseteq dropped' /\ phase = "serving"
    BY <1>7 DEF EditPlan, Edits
  <2>2. HasBoth => HasBoth' \/ ~Intact'
    BY <1>0, <1>7, PlanEdited DEF Edited, HasBoth, Intact
  <2> QED BY <1>a, <1>c, <2>1, <2>2
<1>8. CASE DropRow
  <2>1. UNCHANGED <<users, plans, cut>> /\ dropped \subseteq dropped' /\ phase = "serving"
    BY <1>8 DEF DropRow, Edits
  <2> QED BY <1>a, <1>c, <1>d, <2>1
<1>9. CASE EditUser
  <2>1. UNCHANGED <<plans, cut>> /\ dropped \subseteq dropped' /\ phase = "serving"
    BY <1>9 DEF EditUser, Edits
  <2>2. PICK id \in DOMAIN users, address \in Account!Addresses(Asked) : Account!adminUserUpdate(id, address)
    BY <1>9 DEF EditUser
  <2>3. DOMAIN users' = DOMAIN users /\ users'[id].by = "admin"
        /\ \A i \in DOMAIN users : i # id => users'[i] = users[i]
    BY <2>2, OwnedUpdate
  <2>4. Second'
    BY <1>a, <2>3 DEF Second
  <2> QED BY <1>c, <1>d, <2>1, <2>4
<1>10. CASE ListenFails \/ Signal \/ ListenEnds \/ Drained \/ Deadline \/ CleanUp
  <2>1. UNCHANGED <<plans, users, cut, dropped>> /\ phase \notin {"down", "seeding"}
    BY <1>10 DEF ListenFails, Signal, ListenEnds, Drained, Deadline, CleanUp, database, history
  <2> QED BY <1>a, <1>c, <1>d, <2>1
<1>11. CASE Exit \/ Fatal \/ Crash
  <2>1. /\ UNCHANGED <<plans, users, dropped>> /\ cut' = cut \cup {todo[i] : i \in DOMAIN todo}
        /\ phase # "down"
    BY <1>11 DEF Exit, Fatal, Crash, Gone, database
  <2>2. Intact' => Intact /\ \A i \in DOMAIN todo : todo[i] # "Pro"
    BY <2>1 DEF Intact
  <2>3. Intact' => todo # <<"Starter", "Pro">> /\ todo # <<"Pro">>
    BY <2>2, Two
  <2> QED BY <1>a, <1>b, <1>d, <2>1, <2>2, <2>3 DEF First
<1>12. CASE UNCHANGED vars
  BY <1>12, <1>a, <1>b DEF vars, database, history
<1> QED BY <1>1, <1>2, <1>3, <1>4, <1>5, <1>6, <1>7, <1>8, <1>9, <1>10, <1>11, <1>12 DEF Next

LEMMA TokensInit == Init => Tokens
  BY DEF Init, Tokens

LEMMA TokensStep == Tokens /\ [Next]_vars => Tokens'
<1> SUFFICES ASSUME Tokens, [Next]_vars PROVE Tokens'
  OBVIOUS
<1>1. CASE Start
  BY <1>1 DEF Start, Tokens, history
<1>2. CASE SeedOne \/ SkipDemo
  BY <1>2 DEF SeedOne, SkipDemo, Tokens, history, database
<1>3. CASE NextTable
  BY <1>3 DEF NextTable, Tokens, database
<1>4. CASE Ask \/ EditPlan \/ DropRow \/ EditUser
  BY <1>4 DEF Ask, EditPlan, DropRow, EditUser, Edits, Tokens, history
<1>5. ASSUME NEW r \in running, Proceed(r) PROVE Tokens'
  BY <1>5 DEF Proceed, Tokens, history
<1>6. CASE ListenFails \/ Signal \/ ListenEnds \/ Drained \/ Deadline \/ CleanUp
  BY <1>6 DEF ListenFails, Signal, ListenEnds, Drained, Deadline, CleanUp, Tokens, history, database
<1>7. CASE Exit \/ Fatal \/ Crash
  BY <1>7 DEF Exit, Fatal, Crash, Gone, Tokens, database
<1>8. CASE UNCHANGED vars
  BY <1>8 DEF vars, Tokens, history, database
<1> QED BY <1>1, <1>2, <1>3, <1>4, <1>5, <1>6, <1>7, <1>8 DEF Next

\* At most one, and how many that is.
LEMMA OneOrNone ==
  ASSUME NEW S, \A x, y \in S : x = y
  PROVE  (S = {} /\ Cardinality(S) = 0) \/ (S # {} /\ Cardinality(S) = 1)
<1>1. CASE S = {}
  BY <1>1, FS_EmptySet
<1>2. ASSUME NEW x \in S PROVE Cardinality(S) = 1
  <2>1. S = {x}
    BY <1>2
  <2> QED BY <2>1, FS_Singleton
<1> QED BY <1>1, <1>2

LEMMA CopiesMeans ==
  ASSUME Members, Others, Unique, NEW k \in 1 .. 4, NEW d \in Pair(k)
  PROVE  IF There(k, d) THEN Copies(Tables[k], d) = 1 ELSE Copies(Tables[k], d) = 0
<1>1. CASE k = 1
  <2> DEFINE S == {p \in plans : p.name = d}
  <2>1. \A x, y \in S : x = y
    BY <1>1, PairIs DEF Unique
  <2>2. Copies(Tables[k], d) = Cardinality(S) /\ (There(k, d) <=> S # {})
    BY <1>1, FourTables DEF Copies, There
  <2> HIDE DEF S
  <2> QED BY <2>1, <2>2, OneOrNone
<1>2. CASE k = 4
  <2> DEFINE S == {i \in DOMAIN users : users[i].by = "seed" /\ users[i].email.name = d}
  <2>1. ASSUME NEW x \in S, NEW y \in S PROVE x = y
    <3>1. users[x].email \in Seeded /\ users[y].email \in Seeded
          /\ users[x].email.name = d /\ users[y].email.name = d
      BY <2>1 DEF Members
    <3>2. users[x].email = Account!Address(d, FALSE) /\ users[y].email = Account!Address(d, FALSE)
      BY <3>1, Names, AddressIs DEF Seeded
    <3>3. d # Drawn
      BY <1>2, PairIs, Names
    <3> QED BY <2>1, <3>1, <3>2, <3>3 DEF Members
  <2>2. Copies(Tables[k], d) = Cardinality(S) /\ (There(k, d) <=> S # {})
    BY <1>2, FourTables DEF Copies, There
  <2> HIDE DEF S
  <2> QED BY <2>1, <2>2, OneOrNone
<1>3. CASE k = 2
  BY <1>3, FourTables, PairIs DEF Copies, There, Others
<1>4. CASE k = 3
  BY <1>4, FourTables, PairIs DEF Copies, There, Others
<1> QED BY <1>1, <1>2, <1>3, <1>4

\* However often the process is killed and started again, whatever admins edit: when it
\* serves, each default row is there exactly once, or its absence has a cause that is on
\* record; the plan of a default account is there, or its absence is; and the nodes hold
\* the token.
THEOREM DefaultsHold == Spec => []DefaultsAccountedFor
<1>1. Owned /\ Progress /\ Defaulted /\ Planned /\ Tokens => DefaultsAccountedFor
  <2> SUFFICES ASSUME Owned, Progress, Defaulted, Planned, Tokens, phase = "serving"
               PROVE  DefaultsAccountedFor
    BY DEF DefaultsAccountedFor
  <2>1. Members /\ Others /\ Unique
    BY DEF Owned, Defaulted
  <2>2. ASSUME NEW k \in 1 .. 4, NEW d \in Pair(k)
        PROVE  Copies(Tables[k], d) = 1 \/ (Copies(Tables[k], d) = 0 /\ d \in cut \cup dropped)
    <3>1. ~Ahead(k) /\ todo = <<>>
      BY DEF Ahead, Progress
    <3>2. There(k, d) \/ Gap(d)
      BY <3>1, HereMeans DEF Defaulted, Here
    <3> QED BY <2>1, <3>2, CopiesMeans DEF Gap
  <2>3. ASSUME NEW k \in DOMAIN Tables, NEW j \in DOMAIN Defaults[Tables[k]]
        PROVE  k \in 1 .. 4 /\ Defaults[Tables[k]][j] \in Pair(k)
    <3>1. k \in 1 .. 4
      BY FourTables
    <3>2. PICK a, b : Defaults[Tables[k]] = <<a, b>> /\ Defaults[Tables[k]][1] = a /\ Defaults[Tables[k]][2] = b
      BY <3>1, Pairs
    <3>3. j \in {1, 2}
      BY <3>2, Two
    <3> QED BY <3>1, <3>3 DEF Pair
  <2>4. ASSUME NEW i \in DOMAIN users, users[i].by = "seed"
        PROVE  \/ \E p \in plans : p.id = users[i].plan
               \/ {"Starter", "Pro"} \cap (cut \cup dropped) # {}
    <3>1. users[i].plan \in {1, 2} /\ (Intact => HasBoth)
      BY <2>4 DEF Planned
    <3> QED BY <3>1 DEF Intact, HasBoth
  <2>5. token = given
    BY DEF Tokens
  <2> QED BY <2>2, <2>3, <2>4, <2>5 DEF DefaultsAccountedFor
<1> QED BY <1>1, OwnedAlways, DefaultedAlways, PlannedInit, PlannedStep, TokensInit, TokensStep,
           StoredAlways, PTL DEF Spec

\* The state is of the type that is stated, rows and requests included.
THEOREM ProcessTypes == Spec => []TypeOK
<1>1. Stored /\ Owned /\ Progress /\ Defaulted /\ Tokens => TypeOK
  <2> SUFFICES ASSUME Stored, Owned, Progress, Defaulted, Tokens PROVE TypeOK
    OBVIOUS
  <2>1. Plan!TypeOK
    BY DEF Stored
  <2>2. Account!TypeOK
    <3>1. users \in Seq([email : Account!Addresses(People) \cup {Account!Address(Drawn, FALSE)},
                         plan : Nat \cup {NoPlan}, by : {"seed", "register", "admin"}])
      BY DEF Owned, Members, Profile, Email, PlanId
    <3>2. ASSUME NEW r \in running
          PROVE  r.at \in {"look", "insert", "issue", "generate"} /\ r.n \in 1 .. asked
      BY DEF Owned, Sound, Request
    <3> QED BY <3>1, <3>2 DEF Account!TypeOK, Owned
  <2>3. \A t \in DOMAIN rows : \A d \in DOMAIN rows[t] : rows[t][d] \in 0 .. 1
    BY DEF Defaulted, Others
  <2>4. table \in DOMAIN Tables
    BY FourTables DEF Progress
  <2> QED BY <2>1, <2>2, <2>3, <2>4 DEF TypeOK, Tokens
<1> QED BY <1>1, OwnedAlways, DefaultedAlways, TokensInit, TokensStep, StoredAlways, PTL DEF Spec
==============================================================================
