------------------------------- MODULE Process -------------------------------
(***************************************************************************)
(* The life of the server process (src/cmd/airboard/main.go): it opens the *)
(* database and fills what is empty (Store.seed), serves, and on a signal  *)
(* drains and ends; or it fails or is killed anywhere, and is started      *)
(* again.  What it serves is Accounts and Plans.                           *)
(*                                                                         *)
(* Abstractions: of the settings that are seeded there is the token of the *)
(* nodes, which is drawn anew by every start; creating a user is one step, *)
(* as what a crash in it leaves is repaired by the next start (see         *)
(* SubscriptionLinks).  One process at a time uses the database.  Of the   *)
(* four servers that are seeded there are two.                             *)
(***************************************************************************)
EXTENDS Integers, Sequences, FiniteSets

CONSTANTS
  Gib, PlanNames, Typed, MaxPlans,             \* of Plans
  People, Asked, Drawn, NoPlan, MaxUsers, MaxRequests, \* of Accounts
  Root, Demo,  \* the names of the default accounts' addresses
  MaxStarts,   \* bound: starts of the process
  MaxEdits     \* bound: what the admin does to the tables

VARIABLES
  plans, lastPlan,             \* the tables of Plans
  users, running, asked, told, \* of Accounts
  rows,    \* the others that are seeded, notices and servers: how often each default is there
  token,   \* the setting server_token: the start that drew it
  phase,   \* of the process
  table,   \* the table that is being seeded, and the defaults still to insert
  todo,
  listen,  \* ListenAndServe: running, or what it has sent to errCh
  starts,
  edits,
  late,    \* history: the deadline of the shutdown has passed
  cut,     \* history: the defaults a failure or a crash has kept from being inserted
  dropped, \* history: those an admin has deleted or given another name
  given    \* history: the token the nodes were given at first

database == <<plans, lastPlan, users, rows, token>>
requests == <<running, asked, told>>
history == <<late, cut, dropped, given>>
vars == <<database, requests, phase, table, todo, listen, starts, edits, history>>

Plan == INSTANCE Plans WITH Names <- PlanNames \cup {"Starter", "Pro"}
Account == INSTANCE Accounts

ASSUME ProcessAssumption ==
  /\ Plan!PlansAssumption /\ Account!AccountsAssumption
  /\ {Root, Demo} \subseteq People /\ Root # Demo
  /\ {"Starter", "Pro"} \cap PlanNames = {} \* a plan of such a name is the seed's
  /\ MaxStarts \in Nat /\ MaxEdits \in Nat

-----------------------------------------------------------------------------
(* Store.seed.                                                             *)

Tables == <<"plans", "notices", "servers", "users">>
Defaults == [plans |-> <<"Starter", "Pro">>, notices |-> <<"Welcome", "Password">>,
             servers |-> <<"Tokyo", "Singapore">>,
             users |-> <<Root, Demo>>]
Quota == [Starter |-> 128 * Gib, Pro |-> 512 * Gib]
Sort == [Starter |-> 1, Pro |-> 2]

\* SELECT COUNT(1)
Empty(t) ==
  CASE t = "plans" -> plans = {}
    [] t = "users" -> users = <<>>
    [] OTHER       -> \A d \in DOMAIN rows[t] : rows[t][d] = 0

\* Mutant: all defaults are inserted by every start.
MissingAll(t) == Defaults[t]
\* What is to be inserted: everything into an empty table, nothing into another.
Missing(t) == IF Empty(t) THEN Defaults[t] ELSE <<>>

\* main, app.New, store.New; the settings, where they are missing.
Start ==
  /\ phase = "down" /\ starts < MaxStarts
  /\ starts' = starts + 1
  /\ phase' = "seeding" /\ table' = 1 /\ todo' = Missing("plans")
  /\ token' = IF token = 0 THEN starts' ELSE token
  /\ UNCHANGED <<plans, lastPlan, users, rows, requests, listen, edits, history>>

\* One row.
Insert(t, d) ==
  /\ CASE t = "plans" -> Plan!CreatePlan(d, Quota[d], TRUE, Sort[d]) /\ UNCHANGED <<users, rows>>
       [] t = "users" -> /\ Account!CreateUser(Account!Address(d, FALSE), IF d = Root THEN 2 ELSE 1, "seed")
                         /\ UNCHANGED <<plans, lastPlan, rows>>
       [] OTHER       -> /\ rows' = [rows EXCEPT ![t][d] = @ + 1]
                         /\ UNCHANGED <<plans, lastPlan, users>>
SeedOne ==
  /\ phase = "seeding" /\ todo # <<>>
  /\ Insert(Tables[table], Head(todo))
  /\ todo' = Tail(todo)
  /\ UNCHANGED <<token, requests, phase, table, listen, starts, edits, history>>

\* The error of creating the demo account is ignored; any other ends the process,
\* which leaves what a crash would.
SkipDemo ==
  /\ phase = "seeding" /\ todo = <<Demo>>
  /\ todo' = <<>>
  /\ cut' = cut \cup {Demo}
  /\ UNCHANGED <<database, requests, phase, table, listen, starts, edits, late, dropped, given>>

\* The next table; after the last one the default links are repaired, and
\* ListenAndServe is called.
NextTable ==
  /\ phase = "seeding" /\ todo = <<>>
  /\ IF table < Len(Tables)
     THEN /\ table' = table + 1 /\ todo' = Missing(Tables[table + 1])
          /\ UNCHANGED <<phase, listen, given>>
     ELSE /\ phase' = "serving" /\ listen' = "running"
          /\ table' = 1
          /\ given' = IF given = 0 THEN token ELSE given
          /\ UNCHANGED todo
  /\ UNCHANGED <<database, requests, starts, edits, late, cut, dropped>>

-----------------------------------------------------------------------------
(* Serving.                                                                *)

\* A request that begins; once the listeners are closed none does.
Ask ==
  /\ phase = "serving" /\ listen = "running"
  /\ Account!Ask
  /\ UNCHANGED <<plans, lastPlan, rows, token, phase, table, todo, listen, starts, edits, history>>

\* One that goes on, until the database is closed.
Handling == phase \in {"serving", "draining", "closing"}
Proceed(r) ==
  /\ Handling
  /\ \/ Account!Proceed(r)
     \/ \E p \in plans : Plan!FirstShown(p) /\ Account!RegisterLooks(r, p.id)
     \/ ~(\E p \in plans : p.show) /\ Account!RegisterLooks(r, NoPlan)
  /\ UNCHANGED <<plans, lastPlan, rows, token, phase, table, todo, listen, starts, edits, history>>

\* The requests of the admin that are one statement.
Edits(some) ==
  /\ phase = "serving" /\ listen = "running"
  /\ edits < MaxEdits /\ edits' = edits + 1
  /\ UNCHANGED <<token, requests, phase, table, todo, listen, starts, late, cut, given>>

EditPlan ==
  /\ Edits(plans)
  /\ \/ /\ \/ \E name \in PlanNames, value \in Typed : Plan!adminPlanCreate(name, value, TRUE)
           \/ \E p \in plans : Plan!SaveUntouched(p)
           \/ \E p, q \in plans : p # q /\ Plan!adminPlanSort(<<p.id, q.id>>)
        /\ UNCHANGED dropped
     \/ \E p \in plans : \E name \in PlanNames \cup {p.name}, value \in Typed :
          /\ \/ Plan!adminPlanSave(p, name, value, FALSE, p.sort)
             \/ Plan!adminPlanSave(p, name, value, TRUE, 99)
          /\ dropped' = dropped \cup ({p.name} \ {name})
     \/ \E p \in plans : Plan!adminPlanDrop(p) /\ dropped' = dropped \cup {p.name}
  /\ UNCHANGED <<users, rows>>

\* adminNoticeDrop, adminServerDrop
DropRow ==
  /\ Edits(rows)
  /\ \E t \in DOMAIN rows : \E d \in DOMAIN rows[t] :
       /\ rows[t][d] > 0
       /\ rows' = [rows EXCEPT ![t][d] = @ - 1]
       /\ dropped' = dropped \cup {d}
  /\ UNCHANGED <<plans, lastPlan, users>>

EditUser ==
  /\ Edits(users)
  /\ \E id \in DOMAIN users, address \in Account!Addresses(Asked) :
       /\ Account!adminUserUpdate(id, address)
       /\ dropped' = dropped \cup ({users[id].email.name} \cap {Root, Demo})
  /\ UNCHANGED <<plans, lastPlan, rows>>

-----------------------------------------------------------------------------
(* The end.                                                                *)

\* ListenAndServe fails: its error waits in errCh.
ListenFails ==
  /\ listen = "running" /\ phase = "serving"
  /\ listen' = "failed"
  /\ UNCHANGED <<database, requests, phase, table, todo, starts, edits, history>>

\* The signal: Shutdown closes the listeners and waits for the handlers.
Signal ==
  /\ phase = "serving"
  /\ phase' = "draining"
  /\ UNCHANGED <<database, requests, table, todo, listen, starts, edits, history>>

\* ListenAndServe returns as its listeners are closed.
ListenEnds ==
  /\ phase \in {"draining", "closing", "waiting"} /\ listen = "running"
  /\ listen' = "closed"
  /\ UNCHANGED <<database, requests, phase, table, todo, starts, edits, history>>

\* Mutant: Close without Shutdown.
DrainedAtOnce ==
  /\ phase = "draining"
  /\ phase' = "closing"
  /\ UNCHANGED <<database, requests, table, todo, listen, starts, edits, history>>
Drained ==
  /\ phase = "draining" /\ running = {}
  /\ phase' = "closing"
  /\ UNCHANGED <<database, requests, table, todo, listen, starts, edits, history>>

\* Mutant: the context of Shutdown has no deadline.
DeadlineNever == FALSE /\ UNCHANGED vars
\* Ten seconds are over: Close drops the connections, and the handlers run on.
Deadline ==
  /\ phase = "draining"
  /\ phase' = "closing" /\ late' = TRUE
  /\ UNCHANGED <<database, requests, table, todo, listen, starts, edits, cut, dropped, given>>

\* main has the error of ListenAndServe and returns: cleanup closes the database,
\* under the handlers that still run.
CleanUp ==
  /\ phase = "closing" /\ listen = "closed"
  /\ phase' = "waiting"
  /\ UNCHANGED <<database, requests, table, todo, listen, starts, edits, history>>

\* The process is gone, its requests with it, and what was still to be inserted is not.
Gone ==
  /\ phase' = "down" /\ listen' = "none"
  /\ running' = {} /\ table' = 1 /\ todo' = <<>> /\ late' = FALSE
  /\ cut' = cut \cup {todo[i] : i \in DOMAIN todo}
  /\ UNCHANGED <<database, asked, told, starts, edits, dropped, given>>
Exit == phase = "waiting" /\ Gone
\* log.Fatalf, before the signal and after the drain: nothing is cleaned up.
Fatal == phase \in {"serving", "closing"} /\ listen = "failed" /\ Gone
Crash == phase # "down" /\ Gone

-----------------------------------------------------------------------------
Init ==
  /\ Plan!Init /\ Account!Init
  /\ rows = [t \in {"notices", "servers"} |->
               [d \in {Defaults[t][i] : i \in DOMAIN Defaults[t]} |-> 0]]
  /\ token = 0 /\ given = 0
  /\ phase = "down" /\ table = 1 /\ todo = <<>> /\ listen = "none"
  /\ starts = 0 /\ edits = 0 /\ late = FALSE /\ cut = {} /\ dropped = {}

Next ==
  \/ Start \/ SeedOne \/ SkipDemo \/ NextTable
  \/ Ask \/ (\E r \in running : Proceed(r))
  \/ EditPlan \/ DropRow \/ EditUser
  \/ ListenFails \/ Signal \/ ListenEnds \/ Drained \/ Deadline \/ CleanUp
  \/ Exit \/ Fatal \/ Crash

\* The timer of the shutdown fires, and the runtime goes on with main and with the
\* goroutine of ListenAndServe; that a handler ever ends is not assumed.
WindUp == Deadline \/ ListenEnds \/ CleanUp \/ Exit \/ Fatal

Spec == Init /\ [][Next]_vars /\ WF_vars(WindUp)

-----------------------------------------------------------------------------
(* Properties.                                                             *)

TypeOK ==
  /\ Plan!TypeOK /\ Account!TypeOK
  /\ \A t \in DOMAIN rows : \A d \in DOMAIN rows[t] : rows[t][d] \in 0 .. 1
  /\ token \in 0 .. starts /\ given \in {0, token}
  /\ phase \in {"down", "seeding", "serving", "draining", "closing", "waiting"}
  /\ table \in DOMAIN Tables /\ listen \in {"none", "running", "closed", "failed"}

\* How often a default is there.
Copies(t, d) ==
  CASE t = "plans" -> Cardinality({p \in plans : p.name = d})
    [] t = "users" -> Cardinality({i \in DOMAIN users : users[i].by = "seed" /\ users[i].email.name = d})
    [] OTHER       -> rows[t][d]

\* However often the process is killed and started again, each default is there once
\* when it serves -- or an admin has deleted or renamed it, or a start was cut short before it:
\* then no later start makes up for it.  The plan of a default account is there, or is
\* accounted for in the same way; and the token is the one the nodes were given.
DefaultsAccountedFor ==
  phase = "serving" =>
    /\ \A i \in DOMAIN Tables : LET t == Tables[i] IN
         \A j \in DOMAIN Defaults[t] : LET d == Defaults[t][j] IN
           Copies(t, d) = 1 \/ (Copies(t, d) = 0 /\ d \in cut \cup dropped)
    /\ \A i \in DOMAIN users : users[i].by = "seed" =>
         \/ \E p \in plans : p.id = users[i].plan
         \/ {"Starter", "Pro"} \cap (cut \cup dropped) # {}
    /\ token = given

\* The database is closed under a running request only when the deadline has passed.
DrainedFirst == phase = "waiting" /\ running # {} => late

\* After a signal the process ends, though a handler may hang.
ShutdownEnds == phase = "draining" ~> phase = "down"

OwnerSignsIn == Account!OwnerSignsIn
EditKeepsQuota == Plan!StoredInBytes /\ Plan!EditKeepsQuota
=============================================================================
