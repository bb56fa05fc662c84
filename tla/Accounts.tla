------------------------------- MODULE Accounts ------------------------------
(***************************************************************************)
(* How accounts come to be and which one an address signs in to:           *)
(* passportRegister, passportLogin, adminUserGenerate and adminUserUpdate  *)
(* (src/internal/httpapi/server.go) over the table of users, with          *)
(* requests running side by side.                                          *)
(*                                                                         *)
(* Addresses are looked up without regard to case, but the index that      *)
(* keeps them apart distinguishes it, and only passportRegister stores     *)
(* them in lower case.                                                     *)
(*                                                                         *)
(* Abstractions: an address is a name and whether it is written with       *)
(* capitals; the addresses adminUserGenerate draws never meet another.     *)
(* What a row has besides is the matter of UserRows and SubscriptionLinks. *)
(***************************************************************************)
EXTENDS Integers, Sequences, FiniteSets

CONSTANTS
  People, Drawn, \* names of addresses; the name of all that are drawn
  Asked,         \* bound: those of People that requests are about
  NoPlan,        \* the plan id of an account without one
  MaxUsers,      \* bound: rows
  MaxRequests    \* bound: requests of several steps

\* What Process assumes of them.
AccountsAssumption ==
  Drawn \notin People /\ Asked \subseteq People /\ MaxUsers \in Nat /\ MaxRequests \in Nat

VARIABLES
  users,   \* the rows in the order of their ids; none is ever deleted
  running, \* the requests of several steps that run
  asked,   \* how many there were
  told     \* history: the accounts whose owners were told of their registration

accountsVars == <<users, running, asked, told>>

Address(name, capitals) == [name |-> name, capitals |-> capitals]
lower(address) == Address(address.name, FALSE)

\* The UNIQUE index.
Taken(address) ==
  address.name # Drawn /\ \E id \in DOMAIN users : users[id].email = address

\* UserByEmail: the first row that lower() finds.
Matches(address) == {id \in DOMAIN users : lower(users[id].email) = lower(address)}
UserByEmail(address) == CHOOSE id \in Matches(address) : \A j \in Matches(address) : id <= j

\* CreateUser
CreateUser(address, plan, by) ==
  /\ Len(users) < MaxUsers
  /\ users' = Append(users, [email |-> address, plan |-> plan, by |-> by])

-----------------------------------------------------------------------------
(* passportRegister, for an address that is typed as it may be.            *)

Asks(request) ==
  /\ asked < MaxRequests
  /\ asked' = asked + 1
  /\ running' = running \cup {[request EXCEPT !.n = asked + 1]}
  /\ UNCHANGED <<users, told>>

\* Mutant: the address is trimmed only.
passportRegisterAsTyped(address) ==
  Asks([n |-> 0, at |-> "look", email |-> address, left |-> 1, plan |-> NoPlan, id |-> 0])
passportRegister(address) ==
  Asks([n |-> 0, at |-> "look", email |-> lower(address), left |-> 1, plan |-> NoPlan, id |-> 0])

Goes(r, s) == running' = (running \ {r}) \cup {s}
Ends(r) == running' = running \ {r}

\* Whoever has the address is looked up, then the first plan that is shown.
RegisterLooks(r, plan) ==
  /\ r \in running /\ r.at = "look"
  /\ IF Matches(r.email) # {} THEN Ends(r)
     ELSE Goes(r, [r EXCEPT !.at = "insert", !.plan = plan])
  /\ UNCHANGED <<users, asked, told>>

RegisterInserts(r) ==
  /\ r \in running /\ r.at = "insert"
  /\ IF Taken(r.email) THEN Ends(r) /\ UNCHANGED users
     ELSE /\ CreateUser(r.email, r.plan, "register")
          /\ Goes(r, [r EXCEPT !.at = "issue", !.id = Len(users) + 1])
  /\ UNCHANGED <<asked, told>>

\* Issue: without a token the answer is an error, but the account is there.
RegisterAnswers(r, issued) ==
  /\ r \in running /\ r.at = "issue"
  /\ Ends(r)
  /\ told' = told \cup {id \in {r.id} : issued}
  /\ UNCHANGED <<users, asked>>

-----------------------------------------------------------------------------
(* The admin.                                                              *)

\* adminUserGenerate: the first address is typed, the others are drawn.  One where all
\* are drawn does what is left of this one after its first turn.
adminUserGenerate(address, count) ==
  Asks([n |-> 0, at |-> "generate", email |-> address, left |-> count, plan |-> NoPlan, id |-> 0])

\* One turn of its loop; the first that fails ends it, and what was made stays.
GenerateInserts(r) ==
  /\ r \in running /\ r.at = "generate"
  /\ IF Taken(r.email) THEN Ends(r) /\ UNCHANGED users
     ELSE /\ CreateUser(r.email, r.plan, "admin")
          /\ IF r.left = 1 THEN Ends(r)
             ELSE Goes(r, [r EXCEPT !.left = @ - 1, !.email = Address(Drawn, FALSE)])
  /\ UNCHANGED <<asked, told>>

\* adminUserUpdate gives an account another address, as it is typed.
adminUserUpdate(id, address) ==
  /\ id \in DOMAIN users /\ ~Taken(address)
  /\ users' = [users EXCEPT ![id].email = address, ![id].by = "admin"]
  /\ UNCHANGED <<running, asked, told>>

-----------------------------------------------------------------------------
Init == users = <<>> /\ running = {} /\ asked = 0 /\ told = {}

Addresses(names) == {Address(name, capitals) : name \in names, capitals \in BOOLEAN}

Proceed(r) ==
  \/ RegisterInserts(r)
  \/ \E issued \in BOOLEAN : RegisterAnswers(r, issued)
  \/ GenerateInserts(r)

Ask ==
  \E address \in Addresses(Asked) :
    passportRegister(address) \/ (\E count \in 1 .. 2 : adminUserGenerate(address, count))

-----------------------------------------------------------------------------
(* Properties.                                                             *)

TypeOK ==
  /\ users \in Seq([email : Addresses(People) \cup {Address(Drawn, FALSE)},
                    plan : Nat \cup {NoPlan}, by : {"seed", "register", "admin"}])
  /\ \A r \in running : r.at \in {"look", "insert", "issue", "generate"} /\ r.n \in 1 .. asked
  /\ told \subseteq DOMAIN users

\* Whoever was told of a registration signs in with the address of it, to that account
\* and no other -- as long as no admin has typed the same address with capitals, or
\* another one for this account.  Registrations that run side by side never shadow
\* each other.
OwnerSignsIn ==
  \A id \in told : users[id].by = "register" =>
    LET first == UserByEmail(users[id].email)
    IN  first = id \/ users[first].email.capitals
=============================================================================
