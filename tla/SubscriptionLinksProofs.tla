----------------------- MODULE SubscriptionLinksProofs -----------------------
(* Proofs about SubscriptionLinks, for all values of its constants.        *)
EXTENDS SubscriptionLinks, NaturalsInduction, WellFoundedInduction, TLAPS

-----------------------------------------------------------------------------
(* The table by itself: what each transaction makes of it.                 *)

RowSet(S) == [user : UserIds, suffix : S, primary : BOOLEAN, enabled : BOOLEAN]

RowsIn(L, S) == \A i \in DOMAIN L : L[i] \in RowSet(S)
OnePrimary(L) ==
  \A i, j \in DOMAIN L : L[i].user = L[j].user /\ L[i].primary /\ L[j].primary => i = j
Unique(L) == \A i, j \in DOMAIN L : L[i].suffix = L[j].suffix => i = j
Table(L, S) == RowsIn(L, S) /\ OnePrimary(L) /\ Unique(L)

\* M has L's rows and perhaps row i, every row still with its owner, and no
\* suffix but L's own at the same place and s at i.
Derived(M, L, i, s) ==
  /\ DOMAIN M \subseteq DOMAIN L \cup {i}
  /\ \A j \in DOMAIN M \cap DOMAIN L : M[j].user = L[j].user
  /\ \A j \in DOMAIN M : \/ j \in DOMAIN L /\ M[j].suffix = L[j].suffix
                         \/ j = i /\ M[j].suffix = s

\* D is L with the primary flags of w's user cleared if w is primary.
Demotion(D, L, w) ==
  /\ DOMAIN D = DOMAIN L
  /\ \A i \in DOMAIN L :
       /\ D[i].user = L[i].user
       /\ D[i].suffix = L[i].suffix
       /\ D[i].primary => L[i].primary
       /\ w.primary /\ L[i].user = w.user => ~D[i].primary

\* Demoting touches nothing but the primary flags of the one user.
LEMMA DemotedTable ==
  ASSUME NEW S, NEW L, NEW w, RowsIn(L, S)
  PROVE  RowsIn(Demoted(L, w), S) /\ Demotion(Demoted(L, w), L, w)
  <1>1. CASE w.primary
    <2>1. Demoted(L, w) = [i \in DOMAIN L |-> IF L[i].user = w.user
                             THEN [L[i] EXCEPT !.primary = FALSE] ELSE L[i]]
      BY <1>1 DEF Demoted
    <2>2. DOMAIN Demoted(L, w) = DOMAIN L
      BY <2>1
    <2>3. ASSUME NEW i \in DOMAIN L
          PROVE  /\ Demoted(L, w)[i] \in RowSet(S)
                 /\ Demoted(L, w)[i].user = L[i].user
                 /\ Demoted(L, w)[i].suffix = L[i].suffix
                 /\ Demoted(L, w)[i].primary => L[i].primary
                 /\ L[i].user = w.user => ~Demoted(L, w)[i].primary
      <3>1. L[i] \in RowSet(S)
        BY DEF RowsIn
      <3>2. Demoted(L, w)[i] = IF L[i].user = w.user
                                 THEN [L[i] EXCEPT !.primary = FALSE] ELSE L[i]
        BY <2>1
      <3>3. QED
        BY <3>1, <3>2 DEF RowSet
    <2>4. QED
      BY <2>2, <2>3, <1>1 DEF RowsIn, Demotion
  <1>2. CASE ~w.primary
    BY <1>2 DEF Demoted, RowsIn, Demotion
  <1>3. QED
    BY <1>1, <1>2

\* CreateSubscriptionLink keeps the table in order.
LEMMA InsertedTable ==
  ASSUME NEW S, NEW L, NEW w, w \in RowSet(S), NEW i, i \notin DOMAIN L, Table(L, S)
  PROVE  Table(Inserted(L, i, w), S) /\ Derived(Inserted(L, i, w), L, i, w.suffix)
  <1>1. CASE Taken(L, i, w.suffix)
    BY <1>1 DEF Inserted, Derived
  <1>2. CASE ~Taken(L, i, w.suffix)
    <2> DEFINE D == Demoted(L, w)
               M == [j \in DOMAIN L \cup {i} |-> IF j = i THEN w ELSE D[j]]
    <2>1. Inserted(L, i, w) = M
      BY <1>2 DEF Inserted
    <2>2. RowsIn(D, S) /\ Demotion(D, L, w)
      BY DemotedTable DEF Table
    <2>3. DOMAIN D = DOMAIN L
      BY <2>2 DEF Demotion
    <2> HIDE DEF D
    <2>4. \A j \in DOMAIN L : j # i /\ M[j] = D[j]
      OBVIOUS
    <2>5. DOMAIN M = DOMAIN L \cup {i} /\ M[i] = w
      OBVIOUS
    <2>6. \A j \in DOMAIN L : L[j].suffix # w.suffix
      BY <1>2 DEF Taken
    <2> HIDE DEF M
    <2>7. RowsIn(M, S)
      BY <2>2, <2>3, <2>4, <2>5 DEF RowsIn
    <2>8. OnePrimary(M)
      BY <2>2, <2>3, <2>4, <2>5 DEF OnePrimary, Table, Demotion
    <2>9. Unique(M)
      BY <2>2, <2>3, <2>4, <2>5, <2>6 DEF Unique, Table, Demotion
    <2>10. Derived(M, L, i, w.suffix)
      BY <2>2, <2>3, <2>4, <2>5 DEF Derived, Demotion
    <2>11. QED
      BY <2>1, <2>7, <2>8, <2>9, <2>10 DEF Table
  <1>3. QED
    BY <1>1, <1>2

\* UpdateSubscriptionLink keeps the table in order if the caller holds the
\* row's owner, however stale the rest of what it holds.
LEMMA UpdatedTable ==
  ASSUME NEW S, NEW L, NEW w, w.primary \in BOOLEAN, w.enabled \in BOOLEAN, w.suffix \in S,
         w.id \in DOMAIN L => w.user = L[w.id].user, Table(L, S)
  PROVE  /\ Table(Updated(L, w), S) /\ Derived(Updated(L, w), L, w.id, w.suffix)
         /\ w.id \in DOMAIN L /\ ~Taken(L, w.id, w.suffix) =>
              w.id \in DOMAIN Updated(L, w) /\ Updated(L, w)[w.id].suffix = w.suffix
  <1>1. CASE w.id \in DOMAIN L /\ Taken(L, w.id, w.suffix)
    BY <1>1 DEF Updated, Derived
  <1>2. CASE ~(w.id \in DOMAIN L /\ Taken(L, w.id, w.suffix))
    <2> DEFINE D == Demoted(L, w)
               M == [j \in DOMAIN L |->
                       IF j = w.id
                       THEN [L[j] EXCEPT !.suffix = w.suffix, !.primary = w.primary,
                                         !.enabled = w.enabled]
                       ELSE D[j]]
    <2>1. Updated(L, w) = M
      BY <1>2 DEF Updated
    <2>2. RowsIn(D, S) /\ Demotion(D, L, w)
      BY DemotedTable DEF Table
    <2> HIDE DEF D
    <2>3. DOMAIN M = DOMAIN L /\ \A j \in DOMAIN L : j # w.id => M[j] = D[j]
      OBVIOUS
    <2>4. w.id \in DOMAIN L => /\ M[w.id] \in RowSet(S)
                               /\ M[w.id].user = w.user
                               /\ M[w.id].suffix = w.suffix
                               /\ M[w.id].primary = w.primary
      <3>1. SUFFICES ASSUME w.id \in DOMAIN L
                     PROVE  /\ M[w.id] \in RowSet(S) /\ M[w.id].user = w.user
                            /\ M[w.id].suffix = w.suffix /\ M[w.id].primary = w.primary
        OBVIOUS
      <3>2. L[w.id] \in RowSet(S)
        BY <3>1 DEF Table, RowsIn
      <3>3. M[w.id] = [L[w.id] EXCEPT !.suffix = w.suffix, !.primary = w.primary,
                                      !.enabled = w.enabled]
        BY <3>1
      <3>4. QED
        BY <3>1, <3>2, <3>3 DEF RowSet
    <2>5. w.id \in DOMAIN L => \A j \in DOMAIN L : j # w.id => L[j].suffix # w.suffix
      BY <1>2 DEF Taken
    <2> HIDE DEF M
    <2>6. RowsIn(M, S)
      BY <2>2, <2>3, <2>4 DEF RowsIn, Demotion
    <2>7. OnePrimary(M)
      BY <2>2, <2>3, <2>4 DEF OnePrimary, Table, Demotion
    <2>8. Unique(M)
      BY <2>2, <2>3, <2>4, <2>5 DEF Unique, Table, Demotion
    <2>9. Derived(M, L, w.id, w.suffix)
      BY <2>2, <2>3, <2>4 DEF Derived, Demotion
    <2>10. QED
      BY <2>1, <2>3, <2>4, <2>6, <2>7, <2>8, <2>9 DEF Table
  <1>3. QED
    BY <1>1, <1>2

\* DeleteSubscriptionLink keeps the table in order: the heir is made primary
\* only in place of the user's one primary link.
LEMMA DeletedTable ==
  ASSUME NEW S, NEW L, NEW i \in DOMAIN L, DOMAIN L \subseteq Nat, Table(L, S)
  PROVE  Table(Deleted(L, i), S) /\ Derived(Deleted(L, i), L, 0, 0)
  <1> DEFINE rest == DOMAIN L \ {i}
             heir(j) == /\ L[i].primary /\ L[j].user = L[i].user
                        /\ \A k \in rest : L[k].user = L[i].user => j <= k
             M == [j \in rest |-> IF heir(j) THEN [L[j] EXCEPT !.primary = TRUE] ELSE L[j]]
  <1>1. Deleted(L, i) = M
    BY DEF Deleted
  <1>2. \A j \in rest : /\ M[j] \in RowSet(S)
                        /\ M[j].user = L[j].user
                        /\ M[j].suffix = L[j].suffix
                        /\ M[j].primary => L[j].primary \/ heir(j)
    BY DEF Table, RowsIn, RowSet
  <1>3. \A j, k \in rest : heir(j) /\ heir(k) => j = k
    OBVIOUS
  <1>4. \A j, k \in rest : heir(j) /\ L[k].user = L[i].user => ~L[k].primary
    BY DEF Table, OnePrimary
  <1>5. \A j \in rest : heir(j) => L[j].user = L[i].user
    OBVIOUS
  <1>6. DOMAIN M = rest
    OBVIOUS
  <1> HIDE DEF M, heir
  <1>7. OnePrimary(M)
    BY <1>2, <1>3, <1>4, <1>5, <1>6 DEF OnePrimary, Table
  <1>8. RowsIn(M, S) /\ Unique(M) /\ Derived(M, L, 0, 0)
    BY <1>2, <1>6 DEF RowsIn, Unique, Derived, Table
  <1>9. QED
    BY <1>1, <1>7, <1>8 DEF Table

-----------------------------------------------------------------------------
(* The inductive invariant.                                                *)

\* Whatever else in a held row is stale, its owner is not: rows never change
\* hands, and ids are not used again.
HeldOwner ==
  \A p \in Procs : \A w \in op[p].todo :
    w.id \in DOMAIN links => w.user = links[w.id].user

\* A reset under way: the links it has still to write are the only ones left
\* with a suffix it listed.
ResetRevoking ==
  \A p \in Procs : op[p].kind = "reset" =>
    /\ op[p].todo \subseteq watch[p].before
    /\ \A v, w \in watch[p].before : v.id = w.id => v = w
    /\ \A w \in watch[p].before : w.suffix \in Suffixes
    /\ ~watch[p].typed =>
         \A w \in watch[p].before : \A j \in DOMAIN links :
           links[j].suffix = w.suffix => j = w.id /\ w \in op[p].todo

Inv == TypeOK /\ Table(links, Suffixes) /\ HeldOwner /\ ResetRevoking

\* An account under creation has an id, whether or not it is deleted again.
Creating == \A a \in Actors : op[a].kind = "create" => op[a].user \in UserIds

OpType(H) == [Actors -> [kind : {"idle", "create", "save", "reset"},
                         user : 0 .. MaxUser, todo : SUBSET H]]
WatchType(H) == [Procs -> [before : SUBSET H, typed : BOOLEAN, touched : BOOLEAN]]

\* What handlers hold stays well typed when the counters grow.
LEMMA HeldGrows ==
  ASSUME TypeOK, lastLink' \in Nat, drawn' \in Nat, lastLink <= lastLink', drawn <= drawn'
  PROVE  /\ HeldRow \subseteq HeldRow' /\ Suffixes \subseteq Suffixes'
         /\ op \in OpType(HeldRow') /\ watch \in WatchType(HeldRow')
  <1>1. Suffixes \subseteq Suffixes' /\ 1 .. lastLink \subseteq 1 .. lastLink'
    BY DEF TypeOK, Suffixes
  <1>2. HeldRow \subseteq HeldRow'
    BY <1>1 DEF HeldRow
  <1>3. op \in OpType(HeldRow) /\ watch \in WatchType(HeldRow)
    BY DEF TypeOK, OpType, WatchType
  <1>4. SUBSET HeldRow \subseteq SUBSET HeldRow'
    BY <1>2
  <1>5. op \in OpType(HeldRow')
    BY <1>3, <1>4 DEF OpType
  <1>6. watch \in WatchType(HeldRow')
    BY <1>3, <1>4 DEF WatchType
  <1>7. QED
    BY <1>1, <1>2, <1>5, <1>6

\* The next random suffix is on no link and in no handler's list.
LEMMA NextDrawIsFresh ==
  ASSUME TypeOK
  PROVE  drawn + 1 \notin Suffixes /\ 0 \notin Suffixes
  BY ConstantsAssumption DEF TypeOK, Suffixes

\* Nothing moves an owner away from a row that somebody holds.
LEMMA WriteKeepsHeldOwner ==
  ASSUME Inv, NEW i, NEW s, Derived(links', links, i, s),
         i \in DOMAIN links' => i \in DOMAIN links \/ i = lastLink + 1,
         \A p \in Procs : op'[p].todo \subseteq op[p].todo
  PROVE  HeldOwner'
  <1>1. SUFFICES ASSUME NEW p \in Procs, NEW w \in op'[p].todo, w.id \in DOMAIN links'
                 PROVE  w.user = links'[w.id].user
    BY DEF HeldOwner
  <1>2. w \in op[p].todo
    BY <1>1
  <1>3. w.id \in 1 .. lastLink
    BY <1>2 DEF Inv, TypeOK, HeldRow, Actors
  <1>4. w.id \in DOMAIN links
    BY <1>1, <1>3 DEF Derived, Inv, TypeOK
  <1>5. QED
    BY <1>1, <1>2, <1>4 DEF Derived, Inv, HeldOwner

\* A write that brings no suffix but a fresh one undoes no reset.
LEMMA FreshKeepsRevoking ==
  ASSUME Inv, NEW i, NEW s, s \notin Suffixes, Derived(links', links, i, s),
         drawn' \in Nat, drawn <= drawn',
         \A p \in Procs : op'[p].kind = "reset" =>
           /\ op[p].kind = "reset" /\ op'[p].todo = op[p].todo
           /\ watch'[p].before = watch[p].before
           /\ ~watch'[p].typed => ~watch[p].typed
  PROVE  ResetRevoking'
  <1>1. SUFFICES ASSUME NEW p \in Procs, op'[p].kind = "reset"
                 PROVE  /\ op'[p].todo \subseteq watch'[p].before
                        /\ \A v, w \in watch'[p].before : v.id = w.id => v = w
                        /\ \A w \in watch'[p].before : w.suffix \in Suffixes'
                        /\ ~watch'[p].typed =>
                             \A w \in watch'[p].before : \A j \in DOMAIN links' :
                               links'[j].suffix = w.suffix => j = w.id /\ w \in op'[p].todo
    BY DEF ResetRevoking
  <1>2. /\ op[p].kind = "reset" /\ op'[p].todo = op[p].todo
        /\ watch'[p].before = watch[p].before
        /\ ~watch'[p].typed => ~watch[p].typed
    BY <1>1
  <1>3. /\ op[p].todo \subseteq watch[p].before
        /\ \A v, w \in watch[p].before : v.id = w.id => v = w
        /\ \A w \in watch[p].before : w.suffix \in Suffixes
        /\ ~watch[p].typed =>
             \A w \in watch[p].before : \A j \in DOMAIN links :
               links[j].suffix = w.suffix => j = w.id /\ w \in op[p].todo
    BY <1>2 DEF Inv, ResetRevoking
  <1>4. Suffixes \subseteq Suffixes'
    BY DEF Inv, TypeOK, Suffixes
  <1>5. ASSUME NEW w \in watch[p].before, NEW j \in DOMAIN links',
               links'[j].suffix = w.suffix, ~watch[p].typed
        PROVE  j = w.id /\ w \in op[p].todo
    <2>1. links'[j].suffix # s
      BY <1>3, <1>5
    <2>2. j \in DOMAIN links /\ links'[j].suffix = links[j].suffix
      BY <2>1 DEF Derived
    <2>3. QED
      BY <1>3, <1>5, <2>2
  <1>6. QED
    BY <1>2, <1>3, <1>4, <1>5

\* After a write with a suffix a person chose, resets in flight promise nothing.
LEMMA TypedKeepsRevoking ==
  ASSUME Inv, drawn' \in Nat, drawn <= drawn',
         \A p \in Procs : op'[p].kind = "reset" =>
           /\ op[p].kind = "reset" /\ op'[p].todo = op[p].todo
           /\ watch'[p].before = watch[p].before /\ watch'[p].typed
  PROVE  ResetRevoking'
  <1>1. Suffixes \subseteq Suffixes'
    BY DEF Inv, TypeOK, Suffixes
  <1>2. QED
    BY <1>1 DEF Inv, ResetRevoking

-----------------------------------------------------------------------------
(* One lemma per action.                                                   *)

Tables == <<links, lastLink, drawn>>

\* A step that leaves the table alone and starts no save and no reset.
LEMMA QuietStep ==
  ASSUME Inv, UNCHANGED Tables, TypeOK',
         \A p \in Procs : op'[p].todo \subseteq op[p].todo,
         \A p \in Procs : op'[p].kind = "reset" => op'[p] = op[p] /\ watch'[p] = watch[p]
  PROVE  Inv'
  <1>1. links' = links /\ lastLink' = lastLink /\ drawn' = drawn /\ Suffixes' = Suffixes
    BY DEF Tables, Suffixes
  <1>2. Table(links', Suffixes')
    BY <1>1 DEF Inv
  <1>3. Derived(links', links, 0, 0)
    BY <1>1 DEF Derived
  <1>4. drawn' \in Nat /\ drawn <= drawn' /\ 0 \notin Suffixes
    BY <1>1, NextDrawIsFresh DEF Inv, TypeOK
  <1>5. 0 \notin DOMAIN links'
    BY <1>1 DEF Inv, TypeOK
  <1>6. HeldOwner'
    BY <1>3, <1>5, WriteKeepsHeldOwner
  <1>7. ResetRevoking'
    BY <1>3, <1>4, FreshKeepsRevoking
  <1>8. QED
    BY <1>2, <1>6, <1>7 DEF Inv

\* The operation of an actor that does nothing is well typed.
LEMMA IdleIsTyped ==
  /\ \A H : Idle \in [kind : {"idle", "create", "save", "reset"},
                      user : 0 .. MaxUser, todo : SUBSET H]
  /\ \A H : Quiet \in [before : SUBSET H, typed : BOOLEAN, touched : BOOLEAN]
  BY ConstantsAssumption DEF Idle, Quiet

\* A new row in users leaves the links alone.
LEMMA InsertUserStep ==
  ASSUME Inv, NEW a \in Actors, InsertUser(a), seeds' \in 0 .. 2
  PROVE  Inv'
  <1> USE DEF InsertUser
  <1>1. UNCHANGED Tables /\ HeldRow' = HeldRow /\ Suffixes' = Suffixes
    BY DEF Tables, HeldRow, Suffixes
  <1>2. op' \in OpType(HeldRow)
    BY ConstantsAssumption DEF Inv, TypeOK, OpType
  <1>3. TypeOK'
    BY <1>1, <1>2, ConstantsAssumption DEF Inv, TypeOK, OpType, Row
  <1>4. \A p \in Procs : /\ op'[p].todo \subseteq op[p].todo
                         /\ op'[p].kind = "reset" => op'[p] = op[p] /\ watch'[p] = watch[p]
    BY DEF Inv, TypeOK, Actors
  <1>5. QED
    BY <1>1, <1>3, <1>4, QuietStep

\* A handler that stops half-way leaves the tables alone.
LEMMA AbortStep ==
  ASSUME Inv, NEW p \in Procs, Abort(p) \/ ResetReply(p)
  PROVE  Inv'
  <1>0. /\ op' = [op EXCEPT ![p] = Idle] /\ watch' = [watch EXCEPT ![p] = Quiet]
        /\ UNCHANGED <<users, lastUser, links, lastLink, drawn, phase, seeds, ensure>>
    BY DEF Abort, ResetReply
  <1>1. UNCHANGED Tables /\ HeldRow' = HeldRow /\ Suffixes' = Suffixes
    BY <1>0 DEF Tables, HeldRow, Suffixes
  <1>2. op' \in OpType(HeldRow)
    BY <1>0, IdleIsTyped DEF Inv, TypeOK, OpType
  <1>3. watch' \in WatchType(HeldRow)
    BY <1>0, IdleIsTyped DEF Inv, TypeOK, WatchType
  <1>4. TypeOK'
    BY <1>0, <1>1, <1>2, <1>3 DEF Inv, TypeOK, OpType, WatchType, Row
  <1>5. \A q \in Procs : /\ op'[q].todo \subseteq op[q].todo
                         /\ op'[q].kind = "reset" => op'[q] = op[q] /\ watch'[q] = watch[q]
    BY <1>0 DEF Inv, TypeOK, Actors, Idle
  <1>6. QED
    BY <1>1, <1>4, <1>5, QuietStep

\* A seed that fails leaves the tables alone.
LEMMA SeedDemoFailsStep ==
  ASSUME Inv, SeedDemoFails
  PROVE  Inv'
  <1> USE DEF SeedDemoFails
  <1>1. UNCHANGED Tables /\ HeldRow' = HeldRow /\ Suffixes' = Suffixes
    BY DEF Tables, HeldRow, Suffixes
  <1>2. op' \in OpType(HeldRow)
    BY IdleIsTyped DEF Inv, TypeOK, OpType
  <1>3. TypeOK'
    BY <1>1, <1>2 DEF Inv, TypeOK, OpType, Row
  <1>4. \A q \in Procs : /\ op'[q].todo \subseteq op[q].todo
                         /\ op'[q].kind = "reset" => op'[q] = op[q] /\ watch'[q] = watch[q]
    BY ConstantsAssumption DEF Inv, TypeOK, Actors, Idle
  <1>5. QED
    BY <1>1, <1>3, <1>4, QuietStep

\* Start-up moving on leaves the tables alone.
LEMMA EnsureServeStep ==
  ASSUME Inv, EnsureList \/ Serve
  PROVE  Inv'
  <1> USE DEF EnsureList, Serve
  <1>1. UNCHANGED Tables /\ HeldRow' = HeldRow /\ Suffixes' = Suffixes
    BY DEF Tables, HeldRow, Suffixes
  <1>2. TypeOK'
    BY <1>1 DEF Inv, TypeOK, Row
  <1>3. op' = op /\ watch' = watch
    OBVIOUS
  <1>4. QED
    BY <1>1, <1>2, <1>3, QuietStep

\* A crash leaves the tables alone, and no reset runs after it.
LEMMA CrashStep ==
  ASSUME Inv, Crash
  PROVE  Inv'
  <1> USE DEF Crash
  <1>1. UNCHANGED Tables /\ HeldRow' = HeldRow /\ Suffixes' = Suffixes
    BY DEF Tables, HeldRow, Suffixes
  <1>2. op' \in OpType(HeldRow) /\ watch' \in WatchType(HeldRow)
    BY IdleIsTyped DEF OpType, WatchType
  <1>3. TypeOK'
    BY <1>1, <1>2 DEF Inv, TypeOK, OpType, WatchType, Row
  <1>4. \A q \in Procs : op'[q].todo = {} /\ op'[q].kind # "reset"
    BY DEF Actors, Idle
  <1>5. QED
    BY <1>1, <1>3, <1>4, QuietStep

\* The table stays in order when the set of suffixes grows.
LEMMA TableGrows ==
  ASSUME NEW S, NEW T, NEW L, S \subseteq T, Table(L, S)
  PROVE  Table(L, T)
  <1>1. RowSet(S) \subseteq RowSet(T)
    BY DEF RowSet
  <1>2. QED
    BY <1>1 DEF Table, RowsIn

\* TypeOK asks of the table what Table asks of it.
LEMMA TableTyped ==
  ASSUME Table(links, Suffixes)
  PROVE  \A i \in DOMAIN links : links[i] \in Row
  BY DEF Table, RowsIn, RowSet, Row

\* What a note about a write changes in the history of the resets.
LEMMA NoteEffect ==
  ASSUME TypeOK, NEW a, NEW u, NEW typed \in BOOLEAN, Note(a, u, typed)
  PROVE  /\ watch' \in WatchType(HeldRow)
         /\ \A p \in Procs : /\ watch'[p].before = watch[p].before
                             /\ ~watch'[p].typed => ~watch[p].typed
                             /\ p # a /\ op[p].kind = "reset" /\ typed => watch'[p].typed
  <1>1. ASSUME NEW p \in Procs
        PROVE  /\ watch'[p] \in [before : SUBSET HeldRow, typed : BOOLEAN, touched : BOOLEAN]
               /\ watch'[p].before = watch[p].before
               /\ ~watch'[p].typed => ~watch[p].typed
               /\ p # a /\ op[p].kind = "reset" /\ typed => watch'[p].typed
    <2>1. watch[p] \in [before : SUBSET HeldRow, typed : BOOLEAN, touched : BOOLEAN]
      BY DEF TypeOK
    <2>2. CASE p # a /\ op[p].kind = "reset"
      <3>1. watch'[p] = [watch[p] EXCEPT !.typed = @ \/ typed, !.touched = @ \/ op[p].user = u]
        BY <2>2 DEF Note
      <3>2. QED
        BY <2>1, <2>2, <3>1
    <2>3. CASE ~(p # a /\ op[p].kind = "reset")
      <3>1. watch'[p] = watch[p]
        BY <2>3 DEF Note
      <3>2. QED
        BY <2>1, <2>3, <3>1
    <2>4. QED
      BY <2>2, <2>3
  <1>2. watch' = [p \in Procs |-> watch'[p]]
    BY DEF Note
  <1>3. QED
    BY <1>1, <1>2 DEF WatchType

\* A default link: the new row is the only thing that is new.
LEMMA DefaultLinkEffect ==
  ASSUME Inv, NEW a, NEW u \in UserIds, InsertDefaultLink(a, u)
  PROVE  /\ Table(links', Suffixes')
         /\ Derived(links', links, lastLink + 1, drawn + 1)
         /\ lastLink' = lastLink + 1 /\ lastLink' \in 0 .. MaxLink
         /\ drawn' = drawn + 1 /\ drawn' \in 0 .. MaxDraw
         /\ DOMAIN links' \subseteq 1 .. lastLink'
         /\ Note(a, u, FALSE)
  <1> DEFINE w == [user |-> u, suffix |-> drawn + 1, primary |-> TRUE, enabled |-> TRUE]
  <1>0. /\ links' = Inserted(links, lastLink + 1, w) /\ Note(a, u, FALSE)
        /\ lastLink < MaxLink /\ lastLink' = lastLink + 1
        /\ drawn < MaxDraw /\ drawn' = drawn + 1
    BY DEF InsertDefaultLink, Draw
  <1> HIDE DEF w
  <1>1. lastLink' \in 0 .. MaxLink /\ drawn' \in 0 .. MaxDraw
    BY <1>0, ConstantsAssumption DEF Inv, TypeOK
  <1>2. Suffixes \subseteq Suffixes' /\ drawn + 1 \in Suffixes'
    BY <1>0, <1>1 DEF Inv, TypeOK, Suffixes
  <1>3. Table(links, Suffixes')
    BY <1>2, TableGrows DEF Inv
  <1>4. w \in RowSet(Suffixes') /\ w.suffix = drawn + 1
    BY <1>2 DEF RowSet, w
  <1>5. lastLink + 1 \notin DOMAIN links
    BY DEF Inv, TypeOK
  <1>6. Table(links', Suffixes') /\ Derived(links', links, lastLink + 1, drawn + 1)
    BY <1>0, <1>3, <1>4, <1>5, InsertedTable
  <1>7. DOMAIN links' \subseteq 1 .. lastLink'
    BY <1>0, <1>6 DEF Derived, Inv, TypeOK
  <1>8. QED
    BY <1>0, <1>1, <1>6, <1>7

\* A step in which a default link is created and at most Boot's or a's own
\* operation changes, to Idle.
LEMMA DefaultLinkStep ==
  ASSUME Inv, NEW a \in Actors, NEW u \in UserIds, InsertDefaultLink(a, u),
         op' = op \/ op' = [op EXCEPT ![a] = Idle],
         UNCHANGED <<users, lastUser, phase, seeds>>, ensure' \subseteq ensure
  PROVE  Inv'
  <1>1. /\ Table(links', Suffixes')
        /\ Derived(links', links, lastLink + 1, drawn + 1)
        /\ lastLink' = lastLink + 1 /\ lastLink' \in 0 .. MaxLink
        /\ drawn' = drawn + 1 /\ drawn' \in 0 .. MaxDraw
        /\ DOMAIN links' \subseteq 1 .. lastLink'
        /\ Note(a, u, FALSE)
    BY DefaultLinkEffect
  <1>2. /\ lastLink' \in Nat /\ drawn' \in Nat
        /\ lastLink <= lastLink' /\ drawn <= drawn'
    BY <1>1 DEF Inv, TypeOK
  <1>3. /\ HeldRow \subseteq HeldRow' /\ op \in OpType(HeldRow')
    BY <1>2, HeldGrows DEF Inv
  <1>4. op' \in OpType(HeldRow')
    BY <1>3, IdleIsTyped DEF OpType
  <1>5. /\ watch' \in WatchType(HeldRow)
        /\ \A p \in Procs : /\ watch'[p].before = watch[p].before
                            /\ ~watch'[p].typed => ~watch[p].typed
    BY <1>1, NoteEffect DEF Inv
  <1>6. watch' \in WatchType(HeldRow')
    BY <1>3, <1>5 DEF WatchType
  <1>7. TypeOK'
    <2>1. \A i \in DOMAIN links' : links'[i] \in Row'
      BY <1>1 DEF Table, RowsIn, RowSet, Row
    <2>2. QED
      BY <2>1, <1>1, <1>4, <1>6 DEF Inv, TypeOK, OpType, WatchType
  <1>8. \A p \in Procs : /\ op'[p].todo \subseteq op[p].todo
                         /\ op'[p].kind = "reset" => op'[p] = op[p]
    BY DEF Inv, TypeOK, Idle, Actors
  <1>9. HeldOwner'
    BY <1>1, <1>8, WriteKeepsHeldOwner
  <1>10. ResetRevoking'
    <2>1. drawn + 1 \notin Suffixes
      BY NextDrawIsFresh DEF Inv
    <2>2. QED
      BY <2>1, <1>1, <1>2, <1>5, <1>8, FreshKeepsRevoking
  <1>11. QED
    BY <1>1, <1>7, <1>9, <1>10 DEF Inv

\* The new account's first link is its only primary one.
LEMMA LinkUserStep ==
  ASSUME Inv, Creating, NEW a \in Actors, LinkUser(a)
  PROVE  Inv'
  <1>0. /\ op[a].kind = "create" /\ op' = [op EXCEPT ![a] = Idle]
        /\ UNCHANGED <<users, lastUser, phase, seeds, ensure>>
    BY DEF LinkUser
  <1>1. CASE InsertDefaultLink(a, op[a].user)
    <2>1. op[a].user \in UserIds
      BY <1>0 DEF Creating
    <2>2. ensure' \subseteq ensure
      BY <1>0
    <2>3. QED
      BY <1>0, <1>1, <2>1, <2>2, DefaultLinkStep
  <1>2. CASE UNCHANGED <<links, lastLink, drawn, watch>>
    <2>1. UNCHANGED Tables /\ HeldRow' = HeldRow /\ Suffixes' = Suffixes
      BY <1>2 DEF Tables, HeldRow, Suffixes
    <2>2. op' \in OpType(HeldRow)
      BY <1>0, IdleIsTyped DEF Inv, TypeOK, OpType
    <2>3. TypeOK'
      BY <1>0, <1>2, <2>1, <2>2 DEF Inv, TypeOK, OpType, Row
    <2>4. \A q \in Procs : /\ op'[q].todo \subseteq op[q].todo
                           /\ op'[q].kind = "reset" => op'[q] = op[q] /\ watch'[q] = watch[q]
      BY <1>0, <1>2 DEF Inv, TypeOK, Actors, Idle
    <2>5. QED
      BY <2>1, <2>3, <2>4, QuietStep
  <1>3. QED
    BY <1>1, <1>2 DEF LinkUser

\* A link that start-up adds is the only primary one of its user.
LEMMA EnsureUserStep ==
  ASSUME Inv, NEW u \in ensure, EnsureUser(u)
  PROVE  Inv'
  <1> USE DEF EnsureUser
  <1>1. CASE Owned(links, u) = {}
    <2>1. u \in UserIds /\ ensure' \subseteq ensure /\ Boot \in Actors
      BY ConstantsAssumption DEF Inv, TypeOK, UserIds, Actors
    <2>2. QED
      BY <1>1, <2>1, DefaultLinkStep
  <1>2. CASE Owned(links, u) # {}
    <2>1. UNCHANGED Tables /\ HeldRow' = HeldRow /\ Suffixes' = Suffixes
      BY <1>2 DEF Tables, HeldRow, Suffixes
    <2>2. TypeOK'
      BY <1>2, <2>1 DEF Inv, TypeOK, Row
    <2>3. op' = op /\ watch' = watch
      BY <1>2
    <2>4. QED
      BY <2>1, <2>2, <2>3, QuietStep
  <1>3. QED
    BY <1>1, <1>2

\* A step that takes rows away or promotes one, and draws nothing.
LEMMA RemovingStep ==
  ASSUME Inv, NEW a, NEW u, Note(a, u, FALSE), op' = op,
         Table(links', Suffixes), Derived(links', links, 0, 0),
         UNCHANGED <<lastUser, lastLink, drawn, phase, seeds, ensure>>,
         users' \subseteq users
  PROVE  Inv'
  <1>1. HeldRow' = HeldRow /\ Suffixes' = Suffixes /\ Row' = Row
    BY DEF HeldRow, Suffixes, Row
  <1>2. DOMAIN links' \subseteq DOMAIN links
    <2>1. ASSUME NEW j \in DOMAIN links' PROVE j \in DOMAIN links
      <3>1. CASE j = 0 /\ links'[j].suffix = 0
        <4>1. links'[j].suffix \in Suffixes
          BY DEF Table, RowsIn, RowSet
        <4>2. QED
          BY <3>1, <4>1, NextDrawIsFresh DEF Inv
      <3>2. QED
        BY <3>1 DEF Derived
    <2>2. QED
      BY <2>1
  <1>3. /\ watch' \in WatchType(HeldRow)
        /\ \A p \in Procs : /\ watch'[p].before = watch[p].before
                            /\ ~watch'[p].typed => ~watch[p].typed
    BY NoteEffect DEF Inv
  <1>4. TypeOK'
    <2>1. \A i \in DOMAIN links' : links'[i] \in Row'
      BY <1>1 DEF Table, RowsIn, RowSet, Row
    <2>2. QED
      BY <2>1, <1>1, <1>2, <1>3 DEF Inv, TypeOK, WatchType
  <1>5. HeldOwner'
    BY <1>2, WriteKeepsHeldOwner DEF Inv, TypeOK
  <1>6. ResetRevoking'
    <2>1. 0 \notin Suffixes /\ drawn' \in Nat /\ drawn <= drawn'
      BY NextDrawIsFresh DEF Inv, TypeOK
    <2>2. QED
      BY <2>1, <1>3, FreshKeepsRevoking
  <1>7. QED
    BY <1>1, <1>4, <1>5, <1>6 DEF Inv

\* A drop promotes one heir at most.
LEMMA AdminDropStep ==
  ASSUME Inv, NEW p \in Procs, NEW i \in DOMAIN links, AdminDrop(p, i)
  PROVE  Inv'
  <1>1. Table(links', Suffixes) /\ Derived(links', links, 0, 0)
    <2>1. DOMAIN links \subseteq Nat
      BY DEF Inv, TypeOK
    <2>2. QED
      BY <2>1, DeletedTable DEF AdminDrop, Inv
  <1>2. QED
    BY <1>1, RemovingStep DEF AdminDrop

\* A user is deleted with all the links.
LEMMA DeleteUserStep ==
  ASSUME Inv, NEW p \in Procs, NEW u \in UserIds, DeleteUser(p, u)
  PROVE  Inv'
  <1>1. links' = [i \in DOMAIN links \ Owned(links, u) |-> links[i]]
    BY DEF DeleteUser
  <1>2. Table(links', Suffixes) /\ Derived(links', links, 0, 0)
    BY <1>1 DEF Table, RowsIn, OnePrimary, Unique, Derived, Inv
  <1>3. QED
    BY <1>2, RemovingStep DEF DeleteUser

\* What is left of a typed suffix, or the random one drawn in its place, is a
\* suffix the table may hold after the step.
LEMMA NormalSuffix ==
  ASSUME TypeOK, NEW s \in Suffixes \cup TypedSuffixes, Draw(Draws(s))
  PROVE  /\ Normal(s) \in Suffixes' /\ Suffixes \subseteq Suffixes'
         /\ drawn' \in 0 .. MaxDraw /\ drawn <= drawn'
  <1>1. drawn' \in 0 .. MaxDraw /\ drawn <= drawn'
    BY ConstantsAssumption DEF Draw, TypeOK
  <1>2. Suffixes \subseteq Suffixes'
    BY <1>1 DEF Suffixes, TypeOK
  <1>3. CASE s \notin TypedSuffixes
    <2>1. Normal(s) = s
      BY <1>3 DEF Normal
    <2>2. QED
      BY <1>1, <1>2, <1>3, <2>1
  <1>4. CASE s \in TypedSuffixes /\ Canon[s] = Blank
    <2>1. Normal(s) = drawn + 1 /\ drawn' = drawn + 1
      BY <1>4 DEF Draw, Draws, Normal
    <2>2. drawn + 1 \in 1 .. drawn'
      BY <2>1 DEF TypeOK
    <2>3. QED
      BY <1>1, <1>2, <2>1, <2>2 DEF Suffixes
  <1>5. CASE s \in TypedSuffixes /\ Canon[s] # Blank
    <2>1. Normal(s) = Canon[s]
      BY <1>5 DEF Normal
    <2>2. Canon[s] \in CustomSuffixes
      BY <1>5, ConstantsAssumption
    <2>3. QED
      BY <1>1, <1>2, <2>1, <2>2 DEF Suffixes
  <1>6. QED
    BY <1>3, <1>4, <1>5

\* A step that writes the table with a suffix a person chose, and leaves the
\* operations alone or ends a's.
LEMMA TypedStep ==
  ASSUME Inv, NEW a \in Procs, NEW u, Note(a, u, TRUE),
         (op' = op /\ op[a] = Idle) \/ op' = [op EXCEPT ![a] = Idle],
         UNCHANGED <<users, lastUser, phase, seeds, ensure>>,
         NEW i, NEW s, Table(links', Suffixes'), Derived(links', links, i, s),
         i \in DOMAIN links' => i \in DOMAIN links \/ i = lastLink + 1,
         drawn' \in 0 .. MaxDraw, drawn <= drawn',
         lastLink' \in 0 .. MaxLink, lastLink <= lastLink', DOMAIN links' \subseteq 1 .. lastLink'
  PROVE  Inv'
  <1>1. drawn' \in Nat /\ lastLink' \in Nat
    BY ConstantsAssumption
  <1>2. HeldRow \subseteq HeldRow' /\ op \in OpType(HeldRow')
    BY <1>1, HeldGrows DEF Inv
  <1>3. op' \in OpType(HeldRow')
    BY <1>2, IdleIsTyped DEF OpType
  <1>4. /\ watch' \in WatchType(HeldRow)
        /\ \A p \in Procs : /\ watch'[p].before = watch[p].before
                            /\ p # a /\ op[p].kind = "reset" => watch'[p].typed
    BY NoteEffect DEF Inv
  <1>5. watch' \in WatchType(HeldRow')
    BY <1>2, <1>4 DEF WatchType
  <1>6. TypeOK'
    <2>1. \A j \in DOMAIN links' : links'[j] \in Row'
      BY DEF Table, RowsIn, RowSet, Row
    <2>2. QED
      BY <2>1, <1>3, <1>5 DEF Inv, TypeOK, OpType, WatchType
  <1>7. \A p \in Procs : /\ op'[p].todo \subseteq op[p].todo
                         /\ op'[p].kind = "reset" => op'[p] = op[p] /\ p # a
    BY DEF Inv, TypeOK, Idle, Actors
  <1>8. HeldOwner'
    BY <1>7, WriteKeepsHeldOwner
  <1>9. ResetRevoking'
    BY <1>1, <1>4, <1>7, TypedKeepsRevoking
  <1>10. QED
    BY <1>6, <1>8, <1>9 DEF Inv

\* A link an admin creates; each reset in flight notes its suffix as typed.
LEMMA AdminCreateStep ==
  ASSUME Inv, NEW p \in Procs, NEW u \in UserIds, NEW s \in Typed, NEW b \in BOOLEAN,
         AdminCreate(p, u, s, b)
  PROVE  Inv'
  <1> DEFINE random == s = Blank \/ Draws(s)
             suffix == IF s = Blank THEN drawn + 1 ELSE Normal(s)
             w == [user |-> u, suffix |-> suffix, primary |-> b, enabled |-> TRUE]
  <1>1. /\ op[p] = Idle /\ lastLink < MaxLink /\ Draw(random)
        /\ links' = Inserted(links, lastLink + 1, w)
        /\ lastLink' = IF links' = links THEN lastLink ELSE lastLink + 1
        /\ Note(p, u, TRUE) /\ op' = op
        /\ UNCHANGED <<users, lastUser, phase, seeds, ensure>>
    BY DEF AdminCreate
  <1>2. /\ suffix \in Suffixes' /\ Suffixes \subseteq Suffixes'
        /\ drawn' \in 0 .. MaxDraw /\ drawn <= drawn'
    <2>1. CASE s = Blank
      <3>1. drawn' = drawn + 1 /\ drawn < MaxDraw
        BY <1>1, <2>1 DEF Draw
      <3>2. QED
        BY <2>1, <3>1, ConstantsAssumption DEF Inv, TypeOK, Suffixes
    <2>2. CASE s # Blank
      <3>1. s \in Suffixes \cup TypedSuffixes
        BY <2>2 DEF Typed, Suffixes
      <3>2. Draw(Draws(s))
        BY <1>1, <2>2 DEF Draw
      <3>3. QED
        BY <2>2, <3>1, <3>2, NormalSuffix DEF Inv
    <2>3. QED
      BY <2>1, <2>2
  <1> HIDE DEF suffix, random
  <1>3. w \in RowSet(Suffixes') /\ w.suffix = suffix
    BY <1>2 DEF RowSet
  <1>4. Table(links, Suffixes') /\ lastLink + 1 \notin DOMAIN links
    BY <1>2, TableGrows DEF Inv, TypeOK
  <1> HIDE DEF w
  <1>5. Table(links', Suffixes') /\ Derived(links', links, lastLink + 1, suffix)
    BY <1>1, <1>3, <1>4, InsertedTable
  <1>6. /\ lastLink' \in 0 .. MaxLink /\ lastLink <= lastLink'
        /\ DOMAIN links' \subseteq 1 .. lastLink'
    <2>1. CASE links' = links
      BY <1>1, <2>1 DEF Inv, TypeOK
    <2>2. CASE links' # links
      BY <1>1, <1>5, <2>2, ConstantsAssumption DEF Inv, TypeOK, Derived
    <2>3. QED
      BY <2>1, <2>2
  <1>7. QED
    BY <1>1, <1>2, <1>5, <1>6, TypedStep

\* A link an admin saves; each reset in flight notes its suffix as typed.
LEMMA AdminSaveWriteStep ==
  ASSUME Inv, NEW p \in Procs, AdminSaveWrite(p)
  PROVE  Inv'
  <1>1. PICK w \in op[p].todo :
          /\ Draw(Draws(w.suffix))
          /\ links' = Updated(links, [w EXCEPT !.suffix = Normal(@)])
          /\ Note(p, w.user, TRUE)
    BY DEF AdminSaveWrite
  <1>2. w \in HeldRow
    BY DEF Inv, TypeOK, Actors
  <1> DEFINE v == [w EXCEPT !.suffix = Normal(@)]
  <1>3. w.suffix \in Suffixes \cup TypedSuffixes
    BY <1>2 DEF HeldRow
  <1>4. /\ Normal(w.suffix) \in Suffixes' /\ Suffixes \subseteq Suffixes'
        /\ drawn' \in 0 .. MaxDraw /\ drawn <= drawn'
    BY <1>1, <1>3, NormalSuffix DEF Inv
  <1>5. /\ v.id = w.id /\ v.user = w.user /\ v.suffix = Normal(w.suffix)
        /\ v.primary \in BOOLEAN /\ v.enabled \in BOOLEAN
    BY <1>2 DEF HeldRow
  <1>6. links' = Updated(links, v)
    BY <1>1
  <1> HIDE DEF v
  <1>7. Table(links, Suffixes')
    BY <1>4, TableGrows DEF Inv
  <1>8. v.id \in DOMAIN links => v.user = links[v.id].user
    BY <1>5 DEF Inv, HeldOwner
  <1>9. Table(links', Suffixes') /\ Derived(links', links, w.id, v.suffix)
    BY <1>4, <1>5, <1>6, <1>7, <1>8, UpdatedTable
  <1>10. DOMAIN links' = DOMAIN links
    BY <1>6 DEF Updated
  <1>11. /\ lastLink' \in 0 .. MaxLink /\ lastLink <= lastLink'
         /\ DOMAIN links' \subseteq 1 .. lastLink'
    BY <1>10 DEF AdminSaveWrite, Inv, TypeOK
  <1>12. QED
    BY <1>1, <1>4, <1>9, <1>10, <1>11, TypedStep DEF AdminSaveWrite

\* A held row that is just read is what the table says.
LEMMA HeldIsRead ==
  ASSUME Inv, NEW i \in DOMAIN links
  PROVE  /\ Held(i) \in HeldRow /\ Held(i).suffix \in Suffixes
         /\ Held(i).id = i /\ Held(i).user = links[i].user /\ Held(i).suffix = links[i].suffix
  BY DEF Inv, TypeOK, Row, Held, HeldRow

\* A step that only starts a's operation, on rows R the table has now.
Starts(a, k, u, R) ==
  /\ k \in {"save", "reset"} /\ u \in UserIds /\ R \subseteq HeldRow
  /\ \A w \in R : w.id \in DOMAIN links => w.user = links[w.id].user
  /\ op' = [op EXCEPT ![a] = [kind |-> k, user |-> u, todo |-> R]]
  /\ \/ k = "save" /\ watch' = watch
     \/ /\ k = "reset" /\ R = Listed(u)
        /\ watch' = [watch EXCEPT ![a] = [before |-> R, typed |-> FALSE, touched |-> FALSE]]
  /\ UNCHANGED <<users, lastUser, links, lastLink, drawn, phase, seeds, ensure>>

\* A handler that reads rows holds rows of the table.
LEMMA ReadStep ==
  ASSUME Inv, NEW a \in Procs, NEW k, NEW u, NEW R, Starts(a, k, u, R)
  PROVE  Inv'
  <1> USE DEF Starts
  <1>1. /\ HeldRow' = HeldRow /\ Suffixes' = Suffixes /\ Row' = Row /\ links' = links
        /\ a \in Actors
    BY DEF HeldRow, Suffixes, Row, Actors
  <1>2. [kind |-> k, user |-> u, todo |-> R]
          \in [kind : {"idle", "create", "save", "reset"}, user : 0 .. MaxUser, todo : SUBSET HeldRow]
    BY ConstantsAssumption DEF UserIds
  <1>3. op' \in OpType(HeldRow)
    BY <1>2 DEF Inv, TypeOK, OpType
  <1>4. watch' \in WatchType(HeldRow)
    <2>1. watch \in WatchType(HeldRow)
      BY DEF Inv, TypeOK, WatchType
    <2>2. [before |-> R, typed |-> FALSE, touched |-> FALSE]
            \in [before : SUBSET HeldRow, typed : BOOLEAN, touched : BOOLEAN]
      OBVIOUS
    <2>3. CASE watch' = watch
      BY <2>1, <2>3
    <2>4. CASE watch' = [watch EXCEPT ![a] = [before |-> R, typed |-> FALSE, touched |-> FALSE]]
      BY ONLY <2>1, <2>2, <2>4 DEF WatchType
    <2>5. QED
      BY <2>3, <2>4
  <1>5. TypeOK'
    BY <1>1, <1>3, <1>4 DEF Inv, TypeOK, OpType, WatchType
  <1>6. /\ op'[a].todo = R /\ op'[a].kind = k
        /\ \A p \in Procs : p # a => op'[p] = op[p] /\ watch'[p] = watch[p]
        /\ k = "reset" => watch'[a].before = R
    BY <1>1 DEF Inv, TypeOK, Actors
  <1>7. HeldOwner'
    BY <1>1, <1>6 DEF Inv, HeldOwner
  <1>8. ResetRevoking'
    <2>1. SUFFICES ASSUME NEW p \in Procs, op'[p].kind = "reset"
                   PROVE  /\ op'[p].todo \subseteq watch'[p].before
                          /\ \A v, w \in watch'[p].before : v.id = w.id => v = w
                          /\ \A w \in watch'[p].before : w.suffix \in Suffixes
                          /\ ~watch'[p].typed =>
                               \A w \in watch'[p].before : \A j \in DOMAIN links :
                                 links[j].suffix = w.suffix => j = w.id /\ w \in op'[p].todo
      BY <1>1 DEF ResetRevoking
    <2>2. CASE p # a
      BY <2>1, <2>2, <1>6 DEF Inv, ResetRevoking
    <2>3. CASE p = a
      <3>1. watch'[p].before = Listed(u) /\ op'[p].todo = Listed(u)
        BY <2>1, <2>3, <1>6
      <3>2. \A w \in Listed(u) : \E i \in DOMAIN links : w = Held(i)
        BY DEF Listed, Owned
      <3>3. \A v, w \in Listed(u) : v.id = w.id => v = w
        BY <3>2, HeldIsRead
      <3>4. \A w \in Listed(u) : w.suffix \in Suffixes
        BY <3>2, HeldIsRead
      <3>5. \A w \in Listed(u) : \A j \in DOMAIN links : links[j].suffix = w.suffix => j = w.id
        BY <3>2, HeldIsRead DEF Inv, Table, Unique
      <3>6. QED
        BY <3>1, <3>3, <3>4, <3>5
    <2>4. QED
      BY <2>2, <2>3
  <1>9. QED
    BY <1>1, <1>5, <1>7, <1>8 DEF Inv

\* The row an admin edits is a row of the table with other fields.
LEMMA AdminSaveReadStep ==
  ASSUME Inv, NEW p \in Procs, NEW i \in DOMAIN links, NEW s \in Typed,
         NEW b \in BOOLEAN, NEW e \in BOOLEAN, AdminSaveRead(p, i, s, b, e)
  PROVE  Inv'
  <1> DEFINE row == [Held(i) EXCEPT !.primary = b, !.enabled = e,
                                    !.suffix = IF s = Blank THEN @ ELSE s]
  <1>1. /\ Held(i) \in HeldRow /\ Held(i).suffix \in Suffixes
        /\ Held(i).id = i /\ Held(i).user = links[i].user
    BY HeldIsRead
  <1>2. row \in HeldRow /\ row.id = i /\ row.user = links[i].user
    BY <1>1 DEF HeldRow, Typed, Suffixes
  <1>3. op' = [op EXCEPT ![p] = [kind |-> "save", user |-> row.user, todo |-> {row}]]
    BY DEF AdminSaveRead
  <1> HIDE DEF row
  <1>4. row.user \in UserIds /\ {row} \subseteq HeldRow
    BY <1>2 DEF HeldRow
  <1>5. Starts(p, "save", row.user, {row})
    BY <1>2, <1>3, <1>4 DEF Starts, AdminSaveRead
  <1>6. QED
    BY <1>5, ReadStep

\* A reset starts with every link of its user still to rewrite.
LEMMA ResetListStep ==
  ASSUME Inv, NEW p \in Procs, NEW u \in UserIds, ResetList(p, u)
  PROVE  Inv'
  <1>1. \A w \in Listed(u) : \E i \in DOMAIN links : w = Held(i)
    BY DEF Listed, Owned
  <1>2. /\ Listed(u) \subseteq HeldRow
        /\ \A w \in Listed(u) : w.id \in DOMAIN links => w.user = links[w.id].user
    BY <1>1, HeldIsRead
  <1>3. Listed(u) = {Held(i) : i \in Owned(links, u)}
    BY DEF Listed
  <1>4. Starts(p, "reset", u, Listed(u))
    BY <1>2, <1>3 DEF Starts, ResetList
  <1>5. QED
    BY <1>4, ReadStep

\* One link of a reset: its listed suffix leaves the table, the others' stay
\* where they are.
LEMMA ResetStepStep ==
  ASSUME Inv, NEW p \in Procs, ResetStep(p)
  PROVE  Inv'
  <1>1. PICK w \in op[p].todo :
          /\ Draw(TRUE)
          /\ links' = Updated(links, [w EXCEPT !.suffix = drawn + 1])
          /\ op' = [op EXCEPT ![p].todo = @ \ {w}]
    BY DEF ResetStep
  <1>2. /\ op[p].kind = "reset" /\ Note(p, op[p].user, FALSE)
        /\ UNCHANGED <<users, lastUser, lastLink, phase, seeds, ensure>>
    BY DEF ResetStep
  <1>3. /\ drawn' = drawn + 1 /\ drawn' \in 0 .. MaxDraw /\ drawn' \in Nat /\ drawn <= drawn'
        /\ lastLink' = lastLink /\ lastLink \in Nat
    BY <1>1, <1>2, ConstantsAssumption DEF Draw, Inv, TypeOK
  <1>4. /\ Suffixes \subseteq Suffixes' /\ HeldRow \subseteq HeldRow' /\ op \in OpType(HeldRow')
        /\ drawn + 1 \in Suffixes' /\ drawn + 1 \notin Suffixes
    <2>1. drawn + 1 \in Suffixes'
      BY <1>3 DEF Suffixes, Inv, TypeOK
    <2>2. QED
      BY <2>1, <1>3, HeldGrows, NextDrawIsFresh DEF Inv
  <1>5. w \in HeldRow
    BY DEF Inv, TypeOK, Actors
  <1> DEFINE v == [w EXCEPT !.suffix = drawn + 1]
  <1>6. /\ v.id = w.id /\ v.user = w.user /\ v.suffix = drawn + 1
        /\ v.primary \in BOOLEAN /\ v.enabled \in BOOLEAN
    BY <1>5 DEF HeldRow
  <1>7. links' = Updated(links, v)
    BY <1>1
  <1> HIDE DEF v
  <1>8. Table(links, Suffixes')
    BY <1>4, TableGrows DEF Inv
  <1>9. v.id \in DOMAIN links => v.user = links[v.id].user
    BY <1>6 DEF Inv, HeldOwner
  <1>10. ~Taken(links, v.id, v.suffix)
    BY <1>4, <1>6 DEF Taken, Inv, Table, RowsIn, RowSet
  <1>11. /\ Table(links', Suffixes') /\ Derived(links', links, w.id, drawn + 1)
         /\ w.id \in DOMAIN links => links'[w.id].suffix = drawn + 1
    BY <1>4, <1>6, <1>7, <1>8, <1>9, <1>10, UpdatedTable
  <1>12. DOMAIN links' = DOMAIN links
    BY <1>7 DEF Updated
  <1>13. /\ watch' \in WatchType(HeldRow)
         /\ \A q \in Procs : /\ watch'[q].before = watch[q].before
                             /\ ~watch'[q].typed => ~watch[q].typed
    BY <1>2, NoteEffect DEF Inv
  <1>14. /\ op'[p].kind = "reset" /\ op'[p].todo = op[p].todo \ {w}
         /\ \A q \in Actors : q # p => op'[q] = op[q]
    BY <1>1, <1>2 DEF Inv, TypeOK, Actors
  <1>15. TypeOK'
    <2>1. \A j \in DOMAIN links' : links'[j] \in Row'
      BY <1>11 DEF Table, RowsIn, RowSet, Row
    <2>2. op' \in OpType(HeldRow')
      BY <1>1, <1>4 DEF OpType
    <2>3. watch' \in WatchType(HeldRow')
      BY <1>4, <1>13 DEF WatchType
    <2>4. QED
      BY <1>2, <1>3, <1>12, <2>1, <2>2, <2>3 DEF Inv, TypeOK, OpType, WatchType
  <1>16. HeldOwner'
    <2>1. \A q \in Procs : op'[q].todo \subseteq op[q].todo
      BY <1>14 DEF Actors
    <2>2. QED
      BY <1>11, <1>12, <2>1, WriteKeepsHeldOwner
  <1>17. ResetRevoking'
    <2>1. SUFFICES ASSUME NEW q \in Procs, op'[q].kind = "reset"
                   PROVE  /\ op'[q].todo \subseteq watch'[q].before
                          /\ \A x, y \in watch'[q].before : x.id = y.id => x = y
                          /\ \A x \in watch'[q].before : x.suffix \in Suffixes'
                          /\ ~watch'[q].typed =>
                               \A x \in watch'[q].before : \A j \in DOMAIN links' :
                                 links'[j].suffix = x.suffix => j = x.id /\ x \in op'[q].todo
      BY DEF ResetRevoking
    <2>2. op[q].kind = "reset" /\ op'[q].todo = op[q].todo \ (IF q = p THEN {w} ELSE {})
      BY <2>1, <1>2, <1>14 DEF Actors
    <2>3. /\ op[q].todo \subseteq watch[q].before
          /\ \A x, y \in watch[q].before : x.id = y.id => x = y
          /\ \A x \in watch[q].before : x.suffix \in Suffixes
          /\ ~watch[q].typed =>
               \A x \in watch[q].before : \A j \in DOMAIN links :
                 links[j].suffix = x.suffix => j = x.id /\ x \in op[q].todo
      BY <2>2 DEF Inv, ResetRevoking
    <2>4. ASSUME NEW x \in watch[q].before, NEW j \in DOMAIN links',
                 links'[j].suffix = x.suffix, ~watch[q].typed
          PROVE  j = x.id /\ x \in op'[q].todo
      <3>1. links'[j].suffix # drawn + 1
        BY <2>3, <2>4, <1>4
      <3>2. j # w.id
        BY <3>1, <1>11, <1>12
      <3>3. j \in DOMAIN links /\ links[j].suffix = x.suffix
        BY <3>1, <2>4, <1>11 DEF Derived
      <3>4. j = x.id /\ x \in op[q].todo
        BY <3>3, <2>3, <2>4
      <3>5. QED
        BY <3>2, <3>4, <2>2
    <2>5. QED
      BY <2>2, <2>3, <2>4, <1>4, <1>13
  <1>18. QED
    BY <1>11, <1>15, <1>16, <1>17 DEF Inv

-----------------------------------------------------------------------------
(* The theorems.                                                           *)

\* The invariant holds at the start.
LEMMA InitInv == Init => Inv /\ Creating
  <1> SUFFICES ASSUME Init PROVE Inv /\ Creating
    OBVIOUS
  <1> USE DEF Init
  <1>1. op \in OpType(HeldRow) /\ watch \in WatchType(HeldRow)
    BY IdleIsTyped DEF OpType, WatchType
  <1>2. DOMAIN links = {}
    OBVIOUS
  <1>3. TypeOK
    BY <1>1, <1>2, ConstantsAssumption DEF TypeOK, OpType, WatchType
  <1>4. Table(links, Suffixes)
    BY <1>2 DEF Table, RowsIn, OnePrimary, Unique
  <1>5. \A p \in Procs : op[p].todo = {} /\ op[p].kind # "reset"
    BY DEF Actors, Idle
  <1>6. QED
    BY <1>3, <1>4, <1>5 DEF Inv, HeldOwner, ResetRevoking, Creating, Idle

\* Only InsertUser starts the creation of an account, with the id it inserted.
LEMMA CreatingStep == Inv /\ Creating /\ [Next]_vars => Creating'
  <1> SUFFICES ASSUME Inv, Creating, [Next]_vars PROVE Creating'
    OBVIOUS
  <1> DEFINE Kept == \A a \in Actors : op'[a].kind = "create" => op'[a].user = op[a].user
                                                             /\ op[a].kind = "create"
  <1>1. Kept => Creating'
    BY DEF Creating
  <1>2. ASSUME NEW a \in Actors, InsertUser(a)
        PROVE  Creating'
    <2>1. lastUser + 1 \in UserIds
      BY <1>2, ConstantsAssumption DEF InsertUser, UserIds, Inv, TypeOK
    <2>2. \A b \in Actors : op'[b] = IF b = a THEN [kind |-> "create", user |-> lastUser + 1,
                                                   todo |-> {}] ELSE op[b]
      BY <1>2 DEF InsertUser, Inv, TypeOK
    <2>3. QED
      BY <2>1, <2>2 DEF Creating
  <1>3. ASSUME NEW a \in Actors, op' = op \/ op' = [op EXCEPT ![a] = Idle]
        PROVE  Creating'
    BY <1>1, <1>3 DEF Inv, TypeOK, Idle
  <1>4. ASSUME NEW a \in Actors, NEW v, v.kind # "create", op' = [op EXCEPT ![a] = v]
        PROVE  Creating'
    BY <1>1, <1>4 DEF Inv, TypeOK
  <1>5. Boot \in Actors /\ Procs \subseteq Actors
    BY DEF Actors
  <1>6. CASE Startup
    <2>1. CASE SeedUser
      BY <1>2, <1>5, <2>1 DEF SeedUser
    <2>2. CASE LinkUser(Boot)
      BY <1>3, <1>5, <2>2 DEF LinkUser
    <2>3. CASE SeedDemoFails
      BY <1>3, <1>5, <2>3 DEF SeedDemoFails
    <2>4. CASE EnsureList \/ Serve
      BY <1>3, <1>5, <2>4 DEF EnsureList, Serve
    <2>5. CASE \E u \in ensure : EnsureUser(u)
      BY <1>3, <1>5, <2>5 DEF EnsureUser
    <2>6. CASE Crash
      BY <2>6 DEF Crash, Creating, Idle
    <2>7. QED
      BY <1>6, <2>1, <2>2, <2>3, <2>4, <2>5, <2>6 DEF Startup
  <1>7. ASSUME NEW p \in Procs, Handler(p)
        PROVE  Creating'
    <2>1. p \in Actors
      BY <1>5
    <2>2. CASE CreateUser(p)
      BY <1>2, <2>1, <2>2 DEF CreateUser
    <2>3. CASE op' = op \/ op' = [op EXCEPT ![p] = Idle]
      BY <1>3, <2>1, <2>3
    <2>4. CASE ResetStep(p)
      <3>1. \A a \in Actors : op'[a].kind = op[a].kind /\ op'[a].user = op[a].user
        BY <2>4 DEF ResetStep, Inv, TypeOK
      <3>2. QED
        BY <3>1 DEF Creating
    <2>5. CASE \E u \in UserIds : ResetList(p, u)
      <3>1. PICK u \in UserIds :
              op' = [op EXCEPT ![p] = [kind |-> "reset", user |-> u, todo |-> Listed(u)]]
        BY <2>5 DEF ResetList
      <3>2. [kind |-> "reset", user |-> u, todo |-> Listed(u)].kind # "create"
        OBVIOUS
      <3>3. QED
        BY <1>4, <2>1, <3>1, <3>2
    <2>6. CASE \E i \in DOMAIN links, s \in Typed, b \in BOOLEAN, e \in BOOLEAN :
                 AdminSaveRead(p, i, s, b, e)
      <3>1. ASSUME NEW i, NEW s, NEW b, NEW e, AdminSaveRead(p, i, s, b, e)
            PROVE  \E v : v.kind # "create" /\ op' = [op EXCEPT ![p] = v]
        BY <3>1 DEF AdminSaveRead
      <3>2. QED
        BY <1>4, <2>1, <2>6, <3>1
    <2>7. LinkUser(p) \/ AdminSaveWrite(p) \/ ResetReply(p) \/ Abort(p)
            => op' = [op EXCEPT ![p] = Idle]
      BY DEF LinkUser, AdminSaveWrite, ResetReply, Abort
    <2>8. \/ \E u \in UserIds, s \in Typed, b \in BOOLEAN : AdminCreate(p, u, s, b)
          \/ \E i \in DOMAIN links : AdminDrop(p, i)
          \/ \E u \in UserIds : DeleteUser(p, u)
          => op' = op
      BY DEF AdminCreate, AdminDrop, DeleteUser
    <2>9. QED
      BY <1>7, <2>2, <2>3, <2>4, <2>5, <2>6, <2>7, <2>8 DEF Handler
  <1>8. CASE UNCHANGED vars
    BY <1>8 DEF vars, Creating
  <1>9. QED
    BY <1>6, <1>7, <1>8 DEF Next

\* Every step keeps the invariant.
LEMMA NextInv == Inv /\ Creating /\ [Next]_vars => Inv'
  <1> SUFFICES ASSUME Inv, Creating, [Next]_vars PROVE Inv'
    OBVIOUS
  <1>1. CASE Startup
    <2>1. CASE SeedUser
      <3>1. InsertUser(Boot) /\ seeds' \in 0 .. 2 /\ Boot \in Actors
        BY <2>1 DEF SeedUser, Inv, TypeOK, Actors
      <3>2. QED
        BY <3>1, InsertUserStep
    <2>2. CASE LinkUser(Boot)
      BY <2>2, LinkUserStep DEF Actors
    <2>3. CASE SeedDemoFails
      BY <2>3, SeedDemoFailsStep
    <2>4. CASE EnsureList \/ Serve
      BY <2>4, EnsureServeStep
    <2>5. CASE \E u \in ensure : EnsureUser(u)
      BY <2>5, EnsureUserStep
    <2>6. CASE Crash
      BY <2>6, CrashStep
    <2>7. QED
      BY <1>1, <2>1, <2>2, <2>3, <2>4, <2>5, <2>6 DEF Startup
  <1>2. ASSUME NEW p \in Procs, Handler(p)
        PROVE  Inv'
    <2>1. CASE CreateUser(p)
      <3>1. InsertUser(p) /\ seeds' \in 0 .. 2 /\ p \in Actors
        BY <2>1 DEF CreateUser, Inv, TypeOK, Actors
      <3>2. QED
        BY <3>1, InsertUserStep
    <2>2. CASE LinkUser(p)
      BY <2>2, LinkUserStep DEF Actors
    <2>3. CASE \E u \in UserIds, s \in Typed, b \in BOOLEAN : AdminCreate(p, u, s, b)
      BY <2>3, AdminCreateStep
    <2>4. CASE \E i \in DOMAIN links, s \in Typed, b \in BOOLEAN, e \in BOOLEAN :
                 AdminSaveRead(p, i, s, b, e)
      BY <2>4, AdminSaveReadStep
    <2>5. CASE AdminSaveWrite(p)
      BY <2>5, AdminSaveWriteStep
    <2>6. CASE \E i \in DOMAIN links : AdminDrop(p, i)
      BY <2>6, AdminDropStep
    <2>7. CASE \E u \in UserIds : DeleteUser(p, u)
      BY <2>7, DeleteUserStep
    <2>8. CASE \E u \in UserIds : ResetList(p, u)
      BY <2>8, ResetListStep
    <2>9. CASE ResetStep(p)
      BY <2>9, ResetStepStep
    <2>10. CASE ResetReply(p) \/ Abort(p)
      BY <2>10, AbortStep
    <2>11. QED
      BY <1>2, <2>1, <2>2, <2>3, <2>4, <2>5, <2>6, <2>7, <2>8, <2>9, <2>10 DEF Handler
  <1>3. CASE UNCHANGED vars
    <2>1. /\ UNCHANGED Tables /\ op' = op /\ watch' = watch
          /\ HeldRow' = HeldRow /\ Suffixes' = Suffixes
      BY <1>3 DEF vars, Tables, HeldRow, Suffixes
    <2>2. TypeOK'
      BY <1>3, <2>1 DEF vars, Inv, TypeOK, Row
    <2>3. QED
      BY <2>1, <2>2, QuietStep
  <1>4. QED
    BY <1>1, <1>2, <1>3 DEF Next

\* Every reachable state satisfies the inductive invariant: the table is in
\* order, handlers hold rows of the right owner, resets revoke as they go.
THEOREM SpecInv == Spec => []Inv
  <1>1. Inv /\ Creating /\ [Next]_vars => (Inv /\ Creating)'
    BY NextInv, CreatingStep
  <1>2. QED
    BY <1>1, InitInv, PTL DEF Spec

\* The variables keep their types, whatever the constants.
THEOREM TypeCorrect == Spec => []TypeOK
  <1>1. Inv => TypeOK
    BY DEF Inv
  <1>2. QED
    BY <1>1, SpecInv, PTL

\* However many handlers interleave on however many links, no user ever has
\* two primary links.
THEOREM OnePrimaryPerUser == Spec => []AtMostOnePrimary
  <1>1. Inv => AtMostOnePrimary
    BY DEF Inv, Table, OnePrimary, AtMostOnePrimary
  <1>2. QED
    BY <1>1, SpecInv, PTL

\* A reset that has written its last link has revoked every suffix it listed,
\* unless a suffix that a person chose was saved since it listed them.
THEOREM ResetsRevoke == Spec => []ResetRevokes
  <1>1. Inv => ResetRevokes
    BY DEF Inv, ResetRevoking, ResetRevokes, Resolves
  <1>2. QED
    BY <1>1, SpecInv, PTL

-----------------------------------------------------------------------------
(* Whose rows a transaction touches, and when a user's primary link goes.  *)

\* M has the rows of every user but u as L has them.
Spares(M, L, u) ==
  /\ \A i \in DOMAIN L : L[i].user # u => i \in DOMAIN M /\ M[i] = L[i]
  /\ \A i \in DOMAIN M : M[i].user # u => i \in DOMAIN L /\ L[i].user = M[i].user

\* Nobody who keeps some link loses the primary one between L and M.
Led(M, L) == \A u : HasPrimary(L, u) /\ Owned(M, u) # {} => HasPrimary(M, u)

\* CreateSubscriptionLink touches its user's rows only, takes none away, and
\* leaves a primary link where there was one.
LEMMA InsertedSpares ==
  ASSUME NEW S, NEW L, NEW w, w \in RowSet(S), NEW i, i \notin DOMAIN L, RowsIn(L, S)
  PROVE  /\ Spares(Inserted(L, i, w), L, w.user) /\ Led(Inserted(L, i, w), L)
         /\ \A u : Owned(L, u) \subseteq Owned(Inserted(L, i, w), u)
         /\ ~Taken(L, i, w.suffix) => i \in Owned(Inserted(L, i, w), w.user)
  <1>1. CASE Taken(L, i, w.suffix)
    BY <1>1 DEF Inserted, Spares, Led
  <1>2. CASE ~Taken(L, i, w.suffix)
    <2> DEFINE D == Demoted(L, w)
               M == [j \in DOMAIN L \cup {i} |-> IF j = i THEN w ELSE D[j]]
    <2>1. Inserted(L, i, w) = M
      BY <1>2 DEF Inserted
    <2>2. RowsIn(D, S) /\ Demotion(D, L, w)
      BY DemotedTable
    <2>3. \A j \in DOMAIN L : ~w.primary \/ L[j].user # w.user => D[j] = L[j]
      BY DEF Demoted
    <2> HIDE DEF D
    <2>4. /\ DOMAIN M = DOMAIN L \cup {i} /\ M[i] = w
          /\ \A j \in DOMAIN L : j # i /\ M[j] = D[j] /\ M[j].user = L[j].user
      BY <2>2 DEF Demotion
    <2> HIDE DEF M
    <2>5. Spares(M, L, w.user)
      BY <2>3, <2>4 DEF Spares
    <2>6. \A u : Owned(L, u) \subseteq Owned(M, u)
      BY <2>4 DEF Owned
    <2>7. i \in Owned(M, w.user)
      BY <2>4 DEF Owned
    <2>8. Led(M, L)
      <3>1. SUFFICES ASSUME NEW u, HasPrimary(L, u)
                     PROVE  HasPrimary(M, u)
        BY DEF Led
      <3>2. CASE w.primary /\ u = w.user
        BY <2>4, <2>7, <3>2 DEF HasPrimary
      <3>3. CASE ~(w.primary /\ u = w.user)
        <4>1. PICK j \in Owned(L, u) : L[j].primary
          BY <3>1 DEF HasPrimary
        <4>2. j \in DOMAIN L /\ L[j].user = u
          BY <4>1 DEF Owned
        <4>3. M[j] = L[j]
          BY <2>3, <2>4, <3>3, <4>2
        <4>4. QED
          BY <2>6, <4>1, <4>3 DEF HasPrimary
      <3>4. QED
        BY <3>2, <3>3
    <2>9. QED
      BY <2>1, <2>5, <2>6, <2>7, <2>8
  <1>3. QED
    BY <1>1, <1>2

\* What a write of row w may take: the primary link of its own user, if it
\* clears that very link or demotes for the sake of a row that is gone.
Takes(L, w, u) ==
  /\ w.user = u
  /\ IF w.id \in DOMAIN L THEN L[w.id].primary /\ ~w.primary ELSE w.primary

\* UpdateSubscriptionLink touches its user's rows only.
LEMMA UpdatedSpares ==
  ASSUME NEW S, NEW L, NEW w, w.primary \in BOOLEAN, w.enabled \in BOOLEAN, w.suffix \in S,
         w.id \in DOMAIN L => w.user = L[w.id].user, RowsIn(L, S)
  PROVE  /\ Spares(Updated(L, w), L, w.user)
         /\ \A u : HasPrimary(L, u) /\ ~HasPrimary(Updated(L, w), u) => Takes(L, w, u)
  <1>1. CASE w.id \in DOMAIN L /\ Taken(L, w.id, w.suffix)
    BY <1>1 DEF Updated, Spares
  <1>2. CASE ~(w.id \in DOMAIN L /\ Taken(L, w.id, w.suffix))
    <2> DEFINE D == Demoted(L, w)
               M == [j \in DOMAIN L |->
                       IF j = w.id
                       THEN [L[j] EXCEPT !.suffix = w.suffix, !.primary = w.primary,
                                         !.enabled = w.enabled]
                       ELSE D[j]]
    <2>1. Updated(L, w) = M
      BY <1>2 DEF Updated
    <2>2. RowsIn(D, S) /\ Demotion(D, L, w)
      BY DemotedTable
    <2>3. \A j \in DOMAIN L : ~w.primary \/ L[j].user # w.user => D[j] = L[j]
      BY DEF Demoted
    <2> HIDE DEF D
    <2>4. /\ DOMAIN M = DOMAIN L
          /\ \A j \in DOMAIN L : j # w.id => M[j] = D[j] /\ M[j].user = L[j].user
      BY <2>2 DEF Demotion
    <2>5. w.id \in DOMAIN L => M[w.id].user = w.user /\ M[w.id].primary = w.primary
      <3>1. SUFFICES ASSUME w.id \in DOMAIN L
                     PROVE  M[w.id].user = w.user /\ M[w.id].primary = w.primary
        OBVIOUS
      <3>2. L[w.id] \in RowSet(S)
        BY <3>1 DEF RowsIn
      <3>3. M[w.id] = [L[w.id] EXCEPT !.suffix = w.suffix, !.primary = w.primary,
                                      !.enabled = w.enabled]
        BY <3>1
      <3>4. QED
        BY <3>1, <3>2, <3>3 DEF RowSet
    <2> HIDE DEF M
    <2>6. Spares(M, L, w.user)
      BY <2>3, <2>4, <2>5 DEF Spares
    <2>7. ASSUME NEW u, HasPrimary(L, u), ~HasPrimary(M, u)
          PROVE  Takes(L, w, u)
      <3>1. PICK j \in Owned(L, u) : L[j].primary
        BY <2>7 DEF HasPrimary
      <3>2. j \in DOMAIN L /\ L[j].user = u /\ j \in DOMAIN M
        BY <2>4, <3>1 DEF Owned
      <3>3. M[j].user = u
        BY <2>4, <2>5, <3>2
      <3>4. ~M[j].primary
        BY <2>7, <3>2, <3>3 DEF HasPrimary, Owned
      <3>5. CASE j = w.id
        BY <2>5, <3>1, <3>2, <3>4, <3>5 DEF Takes
      <3>6. CASE j # w.id
        <4>1. w.primary /\ w.user = u
          BY <2>3, <2>4, <3>1, <3>2, <3>4, <3>6
        <4>2. ASSUME w.id \in DOMAIN L
              PROVE  FALSE
          <5>1. M[w.id].user = u /\ M[w.id].primary /\ w.id \in DOMAIN M
            BY <2>4, <2>5, <4>1, <4>2
          <5>2. QED
            BY <2>7, <5>1 DEF HasPrimary, Owned
        <4>3. QED
          BY <4>1, <4>2 DEF Takes
      <3>7. QED
        BY <3>5, <3>6
    <2>8. QED
      BY <2>1, <2>6, <2>7
  <1>3. QED
    BY <1>1, <1>2

\* A write that brings a row of the table back with another suffix changes no
\* owner and no flag, in this row or in another.
LEMMA RewrittenFlags ==
  ASSUME NEW S, NEW L, NEW w, Table(L, S), w.id \in DOMAIN L, w.user = L[w.id].user,
         w.primary = L[w.id].primary, w.enabled = L[w.id].enabled
  PROVE  /\ DOMAIN Updated(L, w) = DOMAIN L
         /\ \A i \in DOMAIN L : /\ Updated(L, w)[i].user = L[i].user
                                /\ Updated(L, w)[i].primary = L[i].primary
                                /\ Updated(L, w)[i].enabled = L[i].enabled
  <1>1. CASE Taken(L, w.id, w.suffix)
    BY <1>1 DEF Updated
  <1>2. CASE ~Taken(L, w.id, w.suffix)
    <2> DEFINE D == Demoted(L, w)
               M == [j \in DOMAIN L |->
                       IF j = w.id
                       THEN [L[j] EXCEPT !.suffix = w.suffix, !.primary = w.primary,
                                         !.enabled = w.enabled]
                       ELSE D[j]]
    <2>1. Updated(L, w) = M
      BY <1>2 DEF Updated
    <2>2. DOMAIN M = DOMAIN L
      OBVIOUS
    <2>3. ASSUME NEW i \in DOMAIN L
          PROVE  /\ M[i].user = L[i].user /\ M[i].primary = L[i].primary
                 /\ M[i].enabled = L[i].enabled
      <3>1. L[i] \in RowSet(S) /\ L[w.id] \in RowSet(S)
        BY DEF Table, RowsIn
      <3>2. CASE i = w.id
        <4>1. M[i] = [L[i] EXCEPT !.suffix = w.suffix, !.primary = w.primary,
                                  !.enabled = w.enabled]
          BY <3>2
        <4>2. QED
          BY <3>1, <3>2, <4>1 DEF RowSet
      <3>3. CASE i # w.id /\ w.primary /\ L[i].user = w.user
        <4>1. L[i].primary = FALSE
          BY <3>1, <3>3 DEF Table, OnePrimary, RowSet
        <4>2. M[i] = [L[i] EXCEPT !.primary = FALSE]
          BY <3>3 DEF Demoted
        <4>3. QED
          BY <3>1, <4>1, <4>2 DEF RowSet
      <3>4. CASE i # w.id /\ ~(w.primary /\ L[i].user = w.user)
        <4>1. M[i] = L[i]
          BY <3>4 DEF Demoted
        <4>2. QED
          BY <4>1
      <3>5. QED
        BY <3>2, <3>3, <3>4
    <2>4. QED
      BY <2>1, <2>2, <2>3
  <1>3. QED
    BY <1>1, <1>2

\* A set of natural numbers that is not empty has a least element.
LEMMA Least ==
  ASSUME NEW S \in SUBSET Nat, S # {}
  PROVE  \E m \in S : \A j \in S : m <= j
  <1> DEFINE R == OpToRel(<, Nat)
  <1>1. \A a, b \in Nat : <<a, b>> \in R <=> a < b
    BY DEF OpToRel
  <1>2. IsWellFoundedOn(R, Nat)
    BY NatLessThanWellFounded
  <1> HIDE DEF R
  <1>3. PICK m \in S : \A j \in S : ~(<<j, m>> \in R)
    BY <1>2, WFMin
  <1>4. ASSUME NEW j \in S
        PROVE  m <= j
    <2>1. ~(j < m)
      BY <1>1, <1>3
    <2>2. QED
      BY <2>1
  <1>5. QED
    BY <1>4

\* DeleteSubscriptionLink touches its user's rows only, and finds an heir
\* for the primary one among the links that are left.
LEMMA DeletedSpares ==
  ASSUME NEW S, NEW L, NEW i \in DOMAIN L, DOMAIN L \subseteq Nat, RowsIn(L, S)
  PROVE  Spares(Deleted(L, i), L, L[i].user) /\ Led(Deleted(L, i), L)
  <1> DEFINE rest == DOMAIN L \ {i}
             heir(j) == /\ L[i].primary /\ L[j].user = L[i].user
                        /\ \A k \in rest : L[k].user = L[i].user => j <= k
             M == [j \in rest |-> IF heir(j) THEN [L[j] EXCEPT !.primary = TRUE] ELSE L[j]]
  <1>1. Deleted(L, i) = M
    BY DEF Deleted
  <1>2. \A j \in rest : /\ M[j].user = L[j].user
                        /\ L[j].user # L[i].user => M[j] = L[j]
                        /\ L[j].primary \/ heir(j) => M[j].primary
    BY DEF RowsIn, RowSet
  <1>3. DOMAIN M = rest
    OBVIOUS
  <1>4. ASSUME NEW j \in rest, L[j].user = L[i].user, L[i].primary
        PROVE  \E k \in rest : heir(k)
    <2> DEFINE T == {k \in rest : L[k].user = L[i].user}
    <2>1. T \in SUBSET Nat /\ T # {}
      BY <1>4
    <2> HIDE DEF T
    <2>2. PICK m \in T : \A k \in T : m <= k
      BY <2>1, Least
    <2>3. QED
      BY <1>4, <2>2 DEF T
  <1>5. \A j \in rest : heir(j) => L[j].user = L[i].user
    OBVIOUS
  <1> HIDE DEF M, heir
  <1>6. Spares(M, L, L[i].user)
    BY <1>2, <1>3 DEF Spares
  <1>7. Led(M, L)
    <2>1. SUFFICES ASSUME NEW u, HasPrimary(L, u), Owned(M, u) # {}
                   PROVE  HasPrimary(M, u)
      BY DEF Led
    <2>2. PICK j \in DOMAIN L : L[j].user = u /\ L[j].primary
      BY <2>1 DEF HasPrimary, Owned
    <2>3. CASE j # i
      BY <1>2, <1>3, <2>2, <2>3 DEF HasPrimary, Owned
    <2>4. CASE j = i
      <3>1. PICK k \in rest : L[k].user = u
        BY <1>2, <1>3, <2>1 DEF Owned
      <3>2. PICK m \in rest : heir(m)
        BY <1>4, <2>2, <2>4, <3>1
      <3>3. M[m].primary /\ M[m].user = u
        BY <1>2, <1>5, <2>2, <2>4, <3>2
      <3>4. QED
        BY <1>3, <3>3 DEF HasPrimary, Owned
    <2>5. QED
      BY <2>3, <2>4
  <1>8. QED
    BY <1>1, <1>6, <1>7

-----------------------------------------------------------------------------
(* What a reset alone with its user's links keeps.                         *)

\* A reset holds rows of its own user only; and while nobody else writes that
\* user's links they are the ones it listed, flags and all.
Faithful(p) ==
  op[p].kind = "reset" =>
    /\ \A w \in op[p].todo : w.user = op[p].user
    /\ ~watch[p].touched =>
         /\ Owned(links, op[p].user) = {w.id : w \in watch[p].before}
         /\ \A w \in watch[p].before :
              links[w.id].primary = w.primary /\ links[w.id].enabled = w.enabled

\* A reset that this step neither starts nor works on: whoever writes links
\* of its user makes it take note.
LEMMA Undisturbed ==
  ASSUME Inv, NEW p \in Procs, Faithful(p), op'[p] = op[p],
         \/ links' = links /\ watch'[p] = watch[p]
         \/ \E a, u : \E typed \in BOOLEAN :
              a # p /\ Note(a, u, typed) /\ Spares(links', links, u)
  PROVE  Faithful(p)'
  <1>1. CASE links' = links /\ watch'[p] = watch[p]
    BY <1>1 DEF Faithful, Owned
  <1>2. CASE op[p].kind # "reset"
    BY <1>2 DEF Faithful
  <1>3. ASSUME op[p].kind = "reset", NEW a, NEW u, NEW typed \in BOOLEAN, a # p,
               Note(a, u, typed), Spares(links', links, u)
        PROVE  Faithful(p)'
    <2>1. watch[p] \in [before : SUBSET HeldRow, typed : BOOLEAN, touched : BOOLEAN]
      BY DEF Inv, TypeOK
    <2>2. watch'[p] = [watch[p] EXCEPT !.typed = @ \/ typed, !.touched = @ \/ op[p].user = u]
      BY <1>3 DEF Note
    <2>3. /\ watch'[p].before = watch[p].before
          /\ ~watch'[p].touched => ~watch[p].touched /\ op[p].user # u
      BY <2>1, <2>2
    <2>4. ASSUME ~watch'[p].touched
          PROVE  /\ Owned(links', op[p].user) = {w.id : w \in watch[p].before}
                 /\ \A w \in watch[p].before : /\ links'[w.id].primary = w.primary
                                               /\ links'[w.id].enabled = w.enabled
      <3>1. op[p].user # u /\ ~watch[p].touched
        BY <2>3, <2>4
      <3>2. /\ Owned(links, op[p].user) = {w.id : w \in watch[p].before}
            /\ \A w \in watch[p].before : /\ links[w.id].primary = w.primary
                                          /\ links[w.id].enabled = w.enabled
        BY <1>3, <3>1 DEF Faithful
      <3>3. /\ Owned(links', op[p].user) = Owned(links, op[p].user)
            /\ \A i \in Owned(links, op[p].user) : links'[i] = links[i]
        BY <1>3, <3>1 DEF Spares, Owned
      <3>4. \A w \in watch[p].before : w.id \in Owned(links, op[p].user)
        BY <3>2
      <3>5. QED
        BY <3>2, <3>3, <3>4
    <2>5. \A w \in op[p].todo : w.user = op[p].user
      BY <1>3 DEF Faithful
    <2>6. QED
      BY <1>3, <2>3, <2>4, <2>5 DEF Faithful
  <1>4. QED
    BY <1>1, <1>2, <1>3

\* A step of actor a that leaves the links alone, or writes those of one user
\* and tells the resets in flight.
Told(a) ==
  \/ /\ links' = links
     /\ \A p \in Procs : p # a => watch'[p] = watch[p]
  \/ \E u : \E typed \in BOOLEAN : Note(a, u, typed) /\ Spares(links', links, u)

\* A step of actor a that ends a's operation, or starts one that is no reset,
\* and writes links of one user at most.
LEMMA OthersUndisturbed ==
  ASSUME Inv, \A p \in Procs : Faithful(p), NEW a,
         \A p \in Procs : /\ p # a => op'[p] = op[p]
                          /\ p = a => op'[p].kind # "reset",
         Told(a)
  PROVE  \A p \in Procs : Faithful(p)'
  <1>1. SUFFICES ASSUME NEW p \in Procs
                 PROVE  Faithful(p)'
    OBVIOUS
  <1>2. CASE p = a
    BY <1>2 DEF Faithful
  <1>3. CASE p # a
    <2>1. \/ links' = links /\ watch'[p] = watch[p]
          \/ \E b, u : \E typed \in BOOLEAN :
               b # p /\ Note(b, u, typed) /\ Spares(links', links, u)
      BY <1>3 DEF Told
    <2>2. QED
      BY <1>3, <2>1, Undisturbed
  <1>4. QED
    BY <1>2, <1>3

\* What a row that is just read says of the flags.
LEMMA HeldFlags ==
  ASSUME Inv, NEW i \in DOMAIN links
  PROVE  /\ Held(i).id = i /\ Held(i).user = links[i].user
         /\ Held(i).primary = links[i].primary /\ Held(i).enabled = links[i].enabled
  BY DEF Held

\* A reset starts with the links of its user as they are.
LEMMA ResetListFaithful ==
  ASSUME Inv, \A p \in Procs : Faithful(p), NEW q \in Procs, NEW u, ResetList(q, u)
  PROVE  \A p \in Procs : Faithful(p)'
  <1>1. /\ op' = [op EXCEPT ![q] = [kind |-> "reset", user |-> u, todo |-> Listed(u)]]
        /\ watch' = [watch EXCEPT ![q] = [before |-> {Held(i) : i \in Owned(links, u)},
                                          typed |-> FALSE, touched |-> FALSE]]
        /\ links' = links
    BY DEF ResetList
  <1>2. SUFFICES ASSUME NEW p \in Procs
                 PROVE  Faithful(p)'
    OBVIOUS
  <1>3. CASE p # q
    <2>1. op'[p] = op[p] /\ watch'[p] = watch[p]
      BY <1>1, <1>3 DEF Inv, TypeOK, Actors
    <2>2. QED
      BY <1>1, <2>1, Undisturbed
  <1>4. CASE p = q
    <2>1. op'[p] = [kind |-> "reset", user |-> u, todo |-> Listed(u)]
      BY <1>1, <1>4 DEF Inv, TypeOK, Actors
    <2>2. watch'[p].before = Listed(u)
      <3>1. watch'[p] = [before |-> {Held(i) : i \in Owned(links, u)},
                         typed |-> FALSE, touched |-> FALSE]
        BY <1>1, <1>4 DEF Inv, TypeOK
      <3>2. QED
        BY <3>1 DEF Listed
    <2>3. \A i \in Owned(links, u) : i \in DOMAIN links /\ links[i].user = u
      BY DEF Owned
    <2>4. \A w \in Listed(u) : \E i \in Owned(links, u) : w = Held(i)
      BY DEF Listed
    <2>5. \A i \in Owned(links, u) : Held(i) \in Listed(u)
      BY DEF Listed
    <2>6. \A w \in Listed(u) : /\ w.user = u /\ w.id \in Owned(links, u)
                               /\ links[w.id].primary = w.primary
                               /\ links[w.id].enabled = w.enabled
      BY <2>3, <2>4, HeldFlags
    <2>7. Owned(links, u) = {w.id : w \in Listed(u)}
      BY <2>3, <2>5, <2>6, HeldFlags
    <2>8. op'[p].user = u /\ op'[p].todo = Listed(u)
      BY <2>1
    <2>9. Owned(links', u) = Owned(links, u)
      BY <1>1
    <2>10. QED
      BY <1>1, <2>2, <2>6, <2>7, <2>8, <2>9 DEF Faithful
  <1>5. QED
    BY <1>3, <1>4

\* A reset that writes a link back changes its suffix alone, and other resets
\* of the same user take note.
LEMMA ResetStepFaithful ==
  ASSUME Inv, \A p \in Procs : Faithful(p), NEW q \in Procs, ResetStep(q)
  PROVE  /\ \A p \in Procs : Faithful(p)'
         /\ \A u : HasPrimary(links, u) /\ ~HasPrimary(links', u) =>
              \E w \in op[q].todo \ op'[q].todo : Takes(links, w, u)
  <1>1. PICK w \in op[q].todo :
          /\ Draw(TRUE)
          /\ links' = Updated(links, [w EXCEPT !.suffix = drawn + 1])
          /\ op' = [op EXCEPT ![q].todo = @ \ {w}]
    BY DEF ResetStep
  <1>2. op[q].kind = "reset" /\ Note(q, op[q].user, FALSE)
    BY DEF ResetStep
  <1>3. w \in HeldRow /\ w.user = op[q].user
    BY <1>2 DEF Inv, TypeOK, Actors, Faithful
  <1> DEFINE v == [w EXCEPT !.suffix = drawn + 1]
  <1>4. /\ v.id = w.id /\ v.user = w.user /\ v.suffix = drawn + 1
        /\ v.primary = w.primary /\ v.enabled = w.enabled
        /\ v.primary \in BOOLEAN /\ v.enabled \in BOOLEAN
    BY <1>3 DEF HeldRow
  <1>5. links' = Updated(links, v)
    BY <1>1
  <1> HIDE DEF v
  <1>6. v.id \in DOMAIN links => v.user = links[v.id].user
    BY <1>4 DEF Inv, HeldOwner
  <1>7. RowsIn(links, Suffixes \cup {drawn + 1})
    <2>1. RowSet(Suffixes) \subseteq RowSet(Suffixes \cup {drawn + 1})
      BY DEF RowSet
    <2>2. QED
      BY <2>1 DEF Inv, Table, RowsIn
  <1>8. /\ Spares(links', links, v.user)
        /\ \A u : HasPrimary(links, u) /\ ~HasPrimary(links', u) => Takes(links, v, u)
    BY <1>4, <1>5, <1>6, <1>7, UpdatedSpares
  <1>9. /\ op'[q].kind = "reset" /\ op'[q].user = op[q].user /\ op'[q].todo = op[q].todo \ {w}
        /\ \A p \in Procs : p # q => op'[p] = op[p]
    BY <1>1, <1>2 DEF Inv, TypeOK, Actors
  <1>10. ASSUME NEW p \in Procs
         PROVE  Faithful(p)'
    <2>1. CASE p # q
      BY <1>2, <1>3, <1>4, <1>8, <1>9, <2>1, Undisturbed
    <2>2. CASE p = q
      <3>1. watch'[p] = watch[p]
        BY <1>2, <2>2 DEF Note
      <3>2. \A x \in op'[p].todo : x.user = op'[p].user
        BY <1>2, <1>9, <2>2 DEF Faithful
      <3>3. ASSUME ~watch[p].touched
            PROVE  /\ Owned(links', op[p].user) = {x.id : x \in watch[p].before}
                   /\ \A x \in watch[p].before : /\ links'[x.id].primary = x.primary
                                                 /\ links'[x.id].enabled = x.enabled
        <4>1. /\ Owned(links, op[p].user) = {x.id : x \in watch[p].before}
              /\ \A x \in watch[p].before : /\ links[x.id].primary = x.primary
                                            /\ links[x.id].enabled = x.enabled
          BY <1>2, <2>2, <3>3 DEF Faithful
        <4>2. w \in watch[p].before
          BY <1>2, <2>2 DEF Inv, ResetRevoking
        <4>3. /\ w.id \in DOMAIN links /\ w.user = links[w.id].user
              /\ w.primary = links[w.id].primary /\ w.enabled = links[w.id].enabled
          <5>1. w.id \in Owned(links, op[p].user)
            BY <4>1, <4>2
          <5>2. QED
            BY <1>3, <2>2, <4>1, <4>2, <5>1 DEF Owned
        <4>4. Table(links, Suffixes)
          BY DEF Inv
        <4>5. /\ DOMAIN links' = DOMAIN links
              /\ \A i \in DOMAIN links : /\ links'[i].user = links[i].user
                                         /\ links'[i].primary = links[i].primary
                                         /\ links'[i].enabled = links[i].enabled
          BY <1>4, <1>5, <4>3, <4>4, RewrittenFlags
        <4>6. Owned(links', op[p].user) = Owned(links, op[p].user)
          BY <4>5 DEF Owned
        <4>7. \A x \in watch[p].before : x.id \in DOMAIN links
          BY <4>1 DEF Owned
        <4>8. QED
          BY <4>1, <4>5, <4>6, <4>7
      <3>4. QED
        BY <1>9, <2>2, <3>1, <3>2, <3>3 DEF Faithful
    <2>3. QED
      BY <2>1, <2>2
  <1>11. ASSUME NEW u, HasPrimary(links, u), ~HasPrimary(links', u)
         PROVE  \E x \in op[q].todo \ op'[q].todo : Takes(links, x, u)
    <2>1. Takes(links, w, u)
      BY <1>4, <1>8, <1>11 DEF Takes
    <2>2. QED
      BY <1>9, <2>1
  <1>12. QED
    BY <1>10, <1>11

\* A table that does not change takes no primary link away.
LEMMA SameIsLed ==
  ASSUME links' = links
  PROVE  Led(links', links)
  BY DEF Led

\* A default link: told, leaves no user without a primary link, and gives its
\* user a link.
LEMMA DefaultLinkTold ==
  ASSUME Inv, NEW a, NEW u \in UserIds, InsertDefaultLink(a, u)
  PROVE  /\ Told(a) /\ Led(links', links) /\ Owned(links', u) # {}
         /\ \A v : Owned(links, v) \subseteq Owned(links', v)
  <1> DEFINE w == [user |-> u, suffix |-> drawn + 1, primary |-> TRUE, enabled |-> TRUE]
             S == Suffixes \cup {drawn + 1}
  <1>1. links' = Inserted(links, lastLink + 1, w) /\ Note(a, u, FALSE)
    BY DEF InsertDefaultLink
  <1>2. w \in RowSet(S) /\ w.suffix = drawn + 1 /\ w.user = u
    BY DEF RowSet
  <1>3. RowSet(Suffixes) \subseteq RowSet(S)
    BY DEF RowSet
  <1> HIDE DEF w, S
  <1>4. RowsIn(links, S) /\ lastLink + 1 \notin DOMAIN links
    BY <1>3 DEF Inv, TypeOK, Table, RowsIn
  <1>5. ~Taken(links, lastLink + 1, w.suffix)
    BY <1>2, NextDrawIsFresh DEF Taken, Inv, Table, RowsIn, RowSet
  <1>6. /\ Spares(links', links, u) /\ Led(links', links)
        /\ \A v : Owned(links, v) \subseteq Owned(links', v)
        /\ lastLink + 1 \in Owned(links', u)
    BY <1>1, <1>2, <1>4, <1>5, InsertedSpares
  <1>7. QED
    BY <1>1, <1>6 DEF Told

\* A new account's link, or none.
LEMMA LinkUserTold ==
  ASSUME Inv, Creating, NEW a \in Actors, LinkUser(a)
  PROVE  Told(a) /\ Led(links', links)
  <1>1. CASE InsertDefaultLink(a, op[a].user)
    <2>1. op[a].user \in UserIds
      BY DEF LinkUser, Creating
    <2>2. QED
      BY <1>1, <2>1, DefaultLinkTold
  <1>2. CASE UNCHANGED <<links, lastLink, drawn, watch>>
    BY <1>2, SameIsLed DEF Told
  <1>3. QED
    BY <1>1, <1>2 DEF LinkUser

\* A link an admin creates.
LEMMA AdminCreateTold ==
  ASSUME Inv, NEW p \in Procs, NEW u \in UserIds, NEW s \in Typed, NEW b \in BOOLEAN,
         AdminCreate(p, u, s, b)
  PROVE  Told(p) /\ Led(links', links)
  <1> DEFINE suffix == IF s = Blank THEN drawn + 1 ELSE Normal(s)
             w == [user |-> u, suffix |-> suffix, primary |-> b, enabled |-> TRUE]
             S == Suffixes \cup {suffix}
  <1>1. links' = Inserted(links, lastLink + 1, w) /\ Note(p, u, TRUE)
    BY DEF AdminCreate
  <1> HIDE DEF suffix
  <1>2. w \in RowSet(S) /\ w.user = u
    BY DEF RowSet
  <1>3. RowSet(Suffixes) \subseteq RowSet(S)
    BY DEF RowSet
  <1> HIDE DEF w, S
  <1>4. RowsIn(links, S) /\ lastLink + 1 \notin DOMAIN links
    BY <1>3 DEF Inv, TypeOK, Table, RowsIn
  <1>5. Spares(links', links, u) /\ Led(links', links)
    BY <1>1, <1>2, <1>4, InsertedSpares
  <1>6. QED
    BY <1>1, <1>5 DEF Told

\* A link an admin saves: the one write besides a reset's that may take a
\* primary link away.
LEMMA AdminSaveWriteTold ==
  ASSUME Inv, NEW p \in Procs, AdminSaveWrite(p)
  PROVE  /\ Told(p)
         /\ \A u : HasPrimary(links, u) /\ ~HasPrimary(links', u) =>
              \E w \in op[p].todo \ op'[p].todo : Takes(links, w, u)
  <1>1. PICK w \in op[p].todo :
          links' = Updated(links, [w EXCEPT !.suffix = Normal(@)]) /\ Note(p, w.user, TRUE)
    BY DEF AdminSaveWrite
  <1>2. w \in HeldRow
    BY DEF Inv, TypeOK, Actors
  <1> DEFINE v == [w EXCEPT !.suffix = Normal(@)]
             S == Suffixes \cup {Normal(w.suffix)}
  <1>3. /\ v.id = w.id /\ v.user = w.user /\ v.suffix = Normal(w.suffix)
        /\ v.primary = w.primary /\ v.enabled = w.enabled
        /\ v.primary \in BOOLEAN /\ v.enabled \in BOOLEAN /\ v.suffix \in S
    BY <1>2 DEF HeldRow
  <1>4. links' = Updated(links, v)
    BY <1>1
  <1>5. RowSet(Suffixes) \subseteq RowSet(S)
    BY DEF RowSet
  <1> HIDE DEF v, S
  <1>6. RowsIn(links, S)
    BY <1>5 DEF Inv, Table, RowsIn
  <1>7. v.id \in DOMAIN links => v.user = links[v.id].user
    BY <1>3 DEF Inv, HeldOwner
  <1>8. /\ Spares(links', links, v.user)
        /\ \A u : HasPrimary(links, u) /\ ~HasPrimary(links', u) => Takes(links, v, u)
    BY <1>3, <1>4, <1>6, <1>7, UpdatedSpares
  <1>9. op'[p].todo = {}
    BY DEF AdminSaveWrite, Idle, Inv, TypeOK, Actors
  <1>10. ASSUME NEW u, HasPrimary(links, u), ~HasPrimary(links', u)
         PROVE  \E x \in op[p].todo \ op'[p].todo : Takes(links, x, u)
    <2>1. Takes(links, w, u)
      BY <1>3, <1>8, <1>10 DEF Takes
    <2>2. QED
      BY <1>9, <2>1
  <1>11. QED
    BY <1>1, <1>3, <1>8, <1>10 DEF Told

\* A drop, whose heir is found among what is left.
LEMMA AdminDropTold ==
  ASSUME Inv, NEW p \in Procs, NEW i \in DOMAIN links, AdminDrop(p, i)
  PROVE  Told(p) /\ Led(links', links)
  <1>1. DOMAIN links \subseteq Nat /\ RowsIn(links, Suffixes)
    BY DEF Inv, TypeOK, Table
  <1>2. links' = Deleted(links, i) /\ Note(p, links[i].user, FALSE)
    BY DEF AdminDrop
  <1>3. Spares(links', links, links[i].user) /\ Led(links', links)
    BY <1>1, <1>2, DeletedSpares
  <1>4. QED
    BY <1>2, <1>3 DEF Told

\* A user who is deleted keeps no link at all.
LEMMA DeleteUserTold ==
  ASSUME Inv, NEW p \in Procs, NEW u \in UserIds, DeleteUser(p, u)
  PROVE  Told(p) /\ Led(links', links)
  <1>1. links' = [i \in DOMAIN links \ Owned(links, u) |-> links[i]] /\ Note(p, u, FALSE)
    BY DEF DeleteUser
  <1>2. Spares(links', links, u)
    BY <1>1 DEF Spares, Owned
  <1>3. Led(links', links)
    BY <1>1 DEF Led, HasPrimary, Owned
  <1>4. QED
    BY <1>1, <1>2, <1>3 DEF Told

\* A primary link goes in this step for a write that takes it.
Explained ==
  \A u \in UserIds : LosesPrimary(u) =>
    \E p \in Procs : \E w \in op[p].todo \ op'[p].todo :
      /\ w.user = u
      /\ IF w.id \in DOMAIN links THEN links[w.id].primary /\ ~w.primary ELSE w.primary

\* Every step keeps resets faithful, and explains the primary links it takes.
LEMMA NextFaithful ==
  Inv /\ Creating /\ (\A p \in Procs : Faithful(p)) /\ [Next]_vars =>
    (\A p \in Procs : Faithful(p)') /\ Explained
  <1> SUFFICES ASSUME Inv, Creating, \A p \in Procs : Faithful(p), [Next]_vars
               PROVE  (\A p \in Procs : Faithful(p)') /\ Explained
    OBVIOUS
  <1>1. Led(links', links) => Explained
    BY DEF Led, Explained, LosesPrimary
  <1>2. ASSUME NEW a, Told(a),
               \A p \in Procs : /\ p # a => op'[p] = op[p]
                                /\ p = a => op'[p].kind # "reset"
        PROVE  \A p \in Procs : Faithful(p)'
    BY <1>2, OthersUndisturbed
  <1>3. ASSUME NEW a \in Actors, UNCHANGED <<links, watch>>
        PROVE  Told(a) /\ Led(links', links)
    BY <1>3, SameIsLed DEF Told
  <1>4. ASSUME NEW a \in Actors, NEW x, x.kind # "reset",
               op' = [op EXCEPT ![a] = x] \/ (op' = op /\ (a \notin Procs \/ op[a] = Idle))
        PROVE  \A p \in Procs : /\ p # a => op'[p] = op[p]
                                /\ p = a => op'[p].kind # "reset"
    BY <1>4 DEF Inv, TypeOK, Actors, Idle
  <1>5. Idle.kind # "reset"
    BY DEF Idle
  <1>6. /\ Boot \in Actors /\ Boot \notin Procs /\ Procs \subseteq Actors
    BY ConstantsAssumption DEF Actors
  <1>7. ASSUME NEW a \in Actors, InsertUser(a)
        PROVE  (\A p \in Procs : Faithful(p)') /\ Explained
    <2> DEFINE x == [kind |-> "create", user |-> lastUser + 1, todo |-> {}]
    <2>1. op' = [op EXCEPT ![a] = x] /\ UNCHANGED <<links, watch>>
      BY <1>7 DEF InsertUser
    <2>2. x.kind # "reset"
      OBVIOUS
    <2> HIDE DEF x
    <2>3. QED
      BY <1>1, <1>2, <1>3, <1>4, <2>1, <2>2
  <1>8. CASE Startup
    <2>1. CASE SeedUser
      BY <1>6, <1>7, <2>1 DEF SeedUser
    <2>2. CASE LinkUser(Boot)
      <3>1. op' = [op EXCEPT ![Boot] = Idle]
        BY <2>2 DEF LinkUser
      <3>2. Told(Boot) /\ Led(links', links)
        BY <1>6, <2>2, LinkUserTold
      <3>3. QED
        BY <1>1, <1>2, <1>4, <1>5, <1>6, <3>1, <3>2
    <2>3. CASE SeedDemoFails
      <3>1. op' = [op EXCEPT ![Boot] = Idle] /\ UNCHANGED <<links, watch>>
        BY <2>3 DEF SeedDemoFails
      <3>2. QED
        BY <1>1, <1>2, <1>3, <1>4, <1>5, <1>6, <3>1
    <2>4. CASE EnsureList \/ Serve
      <3>1. op' = op /\ UNCHANGED <<links, watch>>
        BY <2>4 DEF EnsureList, Serve
      <3>2. QED
        BY <1>1, <1>2, <1>3, <1>4, <1>5, <1>6, <3>1
    <2>5. CASE \E u \in ensure : EnsureUser(u)
      <3>1. PICK u \in ensure : EnsureUser(u)
        BY <2>5
      <3>2. op' = op
        BY <3>1 DEF EnsureUser
      <3>3. Told(Boot) /\ Led(links', links)
        <4>1. CASE Owned(links, u) = {}
          <5>1. u \in UserIds /\ InsertDefaultLink(Boot, u)
            BY <3>1, <4>1, ConstantsAssumption DEF EnsureUser, Inv, TypeOK, UserIds
          <5>2. QED
            BY <5>1, DefaultLinkTold
        <4>2. CASE Owned(links, u) # {}
          BY <1>3, <1>6, <3>1, <4>2 DEF EnsureUser
        <4>3. QED
          BY <4>1, <4>2
      <3>4. QED
        BY <1>1, <1>2, <1>4, <1>5, <1>6, <3>2, <3>3
    <2>6. CASE Crash
      <3>1. links' = links /\ \A p \in Procs : op'[p] = Idle
        BY <1>6, <2>6 DEF Crash
      <3>2. QED
        BY <1>1, <1>5, <3>1, SameIsLed DEF Faithful
    <2>7. QED
      BY <1>8, <2>1, <2>2, <2>3, <2>4, <2>5, <2>6 DEF Startup
  <1>9. ASSUME NEW q \in Procs, Handler(q)
        PROVE  (\A p \in Procs : Faithful(p)') /\ Explained
    <2>0. q \in Actors
      BY <1>6
    <2>1. ASSUME Told(q), op' = [op EXCEPT ![q] = Idle] \/ (op' = op /\ op[q] = Idle)
          PROVE  \A p \in Procs : Faithful(p)'
      BY <1>2, <1>4, <1>5, <2>0, <2>1
    <2>2. ASSUME \A u : HasPrimary(links, u) /\ ~HasPrimary(links', u) =>
                   \E w \in op[q].todo \ op'[q].todo : Takes(links, w, u)
          PROVE  Explained
      BY <2>2 DEF Explained, LosesPrimary, Takes
    <2>3. CASE CreateUser(q)
      BY <1>7, <2>0, <2>3 DEF CreateUser
    <2>4. CASE LinkUser(q)
      <3>1. op' = [op EXCEPT ![q] = Idle]
        BY <2>4 DEF LinkUser
      <3>2. QED
        BY <1>1, <2>0, <2>1, <2>4, <3>1, LinkUserTold
    <2>5. CASE \E u \in UserIds, s \in Typed, b \in BOOLEAN : AdminCreate(q, u, s, b)
      <3>1. op' = op /\ op[q] = Idle
        BY <2>5 DEF AdminCreate
      <3>2. Told(q) /\ Led(links', links)
        BY <2>5, AdminCreateTold
      <3>3. QED
        BY <1>1, <2>1, <3>1, <3>2
    <2>6. CASE \E i \in DOMAIN links, s \in Typed, b \in BOOLEAN, e \in BOOLEAN :
                 AdminSaveRead(q, i, s, b, e)
      <3>1. PICK i \in DOMAIN links, s \in Typed, b \in BOOLEAN, e \in BOOLEAN :
              AdminSaveRead(q, i, s, b, e)
        BY <2>6
      <3>2. UNCHANGED <<links, watch>> /\ \E x : x.kind # "reset" /\ op' = [op EXCEPT ![q] = x]
        BY <3>1 DEF AdminSaveRead
      <3>3. QED
        BY <1>1, <1>2, <1>3, <1>4, <2>0, <3>2
    <2>7. CASE AdminSaveWrite(q)
      <3>1. op' = [op EXCEPT ![q] = Idle]
        BY <2>7 DEF AdminSaveWrite
      <3>2. QED
        BY <2>1, <2>2, <2>7, <3>1, AdminSaveWriteTold
    <2>8. CASE \E i \in DOMAIN links : AdminDrop(q, i)
      <3>1. op' = op /\ op[q] = Idle
        BY <2>8 DEF AdminDrop
      <3>2. Told(q) /\ Led(links', links)
        BY <2>8, AdminDropTold
      <3>3. QED
        BY <1>1, <2>1, <3>1, <3>2
    <2>9. CASE \E u \in UserIds : DeleteUser(q, u)
      <3>1. op' = op /\ op[q] = Idle
        BY <2>9 DEF DeleteUser
      <3>2. Told(q) /\ Led(links', links)
        BY <2>9, DeleteUserTold
      <3>3. QED
        BY <1>1, <2>1, <3>1, <3>2
    <2>10. CASE \E u \in UserIds : ResetList(q, u)
      <3>1. links' = links
        BY <2>10 DEF ResetList
      <3>2. QED
        BY <1>1, <2>10, <3>1, ResetListFaithful, SameIsLed
    <2>11. CASE ResetStep(q)
      BY <2>2, <2>11, ResetStepFaithful
    <2>12. CASE ResetReply(q) \/ Abort(q)
      <3>1. /\ op' = [op EXCEPT ![q] = Idle] /\ links' = links
            /\ watch' = [watch EXCEPT ![q] = Quiet]
        BY <2>12 DEF ResetReply, Abort
      <3>2. Told(q) /\ Led(links', links)
        BY <3>1, SameIsLed DEF Told, Inv, TypeOK
      <3>3. QED
        BY <1>1, <2>1, <3>1, <3>2
    <2>13. QED
      BY <1>9, <2>3, <2>4, <2>5, <2>6, <2>7, <2>8, <2>9, <2>10, <2>11, <2>12 DEF Handler
  <1>10. CASE UNCHANGED vars
    <2>1. op' = op /\ links' = links /\ watch' = watch
      BY <1>10 DEF vars
    <2>2. \A p \in Procs : Faithful(p)'
      BY <2>1, Undisturbed
    <2>3. QED
      BY <1>1, <2>1, <2>2, SameIsLed
  <1>11. QED
    BY <1>8, <1>9, <1>10 DEF Next

-----------------------------------------------------------------------------
(* What start-up repairs.                                                  *)

\* While the program starts no handler runs; once it looks for users without
\* a link, those it has looked at have one.
Repairing ==
  /\ phase # "serving" => \A p \in Procs : op[p] = Idle
  /\ phase # "seed" => op[Boot] = Idle
  /\ phase = "ensure" => \A u \in users \ ensure : Owned(links, u) # {}

\* Every step keeps that.
LEMMA NextRepairing == Inv /\ Creating /\ Repairing /\ [Next]_vars => Repairing'
  <1> SUFFICES ASSUME Inv, Creating, Repairing, [Next]_vars
               PROVE  Repairing'
    OBVIOUS
  <1>0. Boot \in Actors /\ Boot \notin Procs /\ Procs \subseteq Actors
    BY ConstantsAssumption DEF Actors
  <1>1. Idle.kind = "idle"
    BY DEF Idle
  <1>2. CASE Startup
    <2>1. CASE SeedUser
      <3>1. /\ phase = "seed" /\ phase' = phase
            /\ \A p \in Procs : op'[p] = op[p]
        BY <1>0, <2>1 DEF SeedUser, InsertUser, Inv, TypeOK
      <3>2. QED
        BY <3>1 DEF Repairing
    <2>2. CASE LinkUser(Boot)
      <3>1. phase = "seed" /\ phase' = phase
        BY <1>1, <2>2 DEF LinkUser, Repairing
      <3>2. \A p \in Procs : op'[p] = op[p]
        BY <1>0, <2>2 DEF LinkUser, Inv, TypeOK
      <3>3. QED
        BY <3>1, <3>2 DEF Repairing
    <2>3. CASE SeedDemoFails
      <3>1. /\ phase = "seed" /\ phase' = phase
            /\ \A p \in Procs : op'[p] = op[p]
        BY <1>0, <2>3 DEF SeedDemoFails, Inv, TypeOK
      <3>2. QED
        BY <3>1 DEF Repairing
    <2>4. CASE EnsureList \/ Serve
      <3>1. /\ op' = op /\ users' = users /\ op[Boot] = Idle
            /\ phase # "serving"
            /\ phase' = "ensure" => ensure' = users
        BY <2>4 DEF EnsureList, Serve, Repairing
      <3>2. QED
        BY <3>1 DEF Repairing
    <2>5. CASE \E u \in ensure : EnsureUser(u)
      <3>1. PICK u \in ensure : EnsureUser(u)
        BY <2>5
      <3>2. /\ phase = "ensure" /\ phase' = phase /\ op' = op /\ users' = users
            /\ ensure' = ensure \ {u}
        BY <3>1 DEF EnsureUser
      <3>3. Owned(links', u) # {} /\ \A v : Owned(links, v) \subseteq Owned(links', v)
        <4>1. CASE Owned(links, u) = {}
          <5>1. u \in UserIds /\ InsertDefaultLink(Boot, u)
            BY <3>1, <4>1, ConstantsAssumption DEF EnsureUser, Inv, TypeOK, UserIds
          <5>2. QED
            BY <5>1, DefaultLinkTold
        <4>2. CASE Owned(links, u) # {}
          BY <3>1, <4>2 DEF EnsureUser
        <4>3. QED
          BY <4>1, <4>2
      <3>4. QED
        BY <3>2, <3>3 DEF Repairing
    <2>6. CASE Crash
      BY <1>0, <2>6 DEF Crash, Repairing
    <2>7. QED
      BY <1>2, <2>1, <2>2, <2>3, <2>4, <2>5, <2>6 DEF Startup
  <1>3. ASSUME NEW q \in Procs, Handler(q)
        PROVE  Repairing'
    <2>1. phase = "serving"
      BY <1>1, <1>3 DEF Handler, CreateUser, LinkUser, AdminCreate, AdminSaveRead,
           AdminSaveWrite, AdminDrop, DeleteUser, ResetList, ResetStep, ResetReply, Abort,
           Repairing
    <2>2. phase' = phase
      BY <1>3 DEF Handler, CreateUser, InsertUser, LinkUser, AdminCreate, AdminSaveRead,
           AdminSaveWrite, AdminDrop, DeleteUser, ResetList, ResetStep, ResetReply, Abort
    <2>3. op'[Boot] = op[Boot]
      <3>1. op' = op \/ \E x : op' = [op EXCEPT ![q] = x]
        BY <1>3 DEF Handler, CreateUser, InsertUser, LinkUser, AdminCreate, AdminSaveRead,
             AdminSaveWrite, AdminDrop, DeleteUser, ResetList, ResetStep, ResetReply, Abort
      <3>2. QED
        BY <1>0, <3>1 DEF Inv, TypeOK
    <2>4. QED
      BY <2>1, <2>2, <2>3 DEF Repairing
  <1>4. CASE UNCHANGED vars
    BY <1>4 DEF vars, Repairing, Owned
  <1>5. QED
    BY <1>2, <1>3, <1>4 DEF Next

\* What holds of resets and of start-up holds at the beginning.
LEMMA InitFaithful == Init => (\A p \in Procs : Faithful(p)) /\ Repairing
  BY ConstantsAssumption DEF Init, Faithful, Repairing, Actors, Idle

\* Resets are faithful in every reachable state.
THEOREM FaithfulAlways == Spec => [](\A p \in Procs : Faithful(p))
  <1> DEFINE F == \A p \in Procs : Faithful(p)
  <1>1. Inv /\ Creating /\ F /\ [Next]_vars => (Inv /\ Creating /\ F)'
    BY NextInv, CreatingStep, NextFaithful
  <1>2. Init => Inv /\ Creating /\ F
    BY InitInv, InitFaithful
  <1> HIDE DEF F
  <1>3. Spec => []F
    BY <1>1, <1>2, PTL DEF Spec
  <1>4. QED
    BY <1>3 DEF F

\* A reset alone with its user's links leaves the links, the primary one and
\* the enabled ones as it found them, for any number of links.
THEOREM ResetsPreserve == Spec => []ResetPreserves
  <1>1. (\A p \in Procs : Faithful(p)) => ResetPreserves
    BY DEF Faithful, ResetPreserves
  <1>2. QED
    BY <1>1, FaithfulAlways, PTL

\* Whoever interleaves, crashes or is refused: a user with some link loses the
\* primary one only to a write that clears it or demotes for a link that is gone.
THEOREM PrimaryIsKept == Spec => PrimaryLostOnlyByUpdate
  <1> DEFINE F == \A p \in Procs : Faithful(p)
  <1>1. Inv /\ Creating /\ F /\ [Next]_vars => (Inv /\ Creating /\ F)'
    BY NextInv, CreatingStep, NextFaithful
  <1>2. Init => Inv /\ Creating /\ F
    BY InitInv, InitFaithful
  <1>3. Inv /\ Creating /\ F /\ [Next]_vars => [Explained]_vars
    BY NextFaithful
  <1> HIDE DEF F
  <1>4. Spec => [][Explained]_vars
    BY <1>1, <1>2, <1>3, PTL DEF Spec
  <1>5. QED
    BY <1>4 DEF Explained, PrimaryLostOnlyByUpdate

\* However often the program died half-way through creating an account, once
\* it serves again every user has a link.
THEOREM StartsRepair == Spec => StartupRepairs
  <1> DEFINE Fixed == phase # "serving" /\ phase' = "serving" =>
                        \A u \in users : Owned(links, u) # {}
  <1>1. Inv /\ Creating /\ Repairing /\ [Next]_vars => (Inv /\ Creating /\ Repairing)'
    BY NextInv, CreatingStep, NextRepairing
  <1>2. Init => Inv /\ Creating /\ Repairing
    BY InitInv, InitFaithful
  <1>3. Inv /\ Repairing /\ [Next]_vars => [Fixed]_vars
    <2>1. SUFFICES ASSUME Inv, Repairing, [Next]_vars, phase # "serving", phase' = "serving"
                   PROVE  \A u \in users : Owned(links, u) # {}
      OBVIOUS
    <2>2. phase = "ensure" /\ ensure = {}
      <3>1. CASE Serve
        BY <3>1 DEF Serve
      <3>2. CASE Startup /\ ~Serve
        <4>1. phase' = phase \/ phase' = "ensure" \/ phase' = "seed"
          BY <3>2 DEF Startup, SeedUser, InsertUser, LinkUser, SeedDemoFails, EnsureList,
               EnsureUser, Crash
        <4>2. QED
          BY <2>1, <4>1
      <3>3. ASSUME NEW q \in Procs, Handler(q)
            PROVE  FALSE
        <4>1. phase' = phase
          BY <3>3 DEF Handler, CreateUser, InsertUser, LinkUser, AdminCreate, AdminSaveRead,
               AdminSaveWrite, AdminDrop, DeleteUser, ResetList, ResetStep, ResetReply, Abort
        <4>2. QED
          BY <2>1, <4>1
      <3>4. CASE UNCHANGED vars
        BY <2>1, <3>4 DEF vars
      <3>5. QED
        BY <2>1, <3>1, <3>2, <3>3, <3>4 DEF Next, Startup
    <2>3. QED
      BY <2>1, <2>2 DEF Repairing
  <1> HIDE DEF Fixed
  <1>4. Spec => [][Fixed]_vars
    BY <1>1, <1>2, <1>3, PTL DEF Spec
  <1>5. QED
    BY <1>4 DEF Fixed, StartupRepairs
==============================================================================
