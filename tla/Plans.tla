-------------------------------- MODULE Plans --------------------------------
(***************************************************************************)
(* The table of plans and the handlers of the admin API that change it     *)
(* (src/internal/httpapi/server.go, src/internal/store/store.go).          *)
(*                                                                         *)
(* A plan's quota is stored in bytes.  The API shows it in GiB and takes   *)
(* it back in either unit: what is smaller than the bytes of one GiB is    *)
(* taken for a number of GiB.                                              *)
(*                                                                         *)
(* Abstractions: of the columns there are the quota, the name, whether it  *)
(* is shown, and the place in the list.                                    *)
(***************************************************************************)
EXTENDS Integers, Sequences

CONSTANTS
  Gib,      \* the bytes of one GiB
  Names,    \* names of plans
  Typed,    \* what clients send as a quota
  MaxPlans  \* bound: plans ever created

\* What Process assumes of them.
PlansAssumption == Gib \in Nat \ {0} /\ Typed \subseteq Int /\ MaxPlans \in Nat

VARIABLES
  plans,   \* the rows
  lastPlan \* the last id: AUTOINCREMENT never gives one twice

plansVars == <<plans, lastPlan>>

\* What adminPlanFetch shows of a quota in bytes.  Mutant: it rounds up.
bytesToGiBValueUp(value) ==
  IF value <= 0 THEN 0 ELSE (value + Gib - 1) \div Gib
bytesToGiBValue(value) ==
  IF value <= 0 THEN 0 ELSE IF value < Gib THEN 1 ELSE value \div Gib

\* What adminPlanSave stores.
normalizeAdminPlanTransferLimit(value) ==
  IF value <= 0 THEN 0 ELSE IF value >= Gib THEN value ELSE value * Gib

CreatePlan(name, quota, show, sort) ==
  /\ lastPlan < MaxPlans
  /\ lastPlan' = lastPlan + 1
  /\ plans' = plans \cup {[id |-> lastPlan + 1, name |-> name, quota |-> quota,
                           show |-> show, sort |-> sort]}

\* adminPlanSave without an id.
adminPlanCreate(name, value, show) ==
  CreatePlan(name, normalizeAdminPlanTransferLimit(value), show, 99)

\* adminPlanSave with one: UpdatePlan writes the whole row, and a client that sends no
\* place gets 99 again.
adminPlanSave(p, name, value, show, sort) ==
  /\ p \in plans
  /\ plans' = (plans \ {p}) \cup
                {[p EXCEPT !.name = name, !.quota = normalizeAdminPlanTransferLimit(value),
                           !.show = show, !.sort = sort]}
  /\ UNCHANGED lastPlan

\* The same with what adminPlanFetch has shown.
SaveUntouched(p) == adminPlanSave(p, p.name, bytesToGiBValue(p.quota), p.show, p.sort)

\* adminPlanSort: ids is the new order, which need not name all the plans.
adminPlanSort(ids) ==
  /\ plans' = {IF \E i \in DOMAIN ids : ids[i] = p.id
               THEN [p EXCEPT !.sort = CHOOSE i \in DOMAIN ids : ids[i] = p.id]
               ELSE p : p \in plans}
  /\ UNCHANGED lastPlan

\* adminPlanDrop: whoever has it keeps its id.
adminPlanDrop(p) ==
  /\ p \in plans
  /\ plans' = plans \ {p}
  /\ UNCHANGED lastPlan

\* ListPlans of the plans that are shown, and the first of them.
Before(p, q) == p.sort < q.sort \/ (p.sort = q.sort /\ p.id <= q.id)
FirstShown(p) == p.show /\ p \in plans /\ \A q \in plans : q.show => Before(p, q)

-----------------------------------------------------------------------------
Init == plans = {} /\ lastPlan = 0

Next ==
  \/ \E name \in Names, value \in Typed, show \in BOOLEAN : adminPlanCreate(name, value, show)
  \/ \E p \in plans :
       \/ \E name \in Names, value \in Typed, show \in BOOLEAN, sort \in {p.sort, 99} :
            adminPlanSave(p, name, value, show, sort)
       \/ SaveUntouched(p)
       \/ adminPlanDrop(p)
  \/ \E p, q \in plans : p # q /\ adminPlanSort(<<p.id, q.id>>)

Spec == Init /\ [][Next]_plansVars

-----------------------------------------------------------------------------
(* Properties.                                                             *)

TypeOK ==
  /\ lastPlan \in Nat
  /\ plans \subseteq [id : 1 .. lastPlan, name : Names, quota : Nat, show : BOOLEAN, sort : Nat]

\* What is stored is nothing or at least a GiB: never a number of GiB that was taken
\* for bytes.
StoredInBytes == \A p \in plans : p.quota = 0 \/ p.quota >= Gib

\* An admin who opens a plan and saves it as it is shown takes less than a GiB from
\* its quota, and nothing the second time, up to Gib times Gib bytes: from there on
\* what is shown is itself taken for bytes.
EditKeepsQuota ==
  \A p \in plans : p.quota < Gib * Gib =>
    LET once == normalizeAdminPlanTransferLimit(bytesToGiBValue(p.quota))
    IN  /\ once <= p.quota /\ p.quota < once + Gib
        /\ normalizeAdminPlanTransferLimit(bytesToGiBValue(once)) = once
=============================================================================
