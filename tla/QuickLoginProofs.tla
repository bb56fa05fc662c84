-------------------------- MODULE QuickLoginProofs --------------------------
(***************************************************************************)
(* Proofs about QuickLogin, for any number of requests, codes and seconds: *)
(* the type invariant; that it implements OneTimeCodes, where a code leads *)
(* to one login at most; that no login comes late; and that no link is     *)
(* wasted.  Then, in the second half, proofs about SessionProvider, where  *)
(* the token of a quick login or of any other login comes in, for any      *)
(* number of tabs, tokens and loads of a page.                             *)
(***************************************************************************)
EXTENDS QuickLogin, SessionProvider, TLAPS

\* A code names one row, and only codes that were drawn are saved.
OneRowPerCode ==
  /\ \A r, s \in saved : r.code = s.code => r = s
  /\ \A r \in saved : r.code <= drawn

\* What a request is about to save is new, and no other is about to save it.
SavesNew ==
  \A p \in Procs : op[p].pc = "save" =>
    /\ op[p].code \in 1 .. drawn
    /\ \A r \in saved : r.code # op[p].code
    /\ \A q \in Procs : op[q].pc = "save" /\ op[q].code = op[p].code => q = p

\* What a request has consumed is out of the table, and in no other hands.
HoldsAlone ==
  \A p \in Procs : Holds(p) =>
    /\ \A r \in rows : r.code # op[p].code
    /\ \A q \in Procs : Holds(q) /\ op[q].code = op[p].code => q = p
    /\ \E r \in saved : r.code = op[p].code

\* A request that shows a code shows one that exists.
ShowsSaved ==
  \A p \in Procs : op[p].pc = "consume" => \E r \in saved : r.code = op[p].code

Inv == TypeOK /\ OneRowPerCode /\ SavesNew /\ HoldsAlone /\ ShowsSaved

LEMMA InitInv == Init => Inv
  BY QuickLoginAssumption
     DEF Init, Inv, TypeOK, OneRowPerCode, SavesNew, HoldsAlone, ShowsSaved, Holds, Idle,
         Request, Codes, Row

LEMMA StepInv == Inv /\ [Next]_vars => Inv'
<1> SUFFICES ASSUME Inv, [Next]_vars PROVE Inv'
  OBVIOUS
<1> USE QuickLoginAssumption DEF Inv
<1>1. ASSUME NEW p \in Procs, Create(p) PROVE Inv'
  <2>0. op' = [op EXCEPT ![p] = [pc |-> "save", code |-> drawn + 1, exp |-> clock + TTL,
                                  began |-> 0]]
    BY <1>1 DEF Create, Become, Request
  <2>1. TypeOK'
    BY <2>0, <1>1 DEF Create, TypeOK
  <2>2. OneRowPerCode' /\ ShowsSaved'
    BY <1>1 DEF Create, Become, Idle, Request, TypeOK, Codes, Row, OneRowPerCode, ShowsSaved
  <2>3. SavesNew'
    BY <1>1 DEF Create, Become, Idle, Request, TypeOK, Codes, Row, OneRowPerCode, SavesNew
  <2>4. HoldsAlone'
    BY <1>1 DEF Create, Become, Idle, Request, TypeOK, HoldsAlone, Holds
  <2> QED BY <2>1, <2>2, <2>3, <2>4
<1>2. ASSUME NEW p \in Procs, Save(p) PROVE Inv'
  <2>1. TypeOK'
    BY <1>2 DEF Save, End, Become, Idle, Request, TypeOK, Codes, Row, SavesNew
  <2>2. OneRowPerCode' /\ ShowsSaved'
    BY <1>2 DEF Save, End, Become, Idle, Request, TypeOK, Codes, Row, OneRowPerCode, ShowsSaved,
                SavesNew
  <2>3. SavesNew'
    BY <1>2 DEF Save, End, Become, Idle, Request, TypeOK, Codes, Row, SavesNew
  <2>4. HoldsAlone'
    BY <1>2 DEF Save, End, Become, Idle, Request, TypeOK, Codes, Row, HoldsAlone, Holds, SavesNew
  <2> QED BY <2>1, <2>2, <2>3, <2>4
<1>3. ASSUME NEW p \in Procs, NEW row \in saved, Show(p, row.code) PROVE Inv'
  <2>1. op' = [op EXCEPT ![p] = [pc |-> "consume", code |-> row.code, exp |-> 0, began |-> clock]]
    BY <1>3 DEF Show, Become, Request
  <2>2. UNCHANGED <<user, rows, clock, drawn, logins, saved, cut>>
    BY <1>3 DEF Show
  <2>3. row.code \in 0 .. MaxCode
    BY DEF TypeOK, Row, Codes
  <2>4. TypeOK'
    BY <2>1, <2>2, <2>3 DEF TypeOK
  <2>5. OneRowPerCode' /\ SavesNew' /\ ShowsSaved'
    BY <2>1, <2>2 DEF TypeOK, OneRowPerCode, SavesNew, ShowsSaved
  <2>6. HoldsAlone'
    BY <2>1, <2>2 DEF TypeOK, HoldsAlone, Holds
  <2> QED BY <2>4, <2>5, <2>6
<1>4. ASSUME NEW p \in Procs, Consume(p) PROVE Inv'
  <2>1. PICK row \in rows : row.code = op[p].code /\ rows' = rows \ {row}
                            /\ op' = [op EXCEPT ![p] = [op[p] EXCEPT !.pc = "check", !.exp = row.exp]]
    BY <1>4 DEF Consume, Become
  <2>2. UNCHANGED <<user, clock, drawn, logins, saved, cut>>
    BY <1>4 DEF Consume
  <2>3. TypeOK'
    BY <2>1, <2>2 DEF TypeOK, Row
  <2>4. OneRowPerCode' /\ SavesNew' /\ ShowsSaved'
    BY <2>1, <2>2 DEF TypeOK, OneRowPerCode, SavesNew, ShowsSaved
  <2>5. HoldsAlone'
    BY <2>1, <2>2, <1>4 DEF Consume, TypeOK, OneRowPerCode, HoldsAlone, Holds
  <2> QED BY <2>3, <2>4, <2>5
<1>5. ASSUME NEW p \in Procs, \/ NotFound(p) \/ CheckExpiry(p) \/ Lookup(p) \/ Issue(p) \/ Abort(p)
      PROVE Inv'
  <2>2. op' = [op EXCEPT ![p] = Idle]
        \/ (Holds(p) /\ (op' = [op EXCEPT ![p] = [op[p] EXCEPT !.pc = "lookup"]]
                         \/ op' = [op EXCEPT ![p] = [op[p] EXCEPT !.pc = "issue"]]))
    <3>1. CASE NotFound(p) \/ Issue(p) \/ Abort(p)
      <4>1. End(p)
        BY <3>1 DEF NotFound, Issue, Abort
      <4> QED BY <4>1 DEF End, Become
    <3>2. CASE CheckExpiry(p)
      <4>1. End(p) \/ (Holds(p) /\ Goto(p, "lookup"))
        BY <3>2 DEF CheckExpiry, Holds
      <4> QED BY <4>1 DEF End, Goto, Become
    <3>3. CASE Lookup(p)
      <4>1. End(p) \/ (Holds(p) /\ Goto(p, "issue"))
        BY <3>3 DEF Lookup, Holds
      <4> QED BY <4>1 DEF End, Goto, Become
    <3> QED BY <3>1, <3>2, <3>3, <1>5
  <2>3. UNCHANGED <<user, rows, clock, drawn, saved>>
    BY <1>5 DEF NotFound, CheckExpiry, Lookup, Issue, Abort
  <2>4. logins' \in [Codes -> Nat] /\ cut' \subseteq Codes
    <3>0. Holds(p) => op[p].code \in Codes
      BY DEF TypeOK, HoldsAlone, Row
    <3>1. CASE NotFound(p) \/ CheckExpiry(p) \/ Lookup(p)
      BY <3>1 DEF NotFound, CheckExpiry, Lookup, TypeOK
    <3>2. CASE Issue(p)
      BY <3>0, <3>2 DEF Issue, Holds, TypeOK
    <3>3. CASE Abort(p)
      BY <3>0, <3>3 DEF Abort, TypeOK
    <3> QED BY <3>1, <3>2, <3>3, <1>5
  <2>5. TypeOK'
    BY <2>2, <2>3, <2>4 DEF TypeOK, Idle, Request
  <2>6. OneRowPerCode' /\ SavesNew' /\ ShowsSaved'
    BY <2>2, <2>3 DEF TypeOK, Idle, Request, OneRowPerCode, SavesNew, ShowsSaved
  <2>7. HoldsAlone'
    BY <2>2, <2>3 DEF TypeOK, Idle, Request, HoldsAlone, Holds
  <2> QED BY <2>5, <2>6, <2>7
<1>6. ASSUME Destroy \/ Tick PROVE Inv'
  BY <1>6 DEF Destroy, Tick, TypeOK, OneRowPerCode, SavesNew, HoldsAlone, Holds, ShowsSaved
<1>7. ASSUME UNCHANGED vars PROVE Inv'
  BY <1>7 DEF vars, TypeOK, OneRowPerCode, SavesNew, HoldsAlone, Holds, ShowsSaved
<1> QED BY <1>1, <1>2, <1>3, <1>4, <1>5, <1>6, <1>7 DEF Next

\* Any number of requests: codes, rows and expiry times keep their types, rows are
\* rows that someone saved (store.go SaveQuickLogin, ConsumeQuickLogin).
THEOREM TypeCorrect == Spec => []TypeOK
<1>1. Inv => TypeOK
  BY DEF Inv
<1> QED BY InitInv, StepInv, <1>1, PTL DEF Spec

-----------------------------------------------------------------------------
(* QuickLogin implements OneTimeCodes.                                     *)

\* One row more is one code more.
LEMMA CodesOfMore ==
  \A R : \A c, e : CodesOf(R \cup {[code |-> c, exp |-> e]}) = CodesOf(R) \cup {c}
<1> SUFFICES ASSUME NEW R, NEW c, NEW e
             PROVE  CodesOf(R \cup {[code |-> c, exp |-> e]}) = CodesOf(R) \cup {c}
  OBVIOUS
<1> DEFINE row == [code |-> c, exp |-> e]
<1>1. row.code = c
  OBVIOUS
<1> HIDE DEF row
<1>2. CodesOf(R \cup {row}) = CodesOf(R) \cup {c}
  BY <1>1 DEF CodesOf
<1> QED BY <1>2 DEF row

LEMMA InitAbstract == Init => Abstract!Init
  BY DEF Init, Abstract!Init, CodesOf, Holders, Holds, Idle, Request

\* A request that moves on within its claim, or gives up, claims nothing new.
LEMMA NoNewClaim ==
  ASSUME Inv, NEW p \in Procs,
         \/ op' = [op EXCEPT ![p] = Idle]
         \/ Holds(p) /\ \E pc \in {"lookup", "issue"} : op' = [op EXCEPT ![p] = [op[p] EXCEPT !.pc = pc]]
         \/ ~Holds(p) /\ \E o : op' = [op EXCEPT ![p] = o] /\ o.pc \in {"save", "consume"}
  PROVE  {op'[q].code : q \in Holders'} \subseteq {op[q].code : q \in Holders}
  BY DEF Inv, TypeOK, Holders, Holds, Idle, Request

LEMMA StepAbstract == Inv /\ [Next]_vars => [Abstract!Next]_(Abstract!abstract)
<1> SUFFICES ASSUME Inv, [Next]_vars PROVE [Abstract!Next]_(Abstract!abstract)
  OBVIOUS
<1> DEFINE claimed == {op[q].code : q \in Holders}
<1>0. ASSUME UNCHANGED <<rows, saved, logins>>, claimed' \subseteq claimed
      PROVE  Abstract!Lose
  BY <1>0 DEF Abstract!Lose, CodesOf
<1>1. ASSUME NEW p \in Procs, Create(p) PROVE Abstract!Lose
  <2>1. ~Holds(p) /\ \E o : op' = [op EXCEPT ![p] = o] /\ o.pc \in {"save", "consume"}
    <3>1. ~Holds(p) /\ Request("save", drawn + 1, clock + TTL, 0).pc = "save"
      BY <1>1 DEF Create, Holds, Request
    <3> QED BY <3>1, <1>1 DEF Create, Become
  <2> QED BY <2>1, <1>0, <1>1, NoNewClaim DEF Create
<1>2. ASSUME NEW p \in Procs, Save(p) PROVE Abstract!Create(op[p].code)
  <2> DEFINE row == [code |-> op[p].code, exp |-> op[p].exp]
  <2>1. rows' = rows \cup {row} /\ saved' = saved \cup {row} /\ UNCHANGED logins
    BY <1>2 DEF Save
  <2>2. CodesOf(rows)' = CodesOf(rows) \cup {op[p].code}
    BY <2>1, CodesOfMore
  <2>3. CodesOf(saved)' = CodesOf(saved) \cup {op[p].code}
    BY <2>1, CodesOfMore
  <2>4. op[p].code \notin CodesOf(saved)
    BY <1>2 DEF Inv, SavesNew, Save, CodesOf
  <2>5. UNCHANGED claimed
    BY <1>2 DEF Inv, TypeOK, Save, End, Become, Holders, Holds, Idle, Request
  <2> QED BY <2>1, <2>2, <2>3, <2>4, <2>5 DEF Abstract!Create
<1>3. ASSUME NEW p \in Procs, NEW row \in saved, Show(p, row.code) PROVE Abstract!Lose
  <2>1. ~Holds(p) /\ \E o : op' = [op EXCEPT ![p] = o] /\ o.pc \in {"save", "consume"}
    <3>1. ~Holds(p) /\ Request("consume", row.code, 0, clock).pc = "consume"
      BY <1>3 DEF Show, Holds, Request
    <3> QED BY <3>1, <1>3 DEF Show, Become
  <2> QED BY <2>1, <1>0, <1>3, NoNewClaim DEF Show
<1>4. ASSUME NEW p \in Procs, Consume(p) PROVE Abstract!Claim(op[p].code)
  <2>1. PICK row \in rows : row.code = op[p].code /\ rows' = rows \ {row}
                            /\ op' = [op EXCEPT ![p] = [op[p] EXCEPT !.pc = "check", !.exp = row.exp]]
    BY <1>4 DEF Consume, Become
  <2>2. op[p].code \in CodesOf(rows)
    BY <2>1 DEF CodesOf
  <2>3. CodesOf(rows)' = CodesOf(rows) \ {op[p].code}
    BY <2>1 DEF Inv, TypeOK, OneRowPerCode, CodesOf
  <2>4. claimed' = claimed \cup {op[p].code}
    BY <2>1, <1>4 DEF Inv, TypeOK, Consume, Holders, Holds
  <2>5. UNCHANGED <<saved, logins>>
    BY <1>4 DEF Consume
  <2> QED BY <2>2, <2>3, <2>4, <2>5 DEF Abstract!Claim
<1>5. ASSUME NEW p \in Procs, NotFound(p) PROVE Abstract!Lose
  BY <1>0, <1>5, NoNewClaim DEF NotFound, End, Become
<1>6. ASSUME NEW p \in Procs, CheckExpiry(p) \/ Lookup(p) PROVE Abstract!Lose
  <2>1. \/ op' = [op EXCEPT ![p] = Idle]
        \/ Holds(p) /\ \E pc \in {"lookup", "issue"} : op' = [op EXCEPT ![p] = [op[p] EXCEPT !.pc = pc]]
    BY <1>6 DEF CheckExpiry, Lookup, End, Goto, Become, Holds
  <2> QED BY <2>1, <1>0, <1>6, NoNewClaim DEF CheckExpiry, Lookup
<1>7. ASSUME NEW p \in Procs, Issue(p) PROVE Abstract!Login(op[p].code)
  <2>1. op[p].code \in claimed
    BY <1>7 DEF Issue, Holders, Holds
  <2>2. claimed' = claimed \ {op[p].code}
    BY <1>7 DEF Inv, TypeOK, HoldsAlone, Issue, End, Become, Holders, Holds, Idle, Request
  <2>3. UNCHANGED <<rows, saved>> /\ logins' = [logins EXCEPT ![op[p].code] = @ + 1]
    BY <1>7 DEF Issue
  <2> QED BY <2>1, <2>2, <2>3 DEF Abstract!Login, CodesOf
<1>8. ASSUME NEW p \in Procs, Abort(p) PROVE Abstract!Lose
  BY <1>0, <1>8, NoNewClaim DEF Abort, End, Become
<1>9. ASSUME Destroy PROVE Abstract!Lose
  <2>1. UNCHANGED claimed
    BY <1>9 DEF Destroy, Holders, Holds
  <2> QED BY <2>1, <1>9 DEF Destroy, Abstract!Lose, CodesOf
<1>10. ASSUME Tick \/ UNCHANGED vars PROVE UNCHANGED Abstract!abstract
  BY <1>10 DEF Tick, vars, Abstract!abstract, CodesOf, Holders, Holds
<1>11. ASSUME NEW p \in Procs, Save(p) \/ Consume(p) \/ Issue(p) PROVE op[p].code \in Codes
  <2>1. CASE Save(p)
    BY <2>1, QuickLoginAssumption DEF Inv, TypeOK, SavesNew, Save, Codes
  <2>2. CASE Consume(p)
    BY <2>2 DEF Inv, TypeOK, Consume, Row
  <2>3. CASE Issue(p)
    BY <2>3 DEF Inv, TypeOK, HoldsAlone, Issue, Holds, Row
  <2> QED BY <2>1, <2>2, <2>3, <1>11
<1> HIDE DEF claimed
<1>12. CASE \E p \in Procs : Create(p) \/ (\E row \in saved : Show(p, row.code)) \/ NotFound(p)
                            \/ CheckExpiry(p) \/ Lookup(p) \/ Abort(p)
  BY <1>12, <1>1, <1>3, <1>5, <1>6, <1>8 DEF Abstract!Next
<1>13. CASE \E p \in Procs : Save(p) \/ Consume(p) \/ Issue(p)
  <2>1. PICK p \in Procs : Save(p) \/ Consume(p) \/ Issue(p)
    BY <1>13
  <2>2. op[p].code \in Codes
    BY <2>1, <1>11
  <2>3. CASE Save(p)
    BY <2>2, <2>3, <1>2 DEF Abstract!Next, Abstract!Create
  <2>4. CASE Consume(p)
    BY <2>2, <2>4, <1>4 DEF Abstract!Next, Abstract!Claim
  <2>5. CASE Issue(p)
    BY <2>2, <2>5, <1>7 DEF Abstract!Next, Abstract!Login
  <2> QED BY <2>1, <2>3, <2>4, <2>5
<1>14. CASE Destroy
  BY <1>14, <1>9 DEF Abstract!Next
<1>15. CASE Tick \/ UNCHANGED vars
  BY <1>15, <1>10
<1>16. \/ \E p \in Procs : Create(p) \/ (\E row \in saved : Show(p, row.code)) \/ NotFound(p)
                            \/ CheckExpiry(p) \/ Lookup(p) \/ Abort(p)
       \/ \E p \in Procs : Save(p) \/ Consume(p) \/ Issue(p)
       \/ Destroy \/ Tick \/ UNCHANGED vars
  BY DEF Next
<1> QED BY <1>12, <1>13, <1>14, <1>15, <1>16

\* Whatever the requests do to each other, codes are OneTimeCodes
\* (store.go ConsumeQuickLogin: SELECT and DELETE in one transaction).
THEOREM ImplementsOneTime == Spec => OneTime
  BY InitInv, StepInv, InitAbstract, StepAbstract, PTL DEF Spec, OneTime, Abstract!Spec

\* Why that is enough: a code that may still lead to a login has led to none, and one
\* that was claimed is not live.
Spent ==
  LET claimed == {op[p].code : p \in Holders}
      pending == CodesOf(rows)
      created == CodesOf(saved)
  IN  /\ Abstract!AtMostOnce
      /\ pending \cap claimed = {}
      /\ pending \cup claimed \subseteq created
      /\ logins = [c \in Codes |-> logins[c]]
      /\ \A c \in Codes : c \in pending \/ c \in claimed \/ c \notin created => logins[c] = 0

\* Whatever implements the steps of OneTimeCodes lets a code lead to one login at most.
THEOREM OncePerCode == Abstract!Spec => []Abstract!AtMostOnce
<1>1. Abstract!Init => Spent
  BY DEF Abstract!Init, Spent, Abstract!AtMostOnce
<1>2. Spent /\ [Abstract!Next]_(Abstract!abstract) => Spent'
  <2> SUFFICES ASSUME Spent, [Abstract!Next]_(Abstract!abstract) PROVE Spent'
    OBVIOUS
  <2>1. ASSUME NEW c \in Codes, Abstract!Create(c) PROVE Spent'
    BY <2>1 DEF Spent, Abstract!AtMostOnce, Abstract!Create
  <2>2. ASSUME NEW c \in Codes, Abstract!Claim(c) PROVE Spent'
    BY <2>2 DEF Spent, Abstract!AtMostOnce, Abstract!Claim
  <2>3. ASSUME NEW c \in Codes, Abstract!Login(c) PROVE Spent'
    BY <2>3 DEF Spent, Abstract!AtMostOnce, Abstract!Login
  <2>4. ASSUME Abstract!Lose PROVE Spent'
    BY <2>4 DEF Spent, Abstract!AtMostOnce, Abstract!Lose
  <2>5. ASSUME UNCHANGED Abstract!abstract PROVE Spent'
    BY <2>5 DEF Spent, Abstract!AtMostOnce, Abstract!abstract
  <2> QED BY <2>1, <2>2, <2>3, <2>4, <2>5 DEF Abstract!Next
<1>3. Spent => Abstract!AtMostOnce
  BY DEF Spent
<1> QED BY <1>1, <1>2, <1>3, PTL DEF Abstract!Spec

\* So a code leads to one login at most.
THEOREM LoginOnce == Spec => []Abstract!AtMostOnce
  BY ImplementsOneTime, OncePerCode, PTL DEF OneTime

-----------------------------------------------------------------------------
(* The two properties of what a link is good for.                          *)

\* Requests come in before now, and those that passed the check came in time.
InTime ==
  \A p \in Procs :
    /\ op[p].pc \in {"consume", "check"} => op[p].began <= clock
    /\ op[p].pc \in {"lookup", "issue"} => op[p].began <= op[p].exp

LEMMA StepInTime == Inv /\ InTime /\ [Next]_vars => InTime'
<1> SUFFICES ASSUME Inv, InTime, [Next]_vars PROVE InTime'
  OBVIOUS
<1> USE DEF Inv, InTime, TypeOK
<1>1. ASSUME NEW p \in Procs, Create(p) PROVE InTime'
  BY <1>1 DEF Create, Become, Request
<1>2. ASSUME NEW p \in Procs, NEW row \in saved, Show(p, row.code) PROVE InTime'
  BY <1>2 DEF Show, Become, Request
<1>3. ASSUME NEW p \in Procs, Consume(p) PROVE InTime'
  BY <1>3 DEF Consume, Become
<1>4. ASSUME NEW p \in Procs, CheckExpiry(p) PROVE InTime'
  BY <1>4 DEF CheckExpiry, Expired, Goto, End, Become, Idle, Request
<1>5. ASSUME NEW p \in Procs, Lookup(p) PROVE InTime'
  BY <1>5 DEF Lookup, Goto, End, Become, Idle, Request
<1>6. ASSUME NEW p \in Procs, Save(p) \/ NotFound(p) \/ Issue(p) \/ Abort(p) PROVE InTime'
  <2>1. End(p) /\ UNCHANGED clock
    BY <1>6 DEF Save, NotFound, Issue, Abort
  <2> QED BY <2>1 DEF End, Become, Idle, Request
<1>7. ASSUME Destroy \/ Tick \/ UNCHANGED vars PROVE InTime'
  BY <1>7 DEF Destroy, Tick, vars
<1> QED BY <1>1, <1>2, <1>3, <1>4, <1>5, <1>6, <1>7 DEF Next

\* A login comes from a request that came in within the life of its code, even if
\* the code was consumed and checked much later (auth.go ConsumeQuickLogin).
THEOREM LateIsRefused == Spec => []NoLateLogin
<1>1. Init => InTime
  <2>1. Idle.pc = "idle"
    BY DEF Idle, Request
  <2>2. Init => \A p \in Procs : op[p] = Idle
    BY DEF Init
  <2> QED BY <2>1, <2>2 DEF InTime
<1>2. InTime => NoLateLogin
  BY DEF InTime, NoLateLogin
<1> QED BY InitInv, StepInv, StepInTime, <1>1, <1>2, PTL DEF Spec

\* What a request has in hand is a row that was saved.
HoldsRow ==
  \A p \in Procs : Holds(p) => \E row \in saved : row.code = op[p].code /\ row.exp = op[p].exp

\* A code is still good, or there is a reason.
Good(row) ==
  \/ row \in rows \/ logins[row.code] > 0
  \/ \E p \in Procs : Holds(p) /\ op[p].code = row.code
  \/ row.exp < clock \/ row.code \in cut \/ user = "gone"

\* A request that keeps what it holds.
LEMMA GoodKept ==
  ASSUME NEW row, Good(row), UNCHANGED user, rows \subseteq rows', clock <= clock', cut \subseteq cut',
         clock \in Nat, clock' \in Nat, row.exp \in Nat, UNCHANGED logins,
         \A q \in Procs : Holds(q) => Holds(q)' /\ op'[q].code = op[q].code
  PROVE  Good(row)'
  BY DEF Good

LEMMA StepGood == Inv /\ HoldsRow /\ NotWasted /\ [Next]_vars => HoldsRow' /\ NotWasted'
<1> SUFFICES ASSUME Inv, HoldsRow, NotWasted, [Next]_vars PROVE HoldsRow' /\ NotWasted'
  OBVIOUS
<1> USE DEF Inv
<1>0. (NotWasted <=> \A row \in saved : Good(row)) /\ (NotWasted' <=> \A row \in saved' : Good(row)')
  BY DEF NotWasted, Good, Holders
<1>a. clock \in Nat /\ (\A row \in saved : row.exp \in Nat /\ row.code \in Codes)
      /\ \A r, s \in saved : r.code = s.code => r = s
  BY DEF TypeOK, Row, OneRowPerCode
<1>1. ASSUME NEW p \in Procs, Create(p) PROVE HoldsRow' /\ NotWasted'
  <2>1. ~Holds(p) /\ ~Holds(p)' /\ (\A q \in Procs : q # p => op'[q] = op[q]) /\ UNCHANGED <<user, rows, clock, logins, saved, cut>>
    BY <1>1 DEF Create, Become, Request, Holds, TypeOK
  <2>2. \A q \in Procs : (Holds(q)' <=> Holds(q)) /\ (Holds(q) => op'[q] = op[q])
    BY <2>1 DEF Holds
  <2> QED BY <1>0, <1>a, <2>1, <2>2, GoodKept DEF HoldsRow
<1>2. ASSUME NEW p \in Procs, Save(p) PROVE HoldsRow' /\ NotWasted'
  <2>1. ~Holds(p) /\ ~Holds(p)' /\ (\A q \in Procs : q # p => op'[q] = op[q]) /\ UNCHANGED <<user, clock, logins, cut>>
    BY <1>2 DEF Save, End, Become, Idle, Request, Holds, TypeOK
  <2>2. PICK row : rows' = rows \cup {row} /\ saved' = saved \cup {row}
    BY <1>2 DEF Save
  <2>3. \A q \in Procs : (Holds(q)' <=> Holds(q)) /\ (Holds(q) => op'[q] = op[q])
    BY <2>1 DEF Holds
  <2>4. \A x \in saved : Good(x)'
    BY <1>0, <1>a, <2>1, <2>2, <2>3, GoodKept
  <2>5. Good(row)'
    BY <2>2 DEF Good
  <2> QED BY <1>0, <2>2, <2>3, <2>4, <2>5 DEF HoldsRow
<1>3. ASSUME NEW p \in Procs, NEW row \in saved, Show(p, row.code) PROVE HoldsRow' /\ NotWasted'
  <2>1. ~Holds(p) /\ ~Holds(p)' /\ (\A q \in Procs : q # p => op'[q] = op[q]) /\ UNCHANGED <<user, rows, clock, logins, saved, cut>>
    BY <1>3 DEF Show, Become, Request, Holds, TypeOK
  <2>2. \A q \in Procs : (Holds(q)' <=> Holds(q)) /\ (Holds(q) => op'[q] = op[q])
    BY <2>1 DEF Holds
  <2> QED BY <1>0, <1>a, <2>1, <2>2, GoodKept DEF HoldsRow
<1>4. ASSUME NEW p \in Procs, Consume(p) PROVE HoldsRow' /\ NotWasted'
  <2>1. PICK row \in rows : row.code = op[p].code /\ rows' = rows \ {row}
                            /\ op' = [op EXCEPT ![p] = [op[p] EXCEPT !.pc = "check", !.exp = row.exp]]
    BY <1>4 DEF Consume, Become
  <2>2. op[p].pc = "consume" /\ UNCHANGED <<user, clock, drawn, logins, saved, cut>>
    BY <1>4 DEF Consume
  <2>3. /\ op'[p].pc = "check" /\ op'[p].code = op[p].code /\ op'[p].exp = row.exp
        /\ \A q \in Procs : q # p => op'[q] = op[q]
    BY <2>1 DEF TypeOK, Row
  <2>4. Holds(p)' /\ ~Holds(p) /\ (\A q \in Procs : Holds(q) => Holds(q)' /\ op'[q] = op[q])
    BY <2>2, <2>3 DEF Holds
  <2>5. HoldsRow'
    <3>1. row \in saved
      BY DEF TypeOK
    <3> QED BY <2>1, <2>2, <2>3, <2>4, <3>1 DEF HoldsRow, Holds
  <2>6. ASSUME NEW x \in saved PROVE Good(x)'
    <3>1. CASE x = row
      BY <2>1, <2>3, <2>4, <3>1 DEF Good
    <3>2. CASE x # row
      BY <1>0, <2>1, <2>2, <2>4, <3>2 DEF Good
    <3> QED BY <3>1, <3>2
  <2> QED BY <1>0, <2>2, <2>5, <2>6
<1>5. ASSUME NEW p \in Procs, NotFound(p) PROVE HoldsRow' /\ NotWasted'
  <2>1. ~Holds(p) /\ ~Holds(p)' /\ (\A q \in Procs : q # p => op'[q] = op[q]) /\ UNCHANGED <<user, rows, clock, logins, saved, cut>>
    BY <1>5 DEF NotFound, End, Become, Idle, Request, Holds, TypeOK
  <2>2. \A q \in Procs : (Holds(q)' <=> Holds(q)) /\ (Holds(q) => op'[q] = op[q])
    BY <2>1 DEF Holds
  <2> QED BY <1>0, <1>a, <2>1, <2>2, GoodKept DEF HoldsRow
<1>6. ASSUME NEW p \in Procs, CheckExpiry(p) \/ Lookup(p) \/ Issue(p) \/ Abort(p) PROVE HoldsRow' /\ NotWasted'
  <2>1. UNCHANGED <<user, rows, clock, saved>> /\ cut \subseteq cut'
    BY <1>6 DEF CheckExpiry, Lookup, Issue, Abort
  <2>2. CASE (CheckExpiry(p) /\ ~Expired(p)) \/ (Lookup(p) /\ user # "gone")
    <3>1. Holds(p) /\ (Goto(p, "lookup") \/ Goto(p, "issue")) /\ UNCHANGED <<logins, cut>>
      BY <2>2 DEF CheckExpiry, Lookup, Holds
    <3>2. /\ op'[p].pc \in {"lookup", "issue"} /\ op'[p].code = op[p].code /\ op'[p].exp = op[p].exp
          /\ \A q \in Procs : q # p => op'[q] = op[q]
      BY <3>1 DEF Goto, Become, TypeOK
    <3>3. \A q \in Procs : (Holds(q)' <=> Holds(q)) /\ op'[q].code = op[q].code /\ op'[q].exp = op[q].exp
      BY <3>1, <3>2 DEF Holds
    <3> QED BY <1>0, <1>a, <2>1, <3>1, <3>3, GoodKept DEF HoldsRow
  <2>3. CASE ~((CheckExpiry(p) /\ ~Expired(p)) \/ (Lookup(p) /\ user # "gone"))
    <3>1. End(p)
      BY <1>6, <2>3 DEF CheckExpiry, Lookup, Issue, Abort
    <3>2. ~Holds(p)' /\ \A q \in Procs : q # p => op'[q] = op[q] /\ (Holds(q)' <=> Holds(q))
      BY <3>1 DEF End, Become, Idle, Request, Holds, TypeOK
    <3>3. logins' \in [Codes -> Nat] /\ (\A c \in Codes : logins[c] > 0 => logins'[c] > 0)
          /\ (Issue(p) => logins'[op[p].code] > 0)
      <4>1. CASE Issue(p)
        <5>1. op[p].code \in Codes
          BY <1>a, <4>1 DEF Issue, Holds, HoldsRow
        <5> QED BY <4>1, <5>1 DEF Issue, TypeOK
      <4>2. CASE ~Issue(p)
        BY <1>6, <4>2 DEF CheckExpiry, Lookup, Abort, TypeOK
      <4> QED BY <4>1, <4>2
    <3>4. ASSUME NEW x \in saved, Holds(p), op[p].code = x.code PROVE Good(x)'
      <4>1. op[p].exp = x.exp
        BY <1>a, <3>4 DEF HoldsRow
      <4>2. CASE CheckExpiry(p)
        BY <2>1, <2>3, <4>1, <4>2 DEF Expired, Good
      <4>3. CASE Lookup(p)
        BY <2>1, <2>3, <4>3 DEF Good
      <4>4. CASE Issue(p)
        BY <3>3, <3>4, <4>4 DEF Good
      <4>5. CASE Abort(p)
        BY <3>4, <4>5 DEF Abort, Good
      <4> QED BY <1>6, <4>2, <4>3, <4>4, <4>5
    <3>5. ASSUME NEW x \in saved, ~(Holds(p) /\ op[p].code = x.code) PROVE Good(x)'
      BY <1>0, <1>a, <2>1, <3>2, <3>3, <3>5 DEF Good
    <3>6. HoldsRow'
      BY <2>1, <3>2 DEF HoldsRow
    <3> QED BY <1>0, <2>1, <3>4, <3>5, <3>6
  <2> QED BY <2>2, <2>3
<1>7. ASSUME Destroy PROVE HoldsRow' /\ NotWasted'
  BY <1>7 DEF Destroy, HoldsRow, Holds, NotWasted
<1>8. ASSUME Tick \/ UNCHANGED vars PROVE HoldsRow' /\ NotWasted'
  <2>1. UNCHANGED <<user, rows, op, logins, saved, cut>> /\ clock <= clock' /\ clock' \in Nat
    BY <1>8, <1>a DEF Tick, vars
  <2>2. \A q \in Procs : (Holds(q)' <=> Holds(q)) /\ op'[q] = op[q]
    BY <2>1 DEF Holds
  <2> QED BY <1>0, <1>a, <2>1, <2>2, GoodKept DEF HoldsRow
<1> QED BY <1>1, <1>2, <1>3, <1>4, <1>5, <1>6, <1>7, <1>8 DEF Next

\* A link is not wasted: until its time is over it can be opened, is being opened or has
\* been, unless the user is gone or a request was cut off with the row in hand.
THEOREM LinkIsGood == Spec => []NotWasted
<1>1. Init => HoldsRow /\ NotWasted
  <2>1. Idle.pc = "idle"
    BY DEF Idle, Request
  <2> QED BY <2>1 DEF Init, HoldsRow, Holds, NotWasted
<1> QED BY InitInv, StepInv, StepGood, <1>1, PTL DEF Spec

-----------------------------------------------------------------------------
(* What the browser makes of the logins that quick-login codes and         *)
(* passwords lead to: SessionProvider, for any number of tabs, tokens and  *)
(* loads of a page.                                                        *)

TabSet == [auth : Auths, seen : Auths \cup {Unseen}, ready : BOOLEAN,
           authed : BOOLEAN, admin : BOOLEAN, verify : BOOLEAN, consuming : BOOLEAN,
           leaving : BOOLEAN, late : BOOLEAN]

\* An answer that brings a token which no tab has taken yet.
Brings(c) == c.kind # "check" /\ c.answer = "yes"

\* A tab T and the requests C it waits for: before its first effect has run there
\* are none; what it has not made up its mind about it has asked about; what it
\* shows is what its token is worth, once every answer is in; it asks about its
\* token once more at most; what was refused is no longer valid.
TabFits(T, C) ==
  /\ T.auth \in issued \cup {NoAuth} /\ T.seen \in issued \cup {NoAuth, Unseen}
  /\ T.seen = Unseen => C = {} /\ ~T.ready /\ ~T.consuming
  /\ ~T.ready /\ T.seen # Unseen => \E c \in C : c.kind = "check"
  /\ T.consuming /\ ~T.leaving => \E c \in C : c.kind = "consume"
  /\ T.ready /\ T.seen = T.auth /\ (\A c \in C : c.kind # "check") /\ ~T.late =>
       (T.authed <=> T.auth # NoAuth) /\ (T.admin <=> T.auth \in Admins)
  /\ \A c \in C :
       IF c.kind = "check"
       THEN /\ c.token \in issued
            /\ c.token = T.auth /\ T.seen # T.auth => c.n = 1
            /\ c.answer = "no" => c.token \notin live
       ELSE IF c.answer = "yes" THEN c.token \in issued ELSE c.token = NoAuth

\* A token that an answer brings is nowhere else.
BroughtOnce ==
  \A t \in Tabs : \A c \in calls[t] : Brings(c) =>
    /\ stored # c.token
    /\ \A u \in Tabs :
         /\ tab[u].auth # c.token /\ tab[u].seen # c.token
         /\ \A d \in calls[u] : d.token = c.token => u = t /\ d = c

SessionTables ==
  /\ stored \in issued \cup {NoAuth}
  /\ live \subseteq issued /\ issued \subseteq Tokens
  /\ code \in BOOLEAN /\ loads \in 0 .. MaxLoads
  /\ tab \in [Tabs -> TabSet] /\ calls \in [Tabs -> SUBSET Calls]

SessionInv ==
  /\ SessionTables /\ BroughtOnce
  /\ \A t \in Tabs : TabFits(tab[t], calls[t])

\* A new request is a request; its number is free as long as those of its kind about
\* its token have one number at most.
LEMMA NewCall ==
  ASSUME NEW t \in Tabs, calls \in [Tabs -> SUBSET Calls],
         NEW kind \in {"check", "login", "consume"}, NEW token \in Auths,
         \A c, d \in calls[t] :
           c.kind = kind /\ c.token = token /\ d.kind = kind /\ d.token = token => c.n = d.n
  PROVE  /\ Call(t, kind, token) \in Calls
         /\ Call(t, kind, token).kind = kind
         /\ Call(t, kind, token).token = token
         /\ Call(t, kind, token).answer = "none"
         /\ (\A c \in calls[t] : ~(c.kind = kind /\ c.token = token)) =>
              Call(t, kind, token).n = 1
<1> DEFINE Same == {c \in calls[t] : c.kind = kind /\ c.token = token}
           Free(n) == /\ \A c \in calls[t] : c.kind = kind /\ c.token = token => c.n # n
                      /\ \A m \in 1 .. (n - 1) :
                           \E c \in calls[t] : c.kind = kind /\ c.token = token /\ c.n = m
           n0 == CHOOSE n \in 1 .. 3 : Free(n)
<1>1. \E n \in 1 .. 3 : Free(n)
  <2>1. CASE Same = {}
    <3>1. Free(1)
      BY <2>1
    <3> QED
      BY <3>1
  <2>2. CASE \E c \in Same : c.n = 1
    <3>1. \A c \in Same : c.n = 1
      BY <2>2
    <3>2. \A m \in 1 .. (2 - 1) : m = 1
      OBVIOUS
    <3>3. Free(2)
      BY <2>2, <3>1, <3>2
    <3> QED
      BY <3>3
  <2>3. CASE Same # {} /\ \A c \in Same : c.n # 1
    <3>1. Free(1)
      BY <2>3
    <3> QED
      BY <3>1
  <2> QED
    BY <2>1, <2>2, <2>3
<1>2. n0 \in 1 .. 3 /\ Free(n0)
  BY <1>1
<1>3. Same = {} => n0 = 1
  <2> SUFFICES ASSUME Same = {}, n0 # 1 PROVE FALSE
    OBVIOUS
  <2>1. 1 \in 1 .. (n0 - 1)
    BY <1>2
  <2> QED
    BY <1>2, <2>1
<1>4. Call(t, kind, token) = [kind |-> kind, token |-> token, answer |-> "none", n |-> n0]
  BY DEF Call
<1> HIDE DEF n0
<1> QED
  BY <1>2, <1>3, <1>4 DEF Calls

\* A step of tab t by which it becomes T and waits for C, and which takes at most
\* one token x that was brought to it: loading a page, and everything else that one
\* tab does with its state, its requests and localStorage.
TabDoes(t, T, C, x) ==
  /\ T \in TabSet /\ C \in SUBSET Calls /\ TabFits(T, C)
  /\ tab' = [tab EXCEPT ![t] = T] /\ calls' = [calls EXCEPT ![t] = C]
  /\ UNCHANGED <<issued, live, code>> /\ loads' \in 0 .. MaxLoads
  /\ stored' \in {stored, x} /\ x \in issued \cup {NoAuth}
  /\ \A u \in Tabs : \A d \in calls'[u] : Brings(d) => d.token # x
  /\ T.auth \in {tab[t].auth, stored, x} /\ T.seen \in {tab[t].seen, tab[t].auth, Unseen}
  /\ \A d \in C : d \in calls[t] \/ (~Brings(d) /\ d.token \in {tab[t].auth, NoAuth, x})

LEMMA TabStep ==
  ASSUME SessionInv,
         NEW t \in Tabs, NEW T, NEW C, NEW x, TabDoes(t, T, C, x)
  PROVE  SessionInv'
<1> USE DEF TabDoes
<1>1. /\ tab' \in [Tabs -> TabSet] /\ calls' \in [Tabs -> SUBSET Calls]
      /\ tab'[t] = T /\ calls'[t] = C
      /\ \A u \in Tabs : u # t => tab'[u] = tab[u] /\ calls'[u] = calls[u]
  BY DEF SessionInv, SessionTables
<1>2. SessionTables'
  BY <1>1 DEF SessionInv, SessionTables
<1>3. \A u \in Tabs : TabFits(tab'[u], calls'[u])
  BY <1>1 DEF SessionInv
<1>4. \A S, D : TabFits(S, D) => TabFits(S, D)'
  BY DEF TabFits
<1>5. BroughtOnce'
  <2> SUFFICES ASSUME NEW u \in Tabs, NEW c \in calls'[u], Brings(c)
               PROVE  /\ stored' # c.token
                      /\ \A v \in Tabs :
                           /\ tab'[v].auth # c.token /\ tab'[v].seen # c.token
                           /\ \A d \in calls'[v] : d.token = c.token => v = u /\ d = c
    BY DEF BroughtOnce, Brings
  <2>1. c \in calls[u] /\ c.token # x
    BY <1>1
  <2>2. c.token \in issued /\ c.token \notin {NoAuth, Unseen}
    BY <2>1, SessionProviderAssumption DEF SessionInv, SessionTables, TabFits, Brings
  <2>3. /\ stored # c.token
        /\ \A v \in Tabs :
             /\ tab[v].auth # c.token /\ tab[v].seen # c.token
             /\ \A d \in calls[v] : d.token = c.token => v = u /\ d = c
    BY <2>1 DEF SessionInv, BroughtOnce
  <2>4. ASSUME NEW v \in Tabs
        PROVE  /\ tab'[v].auth # c.token /\ tab'[v].seen # c.token
               /\ \A d \in calls'[v] : d.token = c.token => v = u /\ d = c
    <3>1. CASE v = t
      BY <1>1, <2>1, <2>2, <2>3, <3>1
    <3>2. CASE v # t
      BY <1>1, <2>3, <3>2
    <3> QED
      BY <3>1, <3>2
  <2> QED
    BY <2>1, <2>3, <2>4
<1> QED
  BY <1>2, <1>3, <1>4, <1>5 DEF SessionInv

\* The server or the network answers a request c, which becomes e: the token e
\* brings, if it brings one, was never issued before.
LEMMA AnswerStep ==
  ASSUME SessionInv,
         NEW t \in Tabs, NEW c \in calls[t], NEW e \in Calls,
         calls' = [calls EXCEPT ![t] = (@ \ {c}) \cup {e}], UNCHANGED <<stored, tab, loads>>,
         issued \subseteq issued', issued' \subseteq Tokens, code' \in BOOLEAN,
         live' \subseteq issued', live' \cap issued \subseteq live,
         e.kind = c.kind, e.n = c.n, c.answer # "yes" \/ e.answer = "no",
         e.kind = "check" => e.token = c.token /\ (e.answer = "no" => e.token \notin live'),
         e.kind # "check" => IF e.answer = "yes" THEN e.token \in issued' \ issued
                                                 ELSE e.token = NoAuth
  PROVE  SessionInv'
<1>1. /\ tab \in [Tabs -> TabSet] /\ calls \in [Tabs -> SUBSET Calls]
      /\ \A u \in Tabs : TabFits(tab[u], calls[u])
  BY DEF SessionInv, SessionTables
<1>2. /\ calls' \in [Tabs -> SUBSET Calls] /\ calls'[t] = (calls[t] \ {c}) \cup {e}
      /\ \A u \in Tabs : u # t => calls'[u] = calls[u]
  BY <1>1
<1>3. SessionTables'
  BY <1>2 DEF SessionInv, SessionTables
<1>4. \A u \in Tabs : \A d \in calls[u] : d.token \in issued \cup {NoAuth}
  BY <1>1 DEF TabFits
<1>5. ASSUME NEW T \in TabSet, NEW C \in SUBSET Calls, TabFits(T, C),
             \A d \in C : d.token \in issued \cup {NoAuth}
      PROVE  TabFits(T, C)'
  BY <1>5 DEF TabFits
<1>6. ASSUME NEW T, NEW C, T = tab[t], C = calls'[t] PROVE TabFits(T, C)'
  <2> DEFINE D == calls[t]
  <2>1. TabFits(T, D) /\ c \in D /\ C = (D \ {c}) \cup {e}
    BY <1>1, <1>2, <1>6
  <2>2. \A d \in D : d.token \in issued \cup {NoAuth}
    BY <1>4
  <2>3. \A k : (\E d \in D : d.kind = k) <=> (\E d \in C : d.kind = k)
    BY <2>1
  <2> HIDE DEF D
  <2>4. \A d \in C :
          IF d.kind = "check"
          THEN /\ d.token \in issued'
               /\ d.token = T.auth /\ T.seen # T.auth => d.n = 1
               /\ d.answer = "no" => d.token \notin live'
          ELSE IF d.answer = "yes" THEN d.token \in issued' ELSE d.token = NoAuth
    BY <2>1, <2>2 DEF TabFits
  <2>5. /\ T.auth \in issued' \cup {NoAuth} /\ T.seen \in issued' \cup {NoAuth, Unseen}
        /\ T.seen = Unseen => C = {} /\ ~T.ready /\ ~T.consuming
        /\ ~T.ready /\ T.seen # Unseen => \E d \in C : d.kind = "check"
        /\ T.consuming /\ ~T.leaving => \E d \in C : d.kind = "consume"
        /\ T.ready /\ T.seen = T.auth /\ (\A d \in C : d.kind # "check") /\ ~T.late =>
             (T.authed <=> T.auth # NoAuth) /\ (T.admin <=> T.auth \in Admins)
    BY <2>1, <2>3 DEF TabFits
  <2> QED
    BY <2>4, <2>5 DEF TabFits
<1>7. (\A u \in Tabs : TabFits(tab[u], calls[u]))'
  <2> SUFFICES ASSUME NEW u \in Tabs PROVE TabFits(tab[u], calls[u])'
    OBVIOUS
  <2>1. PICK T, C : T = tab[u] /\ C = calls'[u]
    OBVIOUS
  <2>2. TabFits(T, C)'
    BY <1>1, <1>2, <1>4, <1>5, <1>6, <2>1
  <2> QED
    BY <2>1, <2>2
<1>8. BroughtOnce'
  <2> SUFFICES ASSUME NEW u \in Tabs, NEW d \in calls'[u], Brings(d)
               PROVE  /\ stored # d.token
                      /\ \A v \in Tabs :
                           /\ tab[v].auth # d.token /\ tab[v].seen # d.token
                           /\ \A f \in calls'[v] : f.token = d.token => v = u /\ f = d
    BY DEF BroughtOnce, Brings
  <2>1. CASE u = t /\ d = e
    <3>1. e.token \in issued' \ issued /\ e.token \notin {NoAuth, Unseen}
      BY <2>1, SessionProviderAssumption DEF Brings
    <3>2. /\ stored # e.token
          /\ \A v \in Tabs : tab[v].auth # e.token /\ tab[v].seen # e.token
      BY <1>1, <3>1 DEF SessionInv, SessionTables, TabFits
    <3> QED
      BY <1>2, <1>4, <2>1, <3>1, <3>2
  <2>2. CASE ~(u = t /\ d = e)
    <3>1. d \in calls[u] /\ ~(u = t /\ d = c)
      BY <1>2, <2>2 DEF Brings
    <3>2. /\ stored # d.token
          /\ \A v \in Tabs :
               /\ tab[v].auth # d.token /\ tab[v].seen # d.token
               /\ \A f \in calls[v] : f.token = d.token => v = u /\ f = d
      BY <3>1 DEF SessionInv, BroughtOnce
    <3>3. d.token \in issued /\ d.token # NoAuth
      BY <1>1, <3>1, SessionProviderAssumption DEF SessionInv, SessionTables, TabFits, Brings
    <3>4. e.token # d.token
      BY <3>1, <3>2, <3>3
    <3> QED
      BY <1>2, <3>2, <3>4
  <2> QED
    BY <2>1, <2>2
<1> QED
  BY <1>3, <1>7, <1>8 DEF SessionInv

\* What the server and the network do.
LEMMA ServeStep ==
  ASSUME SessionInv,
         NEW t \in Tabs, NEW c \in calls[t], Serve(t, c)
  PROVE  SessionInv'
<1>1. /\ c \in Calls
      /\ live \subseteq issued /\ issued \subseteq Tokens /\ code \in BOOLEAN
      /\ calls \in [Tabs -> SUBSET Calls]
  BY DEF SessionInv, SessionTables
<1>2. c.kind \in {"check", "login", "consume"} /\ c.token \in Auths
  BY <1>1 DEF Calls
<1>3. ASSUME NEW token \in Auths, NEW answer \in {"yes", "no", "lost"},
             Answered(t, c, token, answer)
      PROVE  \E e \in Calls :
               /\ calls' = [calls EXCEPT ![t] = (@ \ {c}) \cup {e}]
               /\ e.kind = c.kind /\ e.n = c.n /\ e.token = token /\ e.answer = answer
  <2>1. PICK e : e = [c EXCEPT !.token = token, !.answer = answer]
    OBVIOUS
  <2>2. e \in Calls /\ e.kind = c.kind /\ e.n = c.n /\ e.token = token /\ e.answer = answer
    BY <1>1, <2>1 DEF Calls
  <2>3. calls' = [calls EXCEPT ![t] = (@ \ {c}) \cup {e}]
    BY <1>3, <2>1 DEF Answered
  <2> QED
    BY <2>2, <2>3
<1>4. NoAuth \in Auths /\ \A k \in Tokens : k \in Auths
  BY DEF Auths
<1>5. CASE ServeCheck(t, c)
  <2>1. PICK answer \in {"yes", "no"} : answer = IF c.token \in live THEN "yes" ELSE "no"
    OBVIOUS
  <2>2. /\ Answered(t, c, c.token, answer) /\ c.kind = "check" /\ c.answer = "none"
        /\ UNCHANGED <<stored, tab, issued, live, code, loads>>
    BY <1>5, <2>1 DEF ServeCheck
  <2>3. PICK e \in Calls :
           /\ calls' = [calls EXCEPT ![t] = (@ \ {c}) \cup {e}]
           /\ e.kind = c.kind /\ e.n = c.n /\ e.token = c.token /\ e.answer = answer
    BY <1>2, <1>3, <2>2
  <2> QED
    BY <1>1, <2>1, <2>2, <2>3, AnswerStep
<1>6. CASE Refuse(t, c)
  <2>1. /\ Answered(t, c, NoAuth, "no") /\ c.kind # "check" /\ c.answer = "none"
        /\ UNCHANGED <<stored, tab, issued, live, code, loads>>
    BY <1>6 DEF Refuse
  <2>2. PICK e \in Calls :
           /\ calls' = [calls EXCEPT ![t] = (@ \ {c}) \cup {e}]
           /\ e.kind = c.kind /\ e.n = c.n /\ e.token = NoAuth /\ e.answer = "no"
    BY <1>3, <1>4, <2>1
  <2> QED
    BY <1>1, <2>1, <2>2, AnswerStep
<1>7. ASSUME NEW k \in Tokens, IssueToken(t, c, k) PROVE SessionInv'
  <2>1. /\ Answered(t, c, k, "yes") /\ c.kind # "check" /\ c.answer = "none"
        /\ k \notin issued /\ issued' = issued \cup {k} /\ live' = live \cup {k}
        /\ UNCHANGED <<stored, tab, loads>>
    BY <1>7 DEF IssueToken
  <2>2. code' \in BOOLEAN
    <3>1. code' = (code /\ c.kind = "login")
      BY <1>7 DEF IssueToken
    <3> QED
      BY <3>1
  <2>3. PICK e \in Calls :
           /\ calls' = [calls EXCEPT ![t] = (@ \ {c}) \cup {e}]
           /\ e.kind = c.kind /\ e.n = c.n /\ e.token = k /\ e.answer = "yes"
    BY <1>3, <1>4, <2>1
  <2>4. issued' \subseteq Tokens /\ live' \subseteq issued' /\ live' \cap issued \subseteq live
        /\ issued \subseteq issued' /\ k \in issued' \ issued
    BY <1>1, <2>1
  <2> QED
    BY <2>1, <2>2, <2>3, <2>4, AnswerStep
<1>8. CASE Lose(t, c)
  <2>1. PICK token \in {c.token, NoAuth}, answer \in {"no", "lost"} :
          /\ Answered(t, c, token, answer)
          /\ IF c.kind = "check" THEN token = c.token /\ answer = "lost" /\ c.answer = "none"
                                 ELSE token = NoAuth /\ answer = "no"
    BY <1>8 DEF Lose
  <2>2. UNCHANGED <<stored, tab, issued, live, code, loads>>
    BY <1>8 DEF Lose
  <2>3. PICK e \in Calls :
           /\ calls' = [calls EXCEPT ![t] = (@ \ {c}) \cup {e}]
           /\ e.kind = c.kind /\ e.n = c.n /\ e.token = token /\ e.answer = answer
    BY <1>2, <1>3, <1>4, <2>1
  <2> QED
    BY <1>1, <2>1, <2>2, <2>3, AnswerStep
<1> QED
  BY <1>5, <1>6, <1>7, <1>8 DEF Serve

\* Sessions end.
LEMMA RevokeStep ==
  ASSUME SessionInv, NEW k \in Tokens, Revoke(k)
  PROVE  SessionInv'
<1>1. live' = live \ {k} /\ UNCHANGED <<stored, tab, calls, issued, code, loads>>
  BY DEF Revoke
<1>2. SessionTables'
  BY <1>1 DEF SessionInv, SessionTables
<1>3. BroughtOnce'
  BY <1>1 DEF SessionInv, BroughtOnce, Brings
<1>4. \A T, C : TabFits(T, C) => TabFits(T, C)'
  BY <1>1 DEF TabFits
<1> QED
  BY <1>1, <1>2, <1>3, <1>4 DEF SessionInv

\* A page is loaded.
LEMMA LoadStep ==
  ASSUME SessionInv, NEW t \in Tabs,
         Leave(t) \/ \E verify \in BOOLEAN : Load(t, verify)
  PROVE  SessionInv'
<1>1. PICK verify \in BOOLEAN :
        /\ tab' = [tab EXCEPT ![t] = Loaded(stored, verify)]
        /\ calls' = [calls EXCEPT ![t] = {}]
        /\ UNCHANGED <<stored, issued, live, code>>
        /\ loads' \in {loads, loads + 1} /\ (loads' # loads => loads < MaxLoads)
  BY DEF Leave, Load
<1>2. loads' \in 0 .. MaxLoads
  BY <1>1, SessionProviderAssumption DEF SessionInv, SessionTables
<1>3. PICK T : T = Loaded(stored, verify)
  OBVIOUS
<1>4. stored \in issued \cup {NoAuth} /\ issued \subseteq Tokens
  BY DEF SessionInv, SessionTables
<1>5. T \in TabSet /\ T.auth = stored /\ T.seen = Unseen /\ ~T.ready /\ ~T.consuming
  BY <1>3, <1>4 DEF Loaded, TabSet, Auths
<1>6. TabFits(T, {}) /\ {} \in SUBSET Calls
  BY <1>4, <1>5, SessionProviderAssumption DEF TabFits
<1>7. \A u \in Tabs : \A d \in calls'[u] : Brings(d) => d.token # NoAuth
  <2>1. \A u \in Tabs : calls'[u] \subseteq calls[u]
    BY <1>1 DEF SessionInv, SessionTables
  <2> QED
    BY <2>1, SessionProviderAssumption DEF SessionInv, SessionTables, TabFits, Brings
<1>8. PICK C : C = {}
  OBVIOUS
<1>9. /\ tab' = [tab EXCEPT ![t] = T] /\ calls' = [calls EXCEPT ![t] = C]
      /\ TabFits(T, C) /\ C \in SUBSET Calls /\ \A d \in C : d \in calls[t]
  BY <1>1, <1>3, <1>6, <1>8
<1>10. /\ stored' \in {stored, NoAuth} /\ NoAuth \in issued \cup {NoAuth}
       /\ T.auth \in {tab[t].auth, stored, NoAuth} /\ T.seen \in {tab[t].seen, tab[t].auth, Unseen}
  BY <1>1, <1>5
<1>11. TabDoes(t, T, C, NoAuth)
  BY <1>1, <1>2, <1>5, <1>7, <1>9, <1>10 DEF TabDoes
<1> QED
  BY <1>11, TabStep

\* Tokens that are brought are tokens.
LEMMA BroughtIsToken ==
  ASSUME SessionInv, NEW u \in Tabs, NEW d \in calls[u]
  PROVE  /\ d.token \in issued \cup {NoAuth}
         /\ Brings(d) => d.token \in issued /\ d.token \notin {NoAuth, Unseen}
BY SessionProviderAssumption DEF SessionInv, SessionTables, TabFits, Brings

\* The field of a record may be whether two values are equal, or one is in a set.
LEMMA EqualOrNot ==
  ASSUME NEW x, NEW y, NEW z, NEW S
  PROVE  \E b \in BOOLEAN : b = (x = y /\ z \in S)
<1>1. CASE x = y /\ z \in S
  <2>1. TRUE = (x = y /\ z \in S)
    BY <1>1
  <2> QED
    BY <2>1
<1>2. CASE ~(x = y /\ z \in S)
  <2>1. FALSE = (x = y /\ z \in S)
    BY <1>2
  <2> QED
    BY <2>1
<1> QED
  BY <1>1, <1>2

\* What the user does to a tab.
LEMMA UserStep ==
  ASSUME SessionInv, NEW t \in Tabs,
         Submit(t) \/ Logout(t)
  PROVE  SessionInv'
<1>1. /\ tab \in [Tabs -> TabSet] /\ calls \in [Tabs -> SUBSET Calls]
      /\ stored \in issued \cup {NoAuth} /\ issued \subseteq Tokens /\ loads \in 0 .. MaxLoads
      /\ TabFits(tab[t], calls[t])
  BY DEF SessionInv, SessionTables
<1>2. NoAuth \notin issued /\ Unseen \notin issued \cup {NoAuth} /\ NoAuth \notin Admins
  BY <1>1, SessionProviderAssumption
<1>3. /\ \A u \in Tabs : \A d \in calls[u] : Brings(d) => d.token # NoAuth
  BY BroughtIsToken
<1>4. tab[t].ready /\ tab[t].seen # Unseen
  BY <1>1 DEF Submit, Logout, Shown, TabFits
<1>5. CASE Submit(t)
  <2> DEFINE e == Call(t, "login", NoAuth)
  <2>1. /\ \A c, d \in calls[t] : c.kind = "login" /\ d.kind = "login" => c = d
        /\ calls' = [calls EXCEPT ![t] = @ \cup {e}]
        /\ UNCHANGED <<stored, tab, issued, live, code, loads>>
    BY <1>5 DEF Submit, Logins
  <2>2. e \in Calls /\ e.kind = "login" /\ e.token = NoAuth /\ e.answer = "none"
    BY <1>1, <2>1, NewCall DEF Auths
  <2> HIDE DEF e
  <2>3. PICK T, C : T = tab[t] /\ C = calls[t] \cup {e}
    OBVIOUS
  <2>4. TabFits(T, C)
    BY <1>1, <1>2, <1>4, <2>2, <2>3 DEF TabFits
  <2>5. /\ T \in TabSet /\ C \in SUBSET Calls
        /\ tab' = [tab EXCEPT ![t] = T] /\ calls' = [calls EXCEPT ![t] = C]
    BY <1>1, <2>1, <2>2, <2>3
  <2>6. \A u \in Tabs : \A d \in calls'[u] : Brings(d) => d.token # NoAuth
    BY <1>1, <1>3, <2>1, <2>2 DEF Brings
  <2>7. \A d \in C : d \in calls[t] \/ (~Brings(d) /\ d.token \in {tab[t].auth, NoAuth})
    BY <2>2, <2>3 DEF Brings
  <2>8. TabDoes(t, T, C, NoAuth)
    BY <1>1, <2>1, <2>3, <2>4, <2>5, <2>6, <2>7 DEF TabDoes
  <2> QED
    BY <2>8, TabStep
<1>6. CASE Logout(t)
  <2>1. PICK T : T = [tab[t] EXCEPT !.auth = NoAuth, !.authed = FALSE, !.admin = FALSE]
    OBVIOUS
  <2>2. /\ tab' = [tab EXCEPT ![t] = T] /\ stored' = NoAuth
        /\ UNCHANGED <<calls, issued, live, code, loads>>
    BY <1>1, <1>6, <2>1 DEF Logout
  <2>3. /\ T \in TabSet /\ T.auth = NoAuth /\ ~T.authed /\ ~T.admin
        /\ T.seen = tab[t].seen /\ T.ready = tab[t].ready /\ T.consuming = tab[t].consuming
        /\ T.leaving = tab[t].leaving
    BY <1>1, <2>1 DEF TabSet, Auths
  <2>4. PICK C : C = calls[t]
    OBVIOUS
  <2>5. TabFits(T, C)
    BY <1>1, <1>2, <1>4, <2>3, <2>4 DEF TabFits
  <2>6. C \in SUBSET Calls /\ calls' = [calls EXCEPT ![t] = C]
    BY <1>1, <2>2, <2>4
  <2>7. TabDoes(t, T, C, NoAuth)
    BY <1>1, <1>3, <2>2, <2>3, <2>4, <2>5, <2>6 DEF TabDoes
  <2> QED
    BY <2>7, TabStep
<1> QED
  BY <1>5, <1>6

\* What is known of a tab, and of the answers that wait for it.
LEMMA TabFacts ==
  ASSUME SessionInv, NEW t \in Tabs
  PROVE  /\ tab \in [Tabs -> TabSet] /\ calls \in [Tabs -> SUBSET Calls]
         /\ tab[t] \in TabSet /\ calls[t] \in SUBSET Calls
         /\ stored \in issued \cup {NoAuth} /\ issued \subseteq Tokens /\ loads \in 0 .. MaxLoads
         /\ TabFits(tab[t], calls[t])
         /\ NoAuth \notin issued /\ Unseen \notin issued \cup {NoAuth} /\ NoAuth \notin Admins
         /\ \A u \in Tabs : \A d \in calls[u] : Brings(d) => d.token # NoAuth
BY BroughtIsToken, SessionProviderAssumption DEF SessionInv, SessionTables

\* The effects of a tab.
LEMMA EffectStep ==
  ASSUME SessionInv, NEW t \in Tabs, Effect(t)
  PROVE  SessionInv'
<1> DEFINE auth == tab[t].auth
           e == Call(t, "check", auth)
           f == Call(t, "consume", NoAuth)
<1>1. /\ tab \in [Tabs -> TabSet] /\ calls \in [Tabs -> SUBSET Calls]
      /\ tab[t] \in TabSet /\ calls[t] \in SUBSET Calls
      /\ stored \in issued \cup {NoAuth} /\ issued \subseteq Tokens /\ loads \in 0 .. MaxLoads
      /\ TabFits(tab[t], calls[t])
      /\ NoAuth \notin issued /\ Unseen \notin issued \cup {NoAuth} /\ NoAuth \notin Admins
      /\ \A u \in Tabs : \A d \in calls[u] : Brings(d) => d.token # NoAuth
  BY TabFacts
<1>2. tab[t].seen # auth /\ UNCHANGED <<stored, issued, live, code, loads>>
  BY DEF Effect
<1>3. PICK consume \in BOOLEAN : consume = (tab[t].seen = Unseen /\ tab[t].verify)
  <2>1. tab[t].verify \in BOOLEAN
    BY <1>1 DEF TabSet
  <2>2. CASE tab[t].seen = Unseen /\ tab[t].verify
    <3>1. TRUE = (tab[t].seen = Unseen /\ tab[t].verify)
      BY <2>2
    <3> QED
      BY <3>1
  <2>3. CASE ~(tab[t].seen = Unseen /\ tab[t].verify)
    <3>1. FALSE = (tab[t].seen = Unseen /\ tab[t].verify)
      BY <2>3
    <3> QED
      BY <3>1
  <2> QED
    BY <2>2, <2>3
<1>4. auth \in issued \cup {NoAuth} /\ auth \in Auths
  BY <1>1 DEF TabFits, Auths
<1>5. e \in Calls /\ e.kind = "check" /\ e.token = auth /\ e.answer = "none"
  <2>1. \A c \in calls[t] : c.kind = "check" /\ c.token = auth => c.n = 1
    BY <1>1, <1>2 DEF TabFits
  <2> QED
    BY <1>1, <1>4, <2>1, NewCall
<1>6. consume => f \in Calls /\ f.kind = "consume" /\ f.token = NoAuth /\ f.answer = "none"
  <2> SUFFICES ASSUME consume
               PROVE  f \in Calls /\ f.kind = "consume" /\ f.token = NoAuth
                      /\ f.answer = "none"
    OBVIOUS
  <2>1. calls[t] = {}
    BY <1>1, <1>3 DEF TabFits
  <2>2. NoAuth \in Auths
    BY DEF Auths
  <2> QED
    BY <1>1, <2>1, <2>2, NewCall
<1>7. PICK C : C = calls[t] \cup {e : x \in {auth} \ {NoAuth}} \cup {f : x \in {TRUE} \cap {consume}}
  OBVIOUS
<1>8. calls' = [calls EXCEPT ![t] = C]
  <2>1. calls' = [calls EXCEPT ![t] = @ \cup {e : x \in {auth} \ {NoAuth}}
                                        \cup {f : x \in {TRUE} \cap {consume}}]
    BY <1>3 DEF Effect
  <2> QED
    BY <1>7, <2>1
<1>9. /\ \A d \in C : d \in calls[t] \/ (d = e /\ auth # NoAuth) \/ (d = f /\ consume)
      /\ calls[t] \subseteq C /\ (auth # NoAuth => e \in C) /\ (consume => f \in C)
  BY <1>3, <1>7
<1>10. PICK verified : verified = IF auth = NoAuth
                                  THEN [tab[t] EXCEPT !.ready = TRUE, !.authed = FALSE,
                                                      !.admin = FALSE, !.late = FALSE]
                                  ELSE tab[t]
  OBVIOUS
<1>11. /\ verified \in TabSet /\ verified.auth = auth /\ verified.leaving = tab[t].leaving
       /\ verified.consuming = tab[t].consuming
       /\ auth = NoAuth => verified.ready /\ ~verified.authed /\ ~verified.admin
  BY <1>1, <1>10 DEF TabSet
<1>12. PICK b \in BOOLEAN : b = (tab[t].consuming \/ consume)
  <2>1. tab[t].consuming \in BOOLEAN
    BY <1>1 DEF TabSet
  <2> QED
    BY <2>1
<1>13. PICK T : T = [verified EXCEPT !.seen = auth, !.consuming = b]
  OBVIOUS
<1>14. /\ T \in TabSet /\ T.auth = auth /\ T.seen = auth /\ T.leaving = tab[t].leaving
       /\ T.consuming = b /\ T.ready = verified.ready
       /\ auth = NoAuth => T.ready /\ ~T.authed /\ ~T.admin
  BY <1>1, <1>11, <1>13 DEF TabSet
<1>15. tab' = [tab EXCEPT ![t] = T]
  <2>1. tab' = [tab EXCEPT ![t] = [verified EXCEPT !.seen = auth, !.consuming = @ \/ consume]]
    BY <1>3, <1>10 DEF Effect
  <2>2. [verified EXCEPT !.seen = auth, !.consuming = @ \/ consume] = T
    BY <1>11, <1>12, <1>13 DEF TabSet
  <2> QED
    BY <2>1, <2>2
<1> HIDE DEF auth, e, f
<1>16. TabFits(T, C)
  <2>1. /\ T.auth \in issued \cup {NoAuth} /\ T.seen \in issued \cup {NoAuth, Unseen}
        /\ T.seen # Unseen
        /\ ~T.ready => \E c \in C : c.kind = "check"
        /\ (\A c \in C : c.kind # "check") => T.auth = NoAuth /\ ~T.authed /\ ~T.admin
    BY <1>1, <1>4, <1>5, <1>9, <1>14
  <2>2. T.consuming /\ ~T.leaving => \E c \in C : c.kind = "consume"
    BY <1>1, <1>6, <1>9, <1>12, <1>14 DEF TabFits
  <2>3. \A c \in C :
          IF c.kind = "check" THEN c.token \in issued /\ (c.answer = "no" => c.token \notin live)
          ELSE IF c.answer = "yes" THEN c.token \in issued ELSE c.token = NoAuth
    BY <1>1, <1>4, <1>5, <1>6, <1>9 DEF TabFits
  <2> QED
    BY <1>1, <1>14, <2>1, <2>2, <2>3 DEF TabFits
<1>17. \A d \in C : d \in calls[t] \/ (~Brings(d) /\ d.token \in {tab[t].auth, NoAuth})
  BY <1>5, <1>6, <1>9 DEF Brings, auth
<1>18. \A u \in Tabs : \A d \in calls'[u] : Brings(d) => d.token # NoAuth
  <2>1. \A u \in Tabs : calls'[u] = IF u = t THEN C ELSE calls[u]
    BY <1>1, <1>8
  <2> QED
    BY <1>1, <1>17, <2>1
<1>19. C \in SUBSET Calls
  BY <1>1, <1>5, <1>6, <1>9
<1>20. TabDoes(t, T, C, NoAuth)
  BY <1>1, <1>2, <1>8, <1>14, <1>15, <1>16, <1>17, <1>18, <1>19 DEF TabDoes, auth
<1> QED
  BY <1>20, TabStep

\* An answer comes in.
LEMMA CheckStep ==
  ASSUME SessionInv, NEW t \in Tabs,
         NEW c \in calls[t], DeliverCheck(t, c)
  PROVE  SessionInv'
<1>1. /\ tab \in [Tabs -> TabSet] /\ calls \in [Tabs -> SUBSET Calls]
      /\ tab[t] \in TabSet /\ calls[t] \in SUBSET Calls
      /\ stored \in issued \cup {NoAuth} /\ issued \subseteq Tokens /\ loads \in 0 .. MaxLoads
      /\ TabFits(tab[t], calls[t])
      /\ NoAuth \notin issued /\ Unseen \notin issued \cup {NoAuth} /\ NoAuth \notin Admins
      /\ \A u \in Tabs : \A d \in calls[u] : Brings(d) => d.token # NoAuth
  BY TabFacts
<1>2. /\ c.kind = "check" /\ calls' = [calls EXCEPT ![t] = @ \ {c}]
      /\ stored' \in {stored, NoAuth} /\ UNCHANGED <<issued, live, code, loads>>
  BY DEF DeliverCheck
<1>3. PICK yes \in BOOLEAN : yes = (c.answer = "yes" /\ c.token \in {c.token})
  BY EqualOrNot
<1>4. PICK admin \in BOOLEAN : admin = (c.answer = "yes" /\ c.token \in Admins)
  BY EqualOrNot
<1>5. PICK late \in BOOLEAN : late = (c.token # tab[t].auth)
  <2>1. PICK same \in BOOLEAN : same = (c.token = tab[t].auth /\ c.token \in {c.token})
    BY EqualOrNot
  <2>2. CASE same
    <3>1. FALSE = (c.token # tab[t].auth)
      BY <2>1, <2>2
    <3> QED
      BY <3>1
  <2>3. CASE ~same
    <3>1. TRUE = (c.token # tab[t].auth)
      BY <2>1, <2>3
    <3> QED
      BY <3>1
  <2> QED
    BY <2>2, <2>3
<1>6. PICK auth : auth = IF c.answer = "yes" THEN tab[t].auth ELSE NoAuth
  OBVIOUS
<1>7. PICK T : T = [tab[t] EXCEPT !.auth = auth, !.ready = TRUE, !.authed = yes,
                                  !.admin = admin, !.late = late]
  OBVIOUS
<1>8. tab' = [tab EXCEPT ![t] = T]
  <2>1. tab' = [tab EXCEPT ![t].auth = auth, ![t].ready = TRUE, ![t].authed = (c.answer = "yes"),
                           ![t].admin = (c.answer = "yes" /\ c.token \in Admins),
                           ![t].late = (c.token # tab[t].auth)]
    BY <1>6 DEF DeliverCheck, Keeps
  <2>2. yes = (c.answer = "yes")
    BY <1>3
  <2>3. tab' = [tab EXCEPT ![t].auth = auth, ![t].ready = TRUE, ![t].authed = yes,
                           ![t].admin = admin, ![t].late = late]
    BY <1>4, <1>5, <2>1, <2>2
  <2> QED
    BY <1>1, <1>7, <2>3
<1>9. /\ T \in TabSet /\ T.auth = auth /\ T.ready /\ T.authed = yes /\ T.admin = admin
      /\ T.late = late /\ T.seen = tab[t].seen /\ T.consuming = tab[t].consuming
      /\ T.leaving = tab[t].leaving
  <2>1. PICK r \in TabSet : r = tab[t]
    BY <1>1
  <2>2. r.auth \in Auths
    BY DEF TabSet, Auths
  <2>3. auth \in Auths
    BY <1>6, <2>1, <2>2 DEF Auths
  <2>4. T = [r EXCEPT !.auth = auth, !.ready = TRUE, !.authed = yes, !.admin = admin, !.late = late]
    BY <1>7, <2>1
  <2>5. /\ T \in TabSet /\ T.auth = auth /\ T.ready /\ T.authed = yes /\ T.admin = admin
        /\ T.late = late /\ T.seen = r.seen /\ T.consuming = r.consuming
        /\ T.leaving = r.leaving
    BY <2>3, <2>4 DEF TabSet
  <2> QED
    BY <2>1, <2>5
<1>10. PICK C : C = calls[t] \ {c}
  OBVIOUS
<1>11. C \in SUBSET Calls /\ calls' = [calls EXCEPT ![t] = C] /\ C \subseteq calls[t]
  BY <1>1, <1>2, <1>10
<1>12. TabFits(T, C)
  <2>1. T.seen # Unseen /\ c.token \in issued
    BY <1>1, <1>2, <1>9 DEF TabFits
  <2>2. ~T.late => (T.authed <=> T.auth # NoAuth) /\ (T.admin <=> T.auth \in Admins)
    <3>1. c.answer = "yes" => auth = tab[t].auth /\ yes /\ (admin <=> c.token \in Admins)
      BY <1>3, <1>4, <1>6
    <3>2. c.answer # "yes" => auth = NoAuth /\ ~yes /\ ~admin
      BY <1>3, <1>4, <1>6
    <3>3. ~late => c.token = tab[t].auth
      BY <1>5
    <3> QED
      BY <1>1, <1>9, <2>1, <3>1, <3>2, <3>3
  <2>3. T.consuming /\ ~T.leaving => \E d \in C : d.kind = "consume"
    BY <1>1, <1>2, <1>9, <1>10 DEF TabFits
  <2>4. T.auth \in issued \cup {NoAuth} /\ T.seen \in issued \cup {NoAuth, Unseen}
    BY <1>1, <1>6, <1>9 DEF TabFits
  <2>5. \A d \in C :
          IF d.kind = "check"
          THEN /\ d.token \in issued
               /\ d.token = T.auth /\ T.seen # T.auth => d.n = 1
               /\ d.answer = "no" => d.token \notin live
          ELSE IF d.answer = "yes" THEN d.token \in issued ELSE d.token = NoAuth
    BY <1>1, <1>6, <1>9, <1>11 DEF TabFits
  <2> QED
    BY <1>9, <2>1, <2>2, <2>3, <2>4, <2>5 DEF TabFits
<1>13. \A u \in Tabs : \A d \in calls'[u] : Brings(d) => d.token # NoAuth
  BY <1>1, <1>2
<1>14. T.auth \in {tab[t].auth, stored, NoAuth} /\ T.seen \in {tab[t].seen, tab[t].auth, Unseen}
  BY <1>6, <1>9
<1>15. TabDoes(t, T, C, NoAuth)
  BY <1>1, <1>2, <1>8, <1>9, <1>11, <1>12, <1>13, <1>14 DEF TabDoes
<1> QED
  BY <1>15, TabStep

\* A new token comes in, with a login or a quick login, or nothing does.
LEMMA TokenStep ==
  ASSUME SessionInv, NEW t \in Tabs,
         NEW c \in calls[t], DeliverLogin(t, c) \/ DeliverConsume(t, c)
  PROVE  SessionInv'
<1> DEFINE e == Call(t, "check", c.token)
<1>1. /\ tab \in [Tabs -> TabSet] /\ calls \in [Tabs -> SUBSET Calls]
      /\ tab[t] \in TabSet /\ calls[t] \in SUBSET Calls
      /\ stored \in issued \cup {NoAuth} /\ issued \subseteq Tokens /\ loads \in 0 .. MaxLoads
      /\ TabFits(tab[t], calls[t])
      /\ NoAuth \notin issued /\ Unseen \notin issued \cup {NoAuth} /\ NoAuth \notin Admins
      /\ \A u \in Tabs : \A d \in calls[u] : Brings(d) => d.token # NoAuth
  BY TabFacts
<1>2. /\ c.kind \in {"login", "consume"} /\ UNCHANGED <<issued, live, code, loads>>
      /\ (c.kind = "login") = DeliverLogin(t, c)
  BY DEF DeliverLogin, DeliverConsume
<1>3. PICK yes \in BOOLEAN : yes = (c.answer = "yes" /\ c.token \in {c.token})
  BY EqualOrNot
<1>4. PICK x : x = IF yes THEN c.token ELSE NoAuth
  OBVIOUS
<1>5. PICK asks \in BOOLEAN : asks = (c.kind = "login" /\ t \in {u \in AdminTabs : yes})
  BY EqualOrNot
<1>6. /\ yes => Brings(c) /\ c.token \in issued /\ c.token # NoAuth
      /\ ~yes => x = NoAuth
      /\ yes => x = c.token
      /\ x \in issued \cup {NoAuth}
  BY <1>1, <1>2, <1>3, <1>4 DEF Brings, TabFits
<1>7. yes => /\ stored # x /\ tab[t].auth # x /\ tab[t].seen # x
             /\ \A u \in Tabs : \A d \in calls[u] : d.token = x => u = t /\ d = c
  BY <1>6 DEF SessionInv, BroughtOnce
<1>8. yes => /\ e \in Calls /\ e.kind = "check" /\ e.token = x /\ e.answer = "none"
             /\ e.n = 1
  <2> SUFFICES ASSUME yes
               PROVE  /\ e \in Calls /\ e.kind = "check" /\ e.token = x
                      /\ e.answer = "none" /\ e.n = 1
    OBVIOUS
  <2>1. c.token \in Auths
    BY <1>1, <1>6 DEF Auths
  <2>2. \A d \in calls[t] : ~(d.kind = "check" /\ d.token = c.token)
    BY <1>2, <1>6, <1>7
  <2> QED
    BY <1>1, <1>6, <2>1, <2>2, NewCall
<1>9. PICK C : C = (calls[t] \ {c}) \cup (IF asks THEN {e} ELSE {})
  OBVIOUS
<1>10. calls' = [calls EXCEPT ![t] = C]
  <2>1. CASE DeliverLogin(t, c) /\ c.answer = "yes"
    <3>1. calls' = [calls EXCEPT ![t] = (@ \ {c}) \cup {e : y \in {t} \cap AdminTabs}]
      BY <2>1 DEF DeliverLogin
    <3>2. {e : y \in {t} \cap AdminTabs} = IF asks THEN {e} ELSE {}
      BY <1>2, <1>3, <1>5, <2>1
    <3> QED
      BY <1>9, <3>1, <3>2
  <2>2. CASE ~(DeliverLogin(t, c) /\ c.answer = "yes")
    <3>1. calls' = [calls EXCEPT ![t] = @ \ {c}]
      BY <2>2 DEF DeliverLogin, DeliverConsume
    <3>2. ~asks
      BY <1>2, <1>3, <1>5, <2>2
    <3> QED
      BY <1>9, <3>1, <3>2
  <2> QED
    BY <2>1, <2>2
<1>11. PICK auth : auth = IF yes THEN c.token ELSE tab[t].auth
  OBVIOUS
<1>12. PICK leaving \in BOOLEAN :
         (c.kind = "consume" => leaving) /\ (c.kind = "login" => leaving = tab[t].leaving)
  <2>1. tab[t].leaving \in BOOLEAN
    BY <1>1 DEF TabSet
  <2>2. CASE c.kind = "consume"
    BY <2>2
  <2>3. CASE c.kind = "login"
    BY <2>1, <2>3
  <2> QED
    BY <1>2, <2>2, <2>3
<1>13. PICK T : T = [tab[t] EXCEPT !.auth = auth, !.leaving = leaving]
  OBVIOUS
<1>14. /\ T \in TabSet /\ T.auth = auth /\ T.leaving = leaving /\ T.ready = tab[t].ready
       /\ T.seen = tab[t].seen /\ T.consuming = tab[t].consuming /\ T.authed = tab[t].authed
       /\ T.admin = tab[t].admin /\ T.late = tab[t].late
  BY <1>1, <1>6, <1>11, <1>13 DEF TabSet, Auths
<1>15. tab' = [tab EXCEPT ![t] = T] /\ stored' = IF yes THEN c.token ELSE stored
  <2>1. CASE c.kind = "login"
    <3>1. DeliverLogin(t, c)
      BY <1>2, <2>1
    <3>2. CASE yes
      <4>1. tab' = [tab EXCEPT ![t].auth = c.token] /\ stored' = c.token
        BY <1>3, <3>1, <3>2 DEF DeliverLogin
      <4>2. T = [tab[t] EXCEPT !.auth = c.token]
        BY <1>1, <1>11, <1>12, <1>13, <2>1, <3>2 DEF TabSet
      <4> QED
        BY <1>1, <3>2, <4>1, <4>2
    <3>3. CASE ~yes
      <4>1. UNCHANGED <<tab, stored>>
        BY <1>3, <3>1, <3>3 DEF DeliverLogin
      <4>2. T = tab[t]
        BY <1>1, <1>11, <1>12, <1>13, <2>1, <3>3 DEF TabSet
      <4> QED
        BY <1>1, <3>3, <4>1, <4>2
    <3> QED
      BY <3>2, <3>3
  <2>2. CASE c.kind = "consume"
    <3>1. /\ tab' = [tab EXCEPT ![t].auth = auth, ![t].leaving = TRUE]
          /\ stored' = IF yes THEN c.token ELSE stored
      BY <1>3, <1>11, <2>2 DEF DeliverLogin, DeliverConsume
    <3>2. leaving = TRUE
      BY <1>12, <2>2
    <3> QED
      BY <1>1, <1>13, <3>1, <3>2
  <2> QED
    BY <1>2, <2>1, <2>2
<1> HIDE DEF e
<1>16. /\ \A d \in C : (d \in calls[t] /\ d # c) \/ (asks /\ d = e)
       /\ \A d \in calls[t] : d # c => d \in C
       /\ C \in SUBSET Calls /\ (asks => yes)
  BY <1>1, <1>5, <1>8, <1>9
<1>17. TabFits(T, C)
  <2>1. T.auth \in issued \cup {NoAuth} /\ T.seen \in issued \cup {NoAuth, Unseen}
    BY <1>1, <1>6, <1>11, <1>14 DEF TabFits
  <2>2. T.seen # Unseen
    BY <1>1, <1>14 DEF TabFits
  <2>3. ~T.ready => \E d \in C : d.kind = "check"
    BY <1>1, <1>2, <1>14, <1>16, <2>2 DEF TabFits
  <2>4. T.consuming /\ ~T.leaving => \E d \in C : d.kind = "consume"
    BY <1>1, <1>2, <1>12, <1>14, <1>16 DEF TabFits
  <2>5. T.ready /\ T.seen = T.auth /\ (\A d \in C : d.kind # "check") /\ ~T.late =>
          (T.authed <=> T.auth # NoAuth) /\ (T.admin <=> T.auth \in Admins)
    <3>1. CASE yes
      BY <1>6, <1>7, <1>11, <1>14, <3>1
    <3>2. CASE ~yes
      BY <1>1, <1>2, <1>11, <1>14, <1>16, <3>2 DEF TabFits
    <3> QED
      BY <3>1, <3>2
  <2>6. ASSUME NEW d \in C
        PROVE  IF d.kind = "check"
               THEN /\ d.token \in issued
                    /\ d.token = T.auth /\ T.seen # T.auth => d.n = 1
                    /\ d.answer = "no" => d.token \notin live
               ELSE IF d.answer = "yes" THEN d.token \in issued ELSE d.token = NoAuth
    <3>1. CASE asks /\ d = e
      BY <1>6, <1>8, <1>16, <3>1
    <3>2. CASE d \in calls[t] /\ d # c
      <4>1. yes => d.token # T.auth
        BY <1>6, <1>7, <1>11, <1>14, <3>2
      <4>2. ~yes => T.auth = tab[t].auth /\ T.seen = tab[t].seen
        BY <1>11, <1>14
      <4> QED
        BY <1>1, <3>2, <4>1, <4>2 DEF TabFits
    <3> QED
      BY <1>16, <3>1, <3>2
  <2> QED
    BY <2>1, <2>2, <2>3, <2>4, <2>5, <2>6 DEF TabFits
<1>18. \A d \in C : d \in calls[t] \/ (~Brings(d) /\ d.token \in {tab[t].auth, NoAuth, x})
  BY <1>8, <1>16 DEF Brings
<1>19. ASSUME NEW u \in Tabs, NEW d \in calls'[u], Brings(d) PROVE d.token # x
  <2>1. d \in calls[u] /\ (u = t => d # c)
    <3>1. calls'[u] = IF u = t THEN C ELSE calls[u]
      BY <1>1, <1>10
    <3> QED
      BY <1>8, <1>16, <1>19, <3>1 DEF Brings
  <2>2. CASE yes
    BY <1>7, <2>1, <2>2
  <2>3. CASE ~yes
    BY <1>1, <1>6, <1>19, <2>1, <2>3
  <2> QED
    BY <2>2, <2>3
<1>20. /\ stored' \in {stored, x} /\ T.auth \in {tab[t].auth, stored, x}
       /\ T.seen \in {tab[t].seen, tab[t].auth, Unseen}
  BY <1>4, <1>11, <1>14, <1>15
<1>21. TabDoes(t, T, C, x)
  BY <1>1, <1>2, <1>6, <1>10, <1>14, <1>15, <1>16, <1>17, <1>18, <1>19, <1>20 DEF TabDoes
<1> QED
  BY <1>21, TabStep

\* The invariant holds at the start, and every step keeps it.
LEMMA SessionInitInv ==
  ASSUME SessionInit
  PROVE  SessionInv
<1>1. PICK T : T = Loaded(NoAuth, FALSE)
  OBVIOUS
<1>2. T \in TabSet /\ T.auth = NoAuth /\ T.seen = Unseen /\ ~T.ready /\ ~T.consuming
  BY <1>1 DEF Loaded, TabSet, Auths
<1>3. /\ stored = NoAuth /\ issued = {} /\ live = {} /\ code = TRUE /\ loads = 0
      /\ tab = [t \in Tabs |-> T] /\ calls = [t \in Tabs |-> {}]
  BY <1>1 DEF SessionInit
<1>4. SessionTables
  BY <1>2, <1>3, SessionProviderAssumption DEF SessionTables
<1>5. BroughtOnce
  BY <1>3 DEF BroughtOnce
<1>6. \A t \in Tabs : TabFits(tab[t], calls[t])
  BY <1>2, <1>3, SessionProviderAssumption DEF TabFits
<1> QED
  BY <1>4, <1>5, <1>6 DEF SessionInv

LEMMA SessionNextInv ==
  ASSUME SessionInv, [SessionNext]_(sessionVars)
  PROVE  SessionInv'
<1>1. CASE UNCHANGED sessionVars
  BY <1>1 DEF sessionVars, SessionInv, SessionTables, BroughtOnce, Brings, TabFits
<1>2. ASSUME NEW t \in Tabs,
             Submit(t) \/ Logout(t) \/ Effect(t) \/ Leave(t)
             \/ \E verify \in BOOLEAN : Load(t, verify)
      PROVE  SessionInv'
  BY <1>2, UserStep, EffectStep, LoadStep
<1>3. ASSUME NEW t \in Tabs, NEW c \in calls[t], Serve(t, c) \/ Deliver(t, c)
      PROVE  SessionInv'
  BY <1>3, ServeStep, CheckStep, TokenStep DEF Deliver
<1>4. ASSUME NEW k \in Tokens, Revoke(k) PROVE SessionInv'
  BY <1>4, RevokeStep
<1> QED
  BY <1>1, <1>2, <1>3, <1>4 DEF SessionNext

LEMMA SessionAlways == SessionSpec => []SessionInv
<1>1. SessionInit => SessionInv
  BY SessionInitInv
<1>2. SessionInv /\ [SessionNext]_(sessionVars) => SessionInv'
  BY SessionNextInv
<1> QED
  BY <1>1, <1>2, PTL DEF SessionSpec

\* For any number of tabs and tokens: a tab that shows a spinner waits for an
\* effect, an answer or a page, whatever order the answers come in and whichever
\* of them are lost (app.tsx, ready and consumingQuickLogin).
THEOREM SpinnerWaits == SessionSpec => []NeverStuck
<1>0. SessionSpec => []SessionInv
  BY SessionAlways
<1>1. SessionInv => NeverStuck
  <2> SUFFICES ASSUME SessionInv, NEW t \in Tabs, Shown(t) = "loading"
               PROVE  \/ tab[t].seen # tab[t].auth \/ tab[t].leaving
                      \/ \E c \in calls[t] :
                           c.kind = IF tab[t].consuming THEN "consume" ELSE "check"
    BY DEF NeverStuck
  <2>1. /\ TabFits(tab[t], calls[t]) /\ tab[t] \in TabSet
        /\ Unseen \notin issued \cup {NoAuth}
    BY TabFacts
  <2>2. tab[t].consuming \/ ~tab[t].ready
    BY DEF Shown
  <2>3. CASE tab[t].consuming
    BY <2>1, <2>3 DEF TabFits
  <2>4. CASE ~tab[t].consuming /\ ~tab[t].ready
    BY <2>1, <2>4 DEF TabFits
  <2> QED
    BY <2>2, <2>3, <2>4
<1> QED
  BY <1>0, <1>1, PTL

\* And once nothing is asked any more it shows what its token is worth, unless the
\* last answer was about a token it had given up (app.tsx verifySession).
THEOREM TokenIsShown == SessionSpec => []ShowsItsToken
<1>0. SessionSpec => []SessionInv
  BY SessionAlways
<1>1. SessionInv => ShowsItsToken
  <2> SUFFICES ASSUME SessionInv, NEW t \in Tabs, tab[t].ready, tab[t].seen = tab[t].auth,
                      Checks(t) = {}, ~tab[t].late
               PROVE  /\ tab[t].authed = (tab[t].auth # NoAuth)
                      /\ tab[t].admin = (tab[t].auth \in Admins)
    BY DEF ShowsItsToken
  <2>1. \A c \in calls[t] : c.kind # "check"
    BY DEF Checks
  <2>2. (tab[t].authed <=> tab[t].auth # NoAuth) /\ (tab[t].admin <=> tab[t].auth \in Admins)
    BY <2>1, TabFacts DEF TabFits
  <2>3. tab[t].authed \in BOOLEAN /\ tab[t].admin \in BOOLEAN
    BY TabFacts DEF TabSet
  <2> QED
    BY <2>2, <2>3
<1> QED
  BY <1>0, <1>1, PTL

\* Tabs, requests and tokens keep their types, and the three numbers that tell
\* requests apart which ask the same never run out.
THEOREM SessionProviderTypes == SessionSpec => []SessionTypeOK
<1>0. SessionSpec => []SessionInv
  BY SessionAlways
<1>1. SessionInv => SessionTypeOK
  <2> SUFFICES ASSUME SessionInv PROVE SessionTypeOK
    OBVIOUS
  <2>1. stored \in Auths /\ live \subseteq issued /\ issued \subseteq Tokens
        /\ code \in BOOLEAN /\ loads \in 0 .. MaxLoads
    BY DEF SessionInv, SessionTables, Auths
  <2>2. ASSUME NEW t \in Tabs
        PROVE  /\ calls[t] \subseteq Calls
               /\ tab[t] \in [auth : issued \cup {NoAuth}, seen : issued \cup {NoAuth, Unseen},
                              ready : BOOLEAN, authed : BOOLEAN, admin : BOOLEAN,
                              verify : BOOLEAN, consuming : BOOLEAN, leaving : BOOLEAN,
                              late : BOOLEAN]
    <3>1. PICK T : T = tab[t]
      OBVIOUS
    <3>2. T \in TabSet /\ T.auth \in issued \cup {NoAuth} /\ T.seen \in issued \cup {NoAuth, Unseen}
      BY <3>1, TabFacts DEF TabFits
    <3>3. T \in [auth : issued \cup {NoAuth}, seen : issued \cup {NoAuth, Unseen},
                 ready : BOOLEAN, authed : BOOLEAN, admin : BOOLEAN, verify : BOOLEAN,
                 consuming : BOOLEAN, leaving : BOOLEAN, late : BOOLEAN]
      BY <3>2 DEF TabSet
    <3> QED
      BY <3>1, <3>3, TabFacts
  <2> QED
    BY <2>1, <2>2 DEF SessionTypeOK
<1> QED
  BY <1>0, <1>1, PTL

\* A check that was refused asked about a token that is not valid: what was issued
\* is never issued again, so it stays so until the answer comes in.
LEMMA Refused ==
  ASSUME SessionInv, NEW t \in Tabs, NEW c \in calls[t], c.kind = "check", c.answer = "no"
  PROVE  c.token \notin live
BY DEF SessionInv, TabFits

\* A login is kept until a logout, the end of its session, a lost answer, or an
\* answer about another token takes it along (app.tsx clearAuth).
THEOREM LoginStays == SessionSpec => LoginIsKept
<1>0. SessionSpec => []SessionInv
  BY SessionAlways
<1> DEFINE Kept ==
      stored # NoAuth /\ stored' = NoAuth =>
        \/ \E t \in Tabs : Shown(t) = "panel" /\ tab'[t].auth = NoAuth /\ calls' = calls
        \/ \E t \in Tabs : \E c \in Checks(t) \ calls'[t] :
             c.token # stored \/ c.answer = "lost" \/ stored \notin live
<1>1. SessionInv /\ [SessionNext]_(sessionVars) => [Kept]_(sessionVars)
  <2> SUFFICES ASSUME SessionInv, SessionNext, stored # NoAuth, stored' = NoAuth
               PROVE  \/ \E t \in Tabs : /\ Shown(t) = "panel" /\ tab'[t].auth = NoAuth
                                         /\ calls' = calls
                      \/ \E t \in Tabs : \E c \in Checks(t) \ calls'[t] :
                           c.token # stored \/ c.answer = "lost" \/ stored \notin live
    BY DEF sessionVars
  <2>1. ASSUME NEW t \in Tabs,
               Submit(t) \/ Effect(t) \/ Leave(t)
               \/ \E verify \in BOOLEAN : Load(t, verify)
        PROVE  FALSE
    BY <2>1 DEF Submit, Effect, Leave, Load
  <2>2. ASSUME NEW t \in Tabs, Logout(t)
        PROVE  Shown(t) = "panel" /\ tab'[t].auth = NoAuth /\ calls' = calls
    <3>1. tab[t] \in TabSet /\ tab \in [Tabs -> TabSet]
      BY TabFacts
    <3>2. PICK T : T = [tab[t] EXCEPT !.auth = NoAuth, !.authed = FALSE, !.admin = FALSE]
      OBVIOUS
    <3>3. T.auth = NoAuth
      BY <3>1, <3>2 DEF TabSet
    <3>4. tab' = [tab EXCEPT ![t] = T]
      BY <2>2, <3>1, <3>2 DEF Logout
    <3> QED
      BY <2>2, <3>1, <3>3, <3>4 DEF Logout
  <2>3. ASSUME NEW t \in Tabs, NEW c \in calls[t], Serve(t, c)
        PROVE  FALSE
    BY <2>3 DEF Serve, ServeCheck, Refuse, IssueToken, Lose
  <2>4. ASSUME NEW t \in Tabs, NEW c \in calls[t],
               DeliverLogin(t, c) \/ DeliverConsume(t, c)
        PROVE  FALSE
    <3>1. c.kind # "check" /\ c.answer = "yes" /\ stored' = c.token
      BY <2>4 DEF DeliverLogin, DeliverConsume
    <3> QED
      BY <3>1, BroughtIsToken DEF Brings
  <2>5. ASSUME NEW t \in Tabs, NEW c \in calls[t], DeliverCheck(t, c)
        PROVE  /\ c \in Checks(t) \ calls'[t]
               /\ c.token # stored \/ c.answer = "lost" \/ stored \notin live
    <3>1. /\ c.kind = "check" /\ calls' = [calls EXCEPT ![t] = @ \ {c}]
          /\ c.answer # "yes" /\ c.answer # "none"
      BY <2>5 DEF DeliverCheck, Keeps
    <3>2. calls'[t] = calls[t] \ {c} /\ c \in Calls
      BY <3>1, TabFacts
    <3>3. c.answer \in {"no", "lost"}
      BY <3>1, <3>2 DEF Calls
    <3>4. c.answer = "no" => c.token \notin live
      BY <3>1, Refused
    <3> QED
      BY <3>1, <3>2, <3>3, <3>4 DEF Checks
  <2>6. ASSUME NEW k \in Tokens, Revoke(k) PROVE FALSE
    BY <2>6 DEF Revoke
  <2> QED
    BY <2>1, <2>2, <2>3, <2>4, <2>5, <2>6 DEF SessionNext, Deliver
<1> HIDE DEF Kept
<1>2. SessionSpec => [][Kept]_(sessionVars)
  BY <1>0, <1>1, PTL DEF SessionSpec
<1> QED
  BY <1>2 DEF Kept, LoginIsKept
==============================================================================
