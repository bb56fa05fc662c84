---------------------------- MODULE OneTimeCodes ----------------------------
(***************************************************************************)
(* What quick-login codes promise, apart from tables, clocks and requests: *)
(* a code comes into being once, one request at most gets hold of it, and  *)
(* that request may turn it into one login.  QuickLogin implements this.   *)
(***************************************************************************)
EXTENDS Naturals

CONSTANT Codes

VARIABLES
  created, \* the codes there ever were
  live,    \* those that the next request may claim
  claimed, \* those that a request has claimed and not used yet
  logins   \* how many logins each code has led to

abstract == <<created, live, claimed, logins>>

Init ==
  /\ created = {} /\ live = {} /\ claimed = {}
  /\ logins = [c \in Codes |-> 0]

Create(c) ==
  /\ c \notin created
  /\ created' = created \cup {c}
  /\ live' = live \cup {c}
  /\ UNCHANGED <<claimed, logins>>

Claim(c) ==
  /\ c \in live
  /\ live' = live \ {c}
  /\ claimed' = claimed \cup {c}
  /\ UNCHANGED <<created, logins>>

Login(c) ==
  /\ c \in claimed
  /\ claimed' = claimed \ {c}
  /\ logins' = [logins EXCEPT ![c] = @ + 1]
  /\ UNCHANGED <<created, live>>

\* Codes may come to nothing: expired, cut off, or their user deleted.
Lose ==
  /\ live' \subseteq live
  /\ claimed' \subseteq claimed
  /\ UNCHANGED <<created, logins>>

Next ==
  \/ \E c \in Codes : Create(c) \/ Claim(c) \/ Login(c)
  \/ Lose

Spec == Init /\ [][Next]_abstract

\* A code leads to one login at most, whoever shows it, as often as it is shown
\* (src/internal/store/store.go ConsumeQuickLogin).
AtMostOnce == \A c \in Codes : logins[c] \in 0 .. 1

=============================================================================
