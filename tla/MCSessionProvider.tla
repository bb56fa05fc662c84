------------------------- MODULE MCSessionProvider -------------------------
(* SessionProvider with small values for TLC.                              *)
EXTENDS SessionProvider, TLC

\* Requests of a tab that ask the same and were answered the same differ in their
\* number n only.  What the tab and the server do, and what the properties say,
\* depends on how many there are of each (whether a number is free, too).
Alike ==
  [t \in Tabs |->
    {<<c.kind, c.token, c.answer,
       Cardinality({d \in calls[t] : [d EXCEPT !.n = c.n] = c})>> : c \in calls[t]}]

View == <<stored, tab, issued, live, code, loads, Alike>>
=============================================================================
