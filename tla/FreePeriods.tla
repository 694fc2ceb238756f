---------------------------- MODULE FreePeriods ----------------------------
(***************************************************************************)
(* What reading promises a Free account: one period to begin with, and one *)
(* more for each ad it watches, the next never before the last has ended.  *)
(***************************************************************************)
EXTENDS Integers

CONSTANTS User, Token, None, FreePeriod

VARIABLES now, granted

Init == now = 0 /\ granted = {}

Of(u) == {g \in granted : g.user = u}

Grant(u, k, start) ==
    /\ \A g \in Of(u) : g.end <= start
    /\ IF k = None THEN Of(u) = {}
                   ELSE Of(u) # {} /\ \A g \in granted : g.token # k
    /\ granted' = granted \cup
         {[user |-> u, token |-> k, start |-> start, end |-> start + FreePeriod]}
    /\ UNCHANGED now

Tick == now' = now + 1 /\ UNCHANGED granted

Next ==
    \/ Tick
    \/ \E u \in User, k \in Token \cup {None}, start \in 0 .. now : Grant(u, k, start)

Spec == Init /\ [][Next]_<<now, granted>>
=============================================================================
