----------------------------- MODULE MCSfuCall -----------------------------
(* Instances of SfuCall for TLC. *)
EXTENDS SfuCall

Budget(c, m) == {[calls |-> c, mishaps |-> m]}

\* Everyone makes one call.
OneCall == [p \in Peers |-> 1]

\* One client makes n calls, and the others none.
Recalls(n) == [p \in Peers |-> IF p = CHOOSE q \in Peers : TRUE THEN n ELSE 0]

Undisturbed == Budget(OneCall, 0)
TwoMishaps == Budget(OneCall, 2)
CallAgain == Budget(Recalls(2), 1)
OneCallOrMore == Budget(OneCall, 1) \cup Budget(Recalls(3), 2)
=============================================================================
