------------------------------ MODULE MCGroup ------------------------------
(* Three accounts, the third of which the others add and remove. *)
EXTENDS GroupSync

MCAccount == {1, 2, 3}

(* The second device lags behind, then runs ahead of the other two. *)
MCClock == <<{2}, {1, 4}, {2}>>

SameClock == <<{1}, {1}, {1}>>

MCChanges ==
  {[add |-> {3}, remove |-> {}, names |-> {}],
   [add |-> {}, remove |-> {2, 3}, names |-> {"renamed"}]}
=============================================================================
