----------------------------- MODULE MCOMMigrate -----------------------------
(* Model values for checking OMMigrate: the whole list, what an operator   *)
(* selects to stop after a step or to resume at one, and lists in which    *)
(* steps are left out.                                                     *)
EXTENDS OMMigrate

From(k) == {Order[j] : j \in k..Len(Order)}
UpTo(k) == {Order[j] : j \in 1..k}

MCFilters ==
         {From(k) : k \in DOMAIN Order} \cup {UpTo(k) : k \in {0, 4, 5, 6}}
    \cup {Steps \ {"stop"}, Steps \ {"secondary", "stop", "promote"}}
=============================================================================
