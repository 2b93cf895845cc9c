------------------------------ MODULE PlanRun ------------------------------
(***************************************************************************)
(* What every yinstall command promises of an ordered list of steps,       *)
(* whatever drives it: steps are taken in list order, each gets one final  *)
(* outcome, an apply stops at the first failure while a precheck visits    *)
(* the whole list, and the command's exit status is an error exactly when  *)
(* some step failed.                                                       *)
(*                                                                         *)
(* StepRunner is checked against this specification.                       *)
(***************************************************************************)
EXTENDS Naturals

CONSTANT N                       \* number of steps in the list

VARIABLES keepGoing,             \* TRUE under --precheck: a failure does not stop the list
          outcome,               \* what became of each step
          verdict                \* the command's exit status

vars == <<keepGoing, outcome, verdict>>

Items == 1..N

Outcomes == {"pending", "ok", "skipped", "failed"}

TypeOK == /\ keepGoing \in BOOLEAN
          /\ outcome \in [Items -> Outcomes]
          /\ verdict \in {"none", "ok", "error"}

Failed == {i \in Items : outcome[i] = "failed"}

Init == /\ keepGoing \in BOOLEAN
        /\ outcome = [i \in Items |-> "pending"]
        /\ verdict = "none"

(* The next step of the list is decided; after a failure only a precheck   *)
(* goes on.                                                                *)
Decide(i, o) ==
    /\ verdict = "none"
    /\ outcome[i] = "pending"
    /\ \A j \in 1..(i - 1) : outcome[j] # "pending"
    /\ keepGoing \/ Failed = {}
    /\ outcome' = [outcome EXCEPT ![i] = o]
    /\ UNCHANGED <<keepGoing, verdict>>

(* The command exits when nothing is left, or at the first failure.        *)
Conclude ==
    /\ verdict = "none"
    /\ \/ \A i \in Items : outcome[i] # "pending"
       \/ ~keepGoing /\ Failed # {}
    /\ verdict' = IF Failed = {} THEN "ok" ELSE "error"
    /\ UNCHANGED <<keepGoing, outcome>>

Next == \/ \E i \in Items, o \in {"ok", "skipped", "failed"} : Decide(i, o)
        \/ Conclude

Spec == Init /\ [][Next]_vars

(* The command ends. *)
FairSpec == Spec /\ WF_vars(Next)
=============================================================================
