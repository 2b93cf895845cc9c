---------------------------- MODULE MCStepRunner ----------------------------
(* Bounds for model-checking StepRunner: every list of three steps drawn   *)
(* from the shapes the step registries use, as the whole command, after an *)
(* OS baseline with C-001, and between a B-001, C-001 and an archive.      *)
EXTENDS StepRunner

Shape(optional, pre, act, post) ==
    [optional |-> optional, pre |-> pre, act |-> act, post |-> post]

(* Required and optional steps with all callbacks, with no PreCheck, with  *)
(* no PostCheck, and steps that only check.                                *)
MCKinds == {Shape(o, p, TRUE, q) : o, p, q \in BOOLEAN}
           \cup {Shape(FALSE, TRUE, FALSE, FALSE)}

Around(claimed, c001, archive) == [claimed |-> claimed, c001 |-> c001, archive |-> archive]

MCSurroundings == {Around(0, 0, 0), Around(2, 1, 0), Around(1, 1, 2)}
=============================================================================
