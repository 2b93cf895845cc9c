---------------------------- MODULE StepContract ----------------------------
(***************************************************************************)
(* What the drivers of internal/cli may assume of one RunStep call, stated *)
(* once: the result it can return, and whether it claims a progress slot   *)
(* on the way.  StepRunner is checked to stay within it; HostPhases and    *)
(* DBInstall call RunStep through it.                                      *)
(***************************************************************************)

(* flags is [precheck, dryRun]; only without either can a step do work.    *)
Applying(flags) == ~flags.precheck /\ ~flags.dryRun

Outcome(claims, result) == [claims |-> claims, result |-> result]

(* A required step is always announced, may be skipped by its PreCheck and *)
(* may fail in any mode.                                                   *)
RequiredOutcomes(flags) ==
    {Outcome(TRUE, "failed"), Outcome(TRUE, "skipped")}
    \cup (IF Applying(flags) THEN {Outcome(TRUE, "ok")} ELSE {})

(* An optional step is skipped unannounced on any PreCheck error; announced, *)
(* it can only fail by doing work.                                         *)
OptionalOutcomes(flags) ==
    {Outcome(FALSE, "skipped")}
    \cup (IF Applying(flags) THEN {Outcome(TRUE, "ok"), Outcome(TRUE, "failed")}
                             ELSE {Outcome(TRUE, "skipped")})

RunStep(flags, optional) ==
    IF optional THEN OptionalOutcomes(flags) ELSE RequiredOutcomes(flags)
=============================================================================
