----------------------------- MODULE StepRunner -----------------------------
(***************************************************************************)
(* internal/runner: RunStep and the bookkeeping it drives, inside the loop *)
(* that runs a filtered list of steps on one shared StepContext (the DB    *)
(* phase of internal/cli/db.go).                                           *)
(*                                                                         *)
(* A step is three optional callbacks.  RunStep calls PreCheck, Action and *)
(* PostCheck in that order, claims a progress slot, records precheck       *)
(* issues and returns a result; the loop then goes on or breaks.  The      *)
(* callbacks are the environment: each returns any outcome its Go type     *)
(* allows.                                                                 *)
(***************************************************************************)
EXTENDS Naturals, FiniteSets, StepContract

CONSTANTS N,                     \* length of the step list the loop runs
          Kinds,                 \* the shapes of step a list may hold
          Surroundings           \* what the rest of the command does with the counter

(* The fields of Step that RunStep reads: is it Optional, and which of its *)
(* callbacks are non-nil.                                                  *)
Kind == [optional : BOOLEAN, pre : BOOLEAN, act : BOOLEAN, post : BOOLEAN]

(* The loop shares its StepProgress with the rest of the command: the      *)
(* slots that B-001 and the B-* steps claimed before it; the slot of C-001 *)
(* (0 or 1), which is a required step of the filtered list but is taken    *)
(* out of the loop's one and run apart, unannounced; and the slots planned *)
(* for the steps of the archive collection, which come after it.           *)
Surrounding == [claimed : Nat, c001 : 0..1, archive : Nat]

ASSUME NAssumption == N \in Nat
ASSUME KindsAssumption == Kinds \subseteq Kind
ASSUME SurroundingsAssumption == Surroundings \subseteq Surrounding

VARIABLES flags,                 \* --precheck and --dry-run
          plan,                  \* the step list
          around,                \* the command around the loop
          cur,                   \* the step the loop is at
          pc,                    \* where RunStep is in that step
          progress,              \* StepProgress: next slot and denominator
          slot,                  \* the (index, total) a step was announced with
          issues,                \* ctx.Results["__precheck_issues"]
          result,                \* StepResult of each step
          acted, checked,        \* steps whose Action, PostCheck was called
          precheckFailed, lastErr, \* the loop's two failure variables
          exit                   \* what the command returns

vars == <<flags, plan, around, cur, pc, progress, slot, issues, result,
          acted, checked, precheckFailed, lastErr, exit>>

Steps == 1..N
NoSlot == [index |-> 0, total |-> 0]     \* not announced: a claimed total is at least 1

Required(i) == ~plan[i].optional
Announced == {i \in Steps : slot[i] # NoSlot}

(* A precheck issue: the step it names and how it came about.  "same"      *)
(* carries exactly the message of the error that PreCheck returns, "other" *)
(* does not, "generic" is the PC.PRECHECK.FAILED line RunStep adds.        *)
IssueKinds == {"same", "other", "generic"}

-----------------------------------------------------------------------------
(* The steps of a list that are certain to claim a slot. *)
CountAllSteps(p) == Cardinality(Steps)   \* mutant: optional steps are planned for too

CountNonOptionalSteps(p) == Cardinality({i \in Steps : ~p[i].optional})

(* The denominator at the loop's first step. *)
PlannedTotal == around.claimed + CountNonOptionalSteps(plan) + around.c001 + around.archive

Init ==
    /\ flags \in [precheck : BOOLEAN, dryRun : BOOLEAN]
    /\ plan \in [Steps -> Kinds]
    /\ around \in Surroundings
    /\ flags.precheck \/ flags.dryRun => around.archive = 0
    /\ cur = 1
    /\ pc = IF N = 0 THEN "leave" ELSE "begin"
    /\ progress = [next |-> around.claimed, total |-> PlannedTotal]
    /\ slot = [i \in Steps |-> NoSlot]
    /\ issues = {}
    /\ result = [i \in Steps |-> "pending"]
    /\ acted = {}
    /\ checked = {}
    /\ precheckFailed = FALSE
    /\ lastErr = FALSE
    /\ exit = "none"

ClaimWithoutGrowth ==                    \* mutant: assignProgress for optional steps too
    /\ progress' = [progress EXCEPT !.next = @ + 1]
    /\ slot' = [slot EXCEPT ![cur] = [index |-> progress.next, total |-> progress.total]]

(* assignProgress, preceded by total++ when an optional step is going to   *)
(* run (includeOptionalRunning).                                           *)
ClaimProgress ==
    LET total == IF plan[cur].optional THEN progress.total + 1 ELSE progress.total
    IN  /\ progress' = [next |-> progress.next + 1, total |-> total]
        /\ slot' = [slot EXCEPT ![cur] = [index |-> progress.next, total |-> total]]

(* The issues a PreCheck may file itself, through ReportPrecheckIssue.     *)
ReportPrecheckIssue(kind) == issues' = issues \cup {<<cur, kind>>}

(* precheckStructuredIssueCoversFailure *)
Covered(filed) == <<cur, "same">> \in filed

ReturnSkippingOne(r) ==                  \* mutant: the loop advances by two after a skip
    /\ result' = [result EXCEPT ![cur] = r]
    /\ precheckFailed' = (precheckFailed \/ (r = "failed" /\ flags.precheck))
    /\ lastErr' = (lastErr \/ (r = "failed" /\ ~flags.precheck))
    /\ cur' = IF r = "skipped" THEN cur + 2 ELSE cur + 1
    /\ pc' = IF (r = "failed" /\ ~flags.precheck) \/ cur' > N THEN "leave" ELSE "begin"

(* RunStep returns r and the loop looks at it: a failure is remembered and *)
(* the loop continues under --precheck, and breaks otherwise.              *)
Return(r) ==
    /\ result' = [result EXCEPT ![cur] = r]
    /\ precheckFailed' = (precheckFailed \/ (r = "failed" /\ flags.precheck))
    /\ lastErr' = (lastErr \/ (r = "failed" /\ ~flags.precheck))
    /\ cur' = cur + 1
    /\ pc' = IF (r = "failed" /\ ~flags.precheck) \/ cur = N THEN "leave" ELSE "begin"

Continue(where) ==
    /\ pc' = where
    /\ UNCHANGED <<cur, result, precheckFailed, lastErr>>

-----------------------------------------------------------------------------

OptionalSkipClaimed ==                   \* mutant: the slot is claimed before PreCheck
    /\ pc = "begin" /\ cur \in Steps
    /\ plan[cur].optional /\ plan[cur].pre
    /\ \/ \E kind \in {"same", "other"} : ReportPrecheckIssue(kind)
       \/ UNCHANGED issues
    /\ ClaimProgress
    /\ Return("skipped")
    /\ UNCHANGED <<flags, plan, around, acted, checked, exit>>

(* An optional step whose PreCheck returns any error is skipped before it  *)
(* claims a slot.                                                          *)
OptionalSkip ==
    /\ pc = "begin" /\ cur \in Steps
    /\ plan[cur].optional /\ plan[cur].pre
    /\ \/ \E kind \in {"same", "other"} : ReportPrecheckIssue(kind)
       \/ UNCHANGED issues
    /\ Return("skipped")
    /\ UNCHANGED <<flags, plan, around, progress, slot, acted, checked, exit>>

(* An optional step with no PreCheck, or one that passed, is announced and *)
(* goes straight to the mode gate.                                         *)
OptionalStart ==
    /\ pc = "begin" /\ cur \in Steps
    /\ plan[cur].optional
    /\ \/ plan[cur].pre /\ ReportPrecheckIssue("other")
       \/ UNCHANGED issues
    /\ ClaimProgress
    /\ Continue("gate")
    /\ UNCHANGED <<flags, plan, around, acted, checked, exit>>

(* Any other step is announced before its PreCheck is called. *)
RequiredStart ==
    /\ pc = "begin" /\ cur \in Steps
    /\ Required(cur)
    /\ ClaimProgress
    /\ Continue(IF plan[cur].pre THEN "precheck" ELSE "gate")
    /\ UNCHANGED <<flags, plan, around, issues, acted, checked, exit>>

PreCheckPasses ==
    /\ pc = "precheck"
    /\ \/ ReportPrecheckIssue("other")
       \/ UNCHANGED issues
    /\ Continue("gate")
    /\ UNCHANGED <<flags, plan, around, progress, slot, acted, checked, exit>>

(* PreCheck returns a StepSkippedError. *)
PreCheckSkips ==
    /\ pc = "precheck"
    /\ \/ ReportPrecheckIssue("other")
       \/ UNCHANGED issues
    /\ Return("skipped")
    /\ UNCHANGED <<flags, plan, around, progress, slot, acted, checked, exit>>

(* PreCheck returns any other error: under --precheck a generic issue is   *)
(* added unless PreCheck has filed one with the same message.              *)
PreCheckFails ==
    /\ pc = "precheck"
    /\ \E own \in SUBSET {"same", "other"} :
          LET filed == issues \cup {<<cur, kind>> : kind \in own}
          IN  issues' = IF flags.precheck /\ ~Covered(filed)
                        THEN filed \cup {<<cur, "generic">>}
                        ELSE filed
    /\ Return("failed")
    /\ UNCHANGED <<flags, plan, around, progress, slot, acted, checked, exit>>

(* --precheck and --dry-run both stop here, before Action. *)
ModeGateStops ==
    /\ pc = "gate"
    /\ flags.precheck \/ flags.dryRun
    /\ Return("skipped")
    /\ UNCHANGED <<flags, plan, around, progress, slot, issues, acted, checked, exit>>

ModeGateIgnoresDryRun ==                 \* mutant: only --precheck holds Action back
    /\ pc = "gate"
    /\ ~flags.precheck
    /\ Continue("action")
    /\ UNCHANGED <<flags, plan, around, progress, slot, issues, acted, checked, exit>>

ModeGatePasses ==
    /\ pc = "gate"
    /\ ~flags.precheck /\ ~flags.dryRun
    /\ Continue("action")
    /\ UNCHANGED <<flags, plan, around, progress, slot, issues, acted, checked, exit>>

ActionSucceeds ==
    /\ pc = "action"
    /\ acted' = IF plan[cur].act THEN acted \cup {cur} ELSE acted
    /\ Continue("postcheck")
    /\ UNCHANGED <<flags, plan, around, progress, slot, issues, checked, exit>>

ActionFails ==
    /\ pc = "action"
    /\ plan[cur].act
    /\ acted' = acted \cup {cur}
    /\ Return("failed")
    /\ UNCHANGED <<flags, plan, around, progress, slot, issues, checked, exit>>

PostCheckSucceeds ==
    /\ pc = "postcheck"
    /\ checked' = IF plan[cur].post THEN checked \cup {cur} ELSE checked
    /\ Return("ok")
    /\ UNCHANGED <<flags, plan, around, progress, slot, issues, acted, exit>>

PostCheckFails ==
    /\ pc = "postcheck"
    /\ plan[cur].post
    /\ checked' = checked \cup {cur}
    /\ Return("failed")
    /\ UNCHANGED <<flags, plan, around, progress, slot, issues, acted, exit>>

LeaveByLastErr ==                        \* mutant: the precheck failures are forgotten
    /\ pc = "leave"
    /\ exit' = IF lastErr THEN "error" ELSE "ok"
    /\ pc' = "gone"
    /\ UNCHANGED <<flags, plan, around, cur, progress, slot, issues, result,
                   acted, checked, precheckFailed, lastErr>>

(* After the loop: the error of the step that broke it, "precheck failed", *)
(* or success.                                                             *)
Leave ==
    /\ pc = "leave"
    /\ exit' = IF lastErr \/ (flags.precheck /\ precheckFailed) THEN "error" ELSE "ok"
    /\ pc' = "gone"
    /\ UNCHANGED <<flags, plan, around, cur, progress, slot, issues, result,
                   acted, checked, precheckFailed, lastErr>>

(* The process has exited. *)
Gone == pc = "gone" /\ UNCHANGED vars

Next == \/ OptionalSkip \/ OptionalStart \/ RequiredStart
        \/ PreCheckPasses \/ PreCheckSkips \/ PreCheckFails
        \/ ModeGateStops \/ ModeGatePasses
        \/ ActionSucceeds \/ ActionFails
        \/ PostCheckSucceeds \/ PostCheckFails
        \/ Leave \/ Gone

Spec == Init /\ [][Next]_vars

(* The loop is one goroutine, so the only way not to move on is a callback *)
(* that never returns.                                                     *)
FairSpec == Spec /\ WF_vars(Next)

-----------------------------------------------------------------------------
(* Types of the state. *)
TypeOK ==
    /\ flags \in [precheck : BOOLEAN, dryRun : BOOLEAN]
    /\ plan \in [Steps -> Kinds]
    /\ around \in Surroundings
    /\ cur \in 1..(N + 1)
    /\ pc \in {"begin", "precheck", "gate", "action", "postcheck", "leave", "gone"}
    /\ pc \notin {"leave", "gone"} => cur \in Steps
    /\ progress \in [next : Nat, total : Nat]
    /\ slot \in [Steps -> [index : Nat, total : Nat]]
    /\ issues \subseteq (Steps \X IssueKinds)
    /\ result \in [Steps -> {"pending", "ok", "skipped", "failed"}]
    /\ acted \subseteq Steps /\ checked \subseteq Steps
    /\ precheckFailed \in BOOLEAN /\ lastErr \in BOOLEAN
    /\ exit \in {"none", "ok", "error"}

(* "Executing installation step index of total": the announced indices     *)
(* follow on those claimed before the loop, in list order with none        *)
(* missing, each is below the total printed with it, and the total never   *)
(* shrinks from one line to the next.                                      *)
SlotsInOrder ==
    /\ {slot[i].index : i \in Announced} = around.claimed..(progress.next - 1)
    /\ \A i \in Announced : slot[i].index < slot[i].total
    /\ \A i, j \in Announced :
          i < j => slot[i].index < slot[j].index /\ slot[i].total <= slot[j].total

(* A list that is not cut short leaves of its denominator, whatever was    *)
(* skipped, exactly the archive's slots and the slot of C-001, which is    *)
(* counted and never claimed: with C-001 in the list the last index of the *)
(* command stays one short of the total.                                   *)
ProgressComplete ==
    exit # "none" /\ ~lastErr =>
        progress.total - progress.next = around.archive + around.c001

(* What a result says is what was done to the host: success means Action   *)
(* and PostCheck ran as far as the step has them, a skipped or unreached   *)
(* step did nothing, PostCheck never precedes Action, and --precheck or    *)
(* --dry-run touch nothing at all.                                         *)
EffectsMatchReport ==
    /\ \A i \in Steps : result[i] = "ok" =>
          (plan[i].act => i \in acted) /\ (plan[i].post => i \in checked)
    /\ \A i \in Steps :
          result[i] = "skipped" \/ (result[i] = "pending" /\ i # cur) =>
             i \notin acted \cup checked
    /\ \A i \in checked : plan[i].act => i \in acted
    /\ flags.precheck \/ flags.dryRun => acted \cup checked = {}

(* Whatever the callbacks do, the result is one the drivers are prepared   *)
(* for, and it says correctly whether a progress slot was used.            *)
WithinContract ==
    \A i \in Steps : result[i] # "pending" =>
        Outcome(slot[i] # NoSlot, result[i]) \in RunStep(flags, plan[i].optional)

(* Steps are decided in list order, an apply stops at its first failure, a *)
(* precheck visits the whole list, the exit status is an error exactly     *)
(* when a step failed, and the command ends if its callbacks return.       *)
Plan == INSTANCE PlanRun WITH keepGoing <- flags.precheck,
                              outcome <- result, verdict <- exit
ImplementsPlanRun == Plan!FairSpec
=============================================================================
