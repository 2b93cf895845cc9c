----------------------------- MODULE HostPhases -----------------------------
(***************************************************************************)
(* internal/cli/runner_host.go as runOS (internal/cli/os.go) uses it:      *)
(* RunConnectivityPhase opens an executor to each target and runs B-001 on *)
(* it; RunPerHostStepsEx runs the Global steps once, through the first     *)
(* connected host, and then every other step on each host in turn.         *)
(*                                                                         *)
(* RunStep is one call with one of the outcomes of StepContract.  Targets  *)
(* and steps are numbered in command-line and registry order; step 0 is    *)
(* the connectivity step.                                                  *)
(***************************************************************************)
EXTENDS Naturals, Sequences, FiniteSets, StepContract

CONSTANTS H,                     \* number of targets
          N,                     \* number of filtered steps other than B-001
          Listed,                \* may the -s/-e filter keep B-001, drop it
          NoSlot                 \* no (index, total) printed or frozen

ASSUME HAssumption == H \in Nat \ {0}
ASSUME NAssumption == N \in Nat
ASSUME ListedAssumption == Listed \subseteq BOOLEAN

Slots == [index : Nat, total : Nat]
ASSUME NoSlotAssumption == NoSlot \notin Slots

VARIABLES flags,                 \* --precheck and --dry-run
          listed,                \* B-001 is in the filtered list
          plan,                  \* Optional and Global of each other step
          phase,                 \* "connect", "steps", "stopped" or "gone"
          target,                \* the next target to connect to
          executor,              \* the executor of each target
          hosts,                 \* hostInfos, in connection order
          outcome,               \* what RunStep returned, per target and step
          progress,              \* StepProgress
          frozen,                \* the (index, total) kept from the first host
          slot,                  \* the (index, total) printed, per target and step
          connectFailed,         \* ConnectivityResult.PrecheckFailed
          stepFailed, lastErr,   \* PerHostRunResult
          exit                   \* what runOS returns

vars == <<flags, listed, plan, phase, target, executor, hosts, outcome,
          progress, frozen, slot, connectFailed, stepFailed, lastErr, exit>>

Targets == 1..H
Steps == 1..N
Connectivity == 0
Globals == {i \in Steps : plan[i].global}
Locals == Steps \ Globals

(* The planned denominator, totalSteps: CountNonOptionalSteps(steps). *)
Planned == Cardinality({i \in Steps : ~plan[i].optional}) + (IF listed THEN 1 ELSE 0)

Init ==
    /\ flags \in [precheck : BOOLEAN, dryRun : BOOLEAN]
    /\ listed \in Listed
    /\ plan \in [Steps -> [optional : BOOLEAN, global : BOOLEAN]]
    /\ phase = "connect"
    /\ target = 1
    /\ executor = [t \in Targets |-> "none"]
    /\ hosts = <<>>
    /\ outcome = [t \in Targets |-> [i \in 0..N |-> "pending"]]
    /\ progress = [next |-> 0, total |-> Planned]
    /\ frozen = [i \in 0..N |-> NoSlot]
    /\ slot = [t \in Targets |-> [i \in 0..N |-> NoSlot]]
    /\ connectFailed = FALSE
    /\ stepFailed = FALSE
    /\ lastErr = FALSE
    /\ exit = "none"

(* claimProgressBeforeRun with a non-nil ctx.Progress. *)
Claimed(optional) ==
    [index |-> progress.next,
     total |-> IF optional THEN progress.total + 1 ELSE progress.total]

Claim(s) == progress' = [next |-> progress.next + 1, total |-> s.total]

(* ctx.StepIndex and TotalSteps before RunStep: the position in the plan,  *)
(* counted as RunPerHostStepsEx counts it from stepIndex 0.                *)
PlanPosition(i) ==
    [index |-> Cardinality(Globals) + Cardinality({j \in Locals : j < i}),
     total |-> Planned]

Record(t, i, o) == outcome' = [outcome EXCEPT ![t][i] = o.result]
Show(t, i, s) == slot' = [slot EXCEPT ![t][i] = s]

ReactByStopping(o) ==                    \* mutant: a precheck stops at the failure too
    /\ stepFailed' = (stepFailed \/ (o.result = "failed" /\ flags.precheck))
    /\ lastErr' = (lastErr \/ (o.result = "failed" /\ ~flags.precheck))
    /\ phase' = IF o.result = "failed" THEN "stopped" ELSE "steps"

(* A driver's reaction to a failed step: remembered and passed over under  *)
(* --precheck, otherwise the end of the phase.                             *)
React(o) ==
    /\ stepFailed' = (stepFailed \/ (o.result = "failed" /\ flags.precheck))
    /\ lastErr' = (lastErr \/ (o.result = "failed" /\ ~flags.precheck))
    /\ phase' = IF o.result = "failed" /\ ~flags.precheck THEN "stopped" ELSE "steps"

-----------------------------------------------------------------------------
(* RunConnectivityPhase *)

Advance ==
    /\ target' = target + 1
    /\ phase' = IF target = H THEN "steps" ELSE "connect"

(* createExecutor gives up on the target: the end of the run, unless this  *)
(* is a precheck.                                                          *)
ConnectFails ==
    /\ phase = "connect"
    /\ IF flags.precheck
       THEN connectFailed' = TRUE /\ Advance /\ UNCHANGED lastErr
       ELSE lastErr' = TRUE /\ phase' = "stopped" /\ UNCHANGED <<connectFailed, target>>
    /\ UNCHANGED <<flags, listed, plan, executor, hosts, outcome, progress,
                   frozen, slot, stepFailed, exit>>

(* Only the first target's announcement is frozen, and later targets reuse *)
(* it; if the first target was never reached, each one claims its own.     *)
AnnounceConnectivity ==
    IF frozen[Connectivity] # NoSlot
    THEN /\ Show(target, Connectivity, frozen[Connectivity])
         /\ UNCHANGED <<progress, frozen>>
    ELSE /\ Claim(Claimed(FALSE))
         /\ Show(target, Connectivity, Claimed(FALSE))
         /\ frozen' = IF target = 1
                      THEN [frozen EXCEPT ![Connectivity] = Claimed(FALSE)] ELSE frozen

(* Connected, B-001 passed: the target becomes a host. *)
ConnectivityPasses ==
    /\ phase = "connect"
    /\ \E o \in RunStep(flags, FALSE) :
          /\ o.result # "failed"
          /\ Record(target, Connectivity, o)
    /\ AnnounceConnectivity
    /\ executor' = [executor EXCEPT ![target] = "open"]
    /\ hosts' = Append(hosts, target)
    /\ Advance
    /\ UNCHANGED <<flags, listed, plan, connectFailed, stepFailed, lastErr, exit>>

(* The executor is closed at once, and the target does not become a host.  *)
DropTarget ==
    /\ executor' = [executor EXCEPT ![target] = "closed"]
    /\ UNCHANGED hosts

(* Connected, B-001 failed. *)
ConnectivityFails ==
    /\ phase = "connect"
    /\ \E o \in RunStep(flags, FALSE) :
          /\ o.result = "failed"
          /\ Record(target, Connectivity, o)
    /\ AnnounceConnectivity
    /\ DropTarget
    /\ IF flags.precheck
       THEN connectFailed' = TRUE /\ Advance /\ UNCHANGED lastErr
       ELSE lastErr' = TRUE /\ phase' = "stopped" /\ UNCHANGED <<connectFailed, target>>
    /\ UNCHANGED <<flags, listed, plan, stepFailed, exit>>

-----------------------------------------------------------------------------
(* RunPerHostStepsEx *)

Pending(t, S) == {i \in S : outcome[t][i] = "pending"}
First(S) == CHOOSE i \in S : \A j \in S : i <= j

GlobalsDone == hosts # <<>> => Pending(Head(hosts), Globals) = {}

(* The next Global step, once for the whole run, through the first host.   *)
GlobalStep ==
    /\ phase = "steps" /\ ~GlobalsDone
    /\ LET t == Head(hosts)
           i == First(Pending(t, Globals))
       IN  \E o \in RunStep(flags, plan[i].optional) :
              /\ Record(t, i, o)
              /\ React(o)
              /\ IF o.claims
                 THEN Claim(Claimed(plan[i].optional)) /\ Show(t, i, Claimed(plan[i].optional))
                 ELSE UNCHANGED <<progress, slot>>
    /\ UNCHANGED <<flags, listed, plan, target, executor, hosts, frozen,
                   connectFailed, exit>>

HostsLeft == {k \in DOMAIN hosts : Pending(hosts[k], Locals) # {}}

Freeze(i, s) == frozen' = [frozen EXCEPT ![i] = s]

(* A per-host step on the first host: it claims its slot, and whatever     *)
(* ctx holds after RunStep is frozen for the other hosts.                  *)
FirstHostStep ==
    /\ phase = "steps" /\ GlobalsDone
    /\ HostsLeft # {} /\ First(HostsLeft) = 1
    /\ LET t == Head(hosts)
           i == First(Pending(t, Locals))
       IN  \E o \in RunStep(flags, plan[i].optional) :
              /\ Record(t, i, o)
              /\ React(o)
              /\ \/ /\ o.claims
                    /\ Claim(Claimed(plan[i].optional))
                    /\ Show(t, i, Claimed(plan[i].optional))
                    /\ Freeze(i, Claimed(plan[i].optional))
                 \/ /\ ~o.claims
                    /\ Freeze(i, PlanPosition(i))
                    /\ UNCHANGED <<progress, slot>>
    /\ UNCHANGED <<flags, listed, plan, target, executor, hosts, connectFailed, exit>>

(* The same step on a later host: ctx.Progress is nil and the frozen       *)
(* numbers are printed.                                                    *)
LaterHostStep ==
    /\ phase = "steps" /\ GlobalsDone
    /\ HostsLeft # {} /\ First(HostsLeft) > 1
    /\ LET t == hosts[First(HostsLeft)]
           i == First(Pending(t, Locals))
       IN  \E o \in RunStep(flags, plan[i].optional) :
              /\ Record(t, i, o)
              /\ React(o)
              /\ IF o.claims THEN Show(t, i, frozen[i]) ELSE UNCHANGED slot
    /\ UNCHANGED <<flags, listed, plan, target, executor, hosts, progress, frozen,
                   connectFailed, exit>>

-----------------------------------------------------------------------------
MustFailBySteps ==                       \* mutant: failed targets are forgotten
    lastErr \/ (flags.precheck /\ stepFailed)

MustFail == lastErr \/ (flags.precheck /\ (connectFailed \/ stepFailed))

(* Once Phase 1 has succeeded, the deferred loop closes every host's       *)
(* executor, however Phase 2 ended; a Phase 1 error returns before that.   *)
PhaseOneAborted == phase = "stopped" /\ target <= H

CloseExecutors ==
    executor' = [t \in Targets |->
                    IF executor[t] = "open" /\ ~PhaseOneAborted THEN "closed" ELSE executor[t]]

(* runOS returns. *)
RunOSReturns ==
    /\ \/ phase = "stopped"
       \/ phase = "steps" /\ GlobalsDone /\ HostsLeft = {}
    /\ exit' = IF MustFail THEN "error" ELSE "ok"
    /\ CloseExecutors
    /\ phase' = "gone"
    /\ UNCHANGED <<flags, listed, plan, target, hosts, outcome, progress, frozen,
                   slot, connectFailed, stepFailed, lastErr>>

Gone == phase = "gone" /\ UNCHANGED vars

Next == \/ ConnectFails \/ ConnectivityPasses \/ ConnectivityFails
        \/ GlobalStep \/ FirstHostStep \/ LaterHostStep
        \/ RunOSReturns \/ Gone

Spec == Init /\ [][Next]_vars

-----------------------------------------------------------------------------
TypeOK ==
    /\ flags \in [precheck : BOOLEAN, dryRun : BOOLEAN]
    /\ listed \in Listed
    /\ plan \in [Steps -> [optional : BOOLEAN, global : BOOLEAN]]
    /\ phase \in {"connect", "steps", "stopped", "gone"}
    /\ target \in 1..(H + 1)
    /\ phase = "connect" => target \in Targets
    /\ executor \in [Targets -> {"none", "open", "closed"}]
    /\ hosts \in Seq(Targets)
    /\ outcome \in [Targets -> [0..N -> {"pending", "ok", "skipped", "failed"}]]
    /\ progress \in [next : Nat, total : Nat]
    /\ frozen \in [0..N -> Slots \cup {NoSlot}]
    /\ slot \in [Targets -> [0..N -> Slots \cup {NoSlot}]]
    /\ connectFailed \in BOOLEAN /\ stepFailed \in BOOLEAN /\ lastErr \in BOOLEAN
    /\ exit \in {"none", "ok", "error"}

Ran(t, i) == outcome[t][i] # "pending"
Connected(t) == outcome[t][Connectivity] \in {"ok", "skipped"}

(* A precheck that ends has tried every target, each Global step once if   *)
(* any host answered, and each per-host step on every host that answered.  *)
PrecheckVisitsAll ==
    phase = "gone" /\ flags.precheck =>
        /\ target > H
        /\ \A t \in Targets : Connected(t) =>
              /\ \A i \in Locals : Ran(t, i)
              /\ \A i \in Globals : \E u \in Targets : Ran(u, i)

(* The exit status: success exactly when every target was reached and no   *)
(* step failed anywhere, in every mode.                                    *)
ExitTruthful ==
    exit # "none" =>
        (exit = "ok" <=> /\ \A t \in Targets : Connected(t)
                         /\ \A t \in Targets, i \in Steps : outcome[t][i] # "failed")
=============================================================================
