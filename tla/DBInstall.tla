------------------------------ MODULE DBInstall ------------------------------
(***************************************************************************)
(* "yinstall db": runDB of internal/cli/db.go from Phase 1 on, with the    *)
(* secondary-OM phase it borrows from internal/cli/standby.go.             *)
(*                                                                         *)
(*   connect     an executor and B-001 on every target                     *)
(*   c001        the global precheck C-001, once for all hosts             *)
(*   os          the B-* steps, through RunPerHostStepsEx (HostPhases)     *)
(*   yacready    identity and password check after the OS phase            *)
(*   db          the C-* steps, one context for all hosts (StepRunner)     *)
(*   verdict     the two failure variables are looked at                   *)
(*   omgate, omhost, omsync   the O-* steps                                *)
(*   archive     the post-install collect                                  *)
(*                                                                         *)
(* Each phase is entered under the conditions of runDB; what a step or a   *)
(* check returns is the environment's choice.                              *)
(***************************************************************************)
EXTENDS Naturals, Sequences, FiniteSets, StepContract

CONSTANTS H,                     \* number of targets
          K                      \* number of filtered C-* steps after C-001

ASSUME HAssumption == H \in Nat \ {0}
ASSUME KAssumption == K \in Nat

VARIABLES flags,                 \* --precheck, --dry-run
          want,                  \* what the command line and the filter ask for
          dbPlan,                \* Optional, for each C-* step
          phase, at,             \* the phase, and the target or step it is at
          open, hosts,           \* open executors; hostInfos
          innerPrecheckFailed,   \* precheckFailed of Phase 1's own block
          precheckFailed, lastErr,
          ran,                   \* C-* steps RunStep was called for
          failed,                \* everything that was reported as failed
          secondary, synced,     \* hosts whose O-* step, stage sync succeeded
          archived,              \* the post-install collect was started
          exit                   \* how runDB ends

vars == <<flags, want, dbPlan, phase, at, open, hosts, innerPrecheckFailed,
          precheckFailed, lastErr, ran, failed, secondary, synced, archived, exit>>

Targets == 1..H
DBSteps == 1..K
HostSet == {hosts[k] : k \in DOMAIN hosts}

(* Secondary OM needs YAC mode and two targets; its primary is the first   *)
(* target of the command line.                                             *)
Wanted == [yac : BOOLEAN, skipOS : BOOLEAN, b001 : BOOLEAN, c001 : BOOLEAN, os : BOOLEAN,
           gate : BOOLEAN, host : BOOLEAN, archive : BOOLEAN]

PrimaryOM == 1

(* --skip-os leaves no B-* step but B-001 in the list; two targets imply   *)
(* YAC mode; O-* steps are listed only when secondary OM is wanted.        *)
Sensible(w) == /\ w.skipOS => ~w.os
               /\ H >= 2 => w.yac
               /\ w.gate \/ w.host => w.yac /\ H >= 2

Init ==
    /\ flags \in [precheck : BOOLEAN, dryRun : BOOLEAN]
    /\ want \in {w \in Wanted : Sensible(w)}
    /\ dbPlan \in [DBSteps -> BOOLEAN]
    /\ phase = "connect" /\ at = 1
    /\ open = {} /\ hosts = <<>>
    /\ innerPrecheckFailed = FALSE /\ precheckFailed = FALSE /\ lastErr = FALSE
    /\ ran = {} /\ failed = {} /\ secondary = {} /\ synced = {}
    /\ archived = FALSE
    /\ exit = "none"

Fail(what) == failed' = failed \cup {what}

(* runDB returns: the deferred loop closes hostInfos once it is in place,  *)
(* after C-001.                                                            *)
Return(status) ==
    /\ exit' = status
    /\ phase' = "gone" /\ at' = 0
    /\ open' = IF phase = "connect" THEN open ELSE open \ HostSet

Goto(p) == phase' = p /\ at' = 1

-----------------------------------------------------------------------------
(* Phase 1.  A target that cannot be reached ends the run even under       *)
(* --precheck.                                                             *)
ConnectFails ==
    /\ phase = "connect"
    /\ Fail(<<"connect", at>>)
    /\ Return("error")
    /\ UNCHANGED <<flags, want, dbPlan, hosts, innerPrecheckFailed, precheckFailed,
                   lastErr, ran, secondary, synced, archived>>

NextTarget == IF at = H THEN Goto("c001") ELSE at' = at + 1 /\ UNCHANGED phase

(* Connected; B-001 passed, or is not in the list and not run. *)
TargetReady ==
    /\ phase = "connect"
    /\ open' = open \cup {at}
    /\ hosts' = Append(hosts, at)
    /\ NextTarget
    /\ UNCHANGED <<flags, want, dbPlan, innerPrecheckFailed, precheckFailed, lastErr,
                   ran, failed, secondary, synced, archived, exit>>

(* B-001 failed: its executor is closed.  Under --precheck the block-local *)
(* precheckFailed is set and the loop goes on.                             *)
TargetUnfit ==
    /\ phase = "connect" /\ want.b001
    /\ Fail(<<"B-001", at>>)
    /\ IF flags.precheck
       THEN innerPrecheckFailed' = TRUE /\ NextTarget /\ UNCHANGED <<open, exit>>
       ELSE Return("error") /\ UNCHANGED innerPrecheckFailed
    /\ UNCHANGED <<flags, want, dbPlan, hosts, precheckFailed, lastErr, ran,
                   secondary, synced, archived>>

(* C-001, when it is listed.  Without hosts it fails ("no hosts to check").*)
C001Passes ==
    /\ phase = "c001"
    /\ want.c001 => hosts # <<>>
    /\ Goto("os")
    /\ UNCHANGED <<flags, want, dbPlan, open, hosts, innerPrecheckFailed, precheckFailed,
                   lastErr, ran, failed, secondary, synced, archived, exit>>

(* A C-001 failure is printed as an issue under --precheck; no failure     *)
(* variable is set.                                                        *)
C001Fails ==
    /\ phase = "c001" /\ want.c001
    /\ Fail(<<"C-001", 0>>)
    /\ IF flags.precheck THEN Goto("os") /\ UNCHANGED <<open, exit>>
                         ELSE Return("error")
    /\ UNCHANGED <<flags, want, dbPlan, hosts, innerPrecheckFailed, precheckFailed,
                   lastErr, ran, secondary, synced, archived>>

(* The OS steps: RunPerHostStepsEx does nothing without hosts.             *)
OSPhase ==
    /\ phase = "os"
    /\ Goto("yacready")
    /\ \/ UNCHANGED <<failed, precheckFailed, lastErr>>
       \/ /\ want.os /\ hosts # <<>>
          /\ Fail(<<"os", 0>>)
          /\ precheckFailed' = flags.precheck
          /\ lastErr' = ~flags.precheck
    /\ UNCHANGED <<flags, want, dbPlan, open, hosts, innerPrecheckFailed, ran,
                   secondary, synced, archived, exit>>

YACReadyDue == ~lastErr /\ want.yac /\ ~want.skipOS /\ ~flags.dryRun /\ K > 0

(* EnsureYACReadyAfterOS *)
YACReady ==
    /\ phase = "yacready"
    /\ Goto("db")
    /\ \/ UNCHANGED <<failed, precheckFailed, lastErr>>
       \/ /\ YACReadyDue
          /\ Fail(<<"yacready", 0>>)
          /\ precheckFailed' = (precheckFailed \/ flags.precheck)
          /\ lastErr' = ~flags.precheck
    /\ UNCHANGED <<flags, want, dbPlan, open, hosts, innerPrecheckFailed, ran,
                   secondary, synced, archived, exit>>

(* The DB loop takes its executor from hostInfos[0]: with no host left     *)
(* there is no element 0, and the index expression panics.                 *)
DBIndexPanics ==
    /\ phase = "db" /\ ~lastErr /\ K > 0 /\ hosts = <<>>
    /\ Return("panic")
    /\ UNCHANGED <<flags, want, dbPlan, hosts, innerPrecheckFailed, precheckFailed,
                   lastErr, ran, failed, secondary, synced, archived>>

(* A failed C-* step is remembered; only --precheck goes on.               *)
DBFailed ==
    /\ precheckFailed' = (precheckFailed \/ flags.precheck)
    /\ lastErr' = ~flags.precheck

DBStep ==
    /\ phase = "db" /\ ~lastErr /\ hosts # <<>> /\ at \in DBSteps
    /\ ran' = ran \cup {at}
    /\ at' = at + 1
    /\ \E o \in RunStep(flags, dbPlan[at]) :
          \/ /\ o.result # "failed"
             /\ UNCHANGED <<failed, precheckFailed, lastErr>>
          \/ /\ o.result = "failed"
             /\ Fail(<<"db", at>>)
             /\ DBFailed
    /\ UNCHANGED <<flags, phase, want, dbPlan, open, hosts, innerPrecheckFailed, secondary,
                   synced, archived, exit>>

(* After the DB loop: the first error, "precheck failed", or on to Phase 3.*)
OMDue == (want.gate \/ want.host) /\ hosts # <<>>

MustFailByPrecheck ==                    \* mutant: the DB loop's error is dropped
    flags.precheck /\ precheckFailed

MustFail == lastErr \/ (flags.precheck /\ precheckFailed)

Verdict ==
    /\ phase = "db"
    /\ lastErr \/ at > K
    /\ IF MustFail
       THEN Return("error")
       ELSE /\ Goto(IF OMDue THEN "omgate" ELSE "archive")
            /\ UNCHANGED <<open, exit>>
    /\ UNCHANGED <<flags, want, dbPlan, hosts, innerPrecheckFailed, precheckFailed,
                   lastErr, ran, failed, secondary, synced, archived>>

-----------------------------------------------------------------------------
(* Phase 3, runOMDeploySecondarySteps with scope "targets". *)

(* The first target is not among the connected hosts. *)
NoPrimaryOM ==
    /\ phase = "omgate" /\ PrimaryOM \notin HostSet
    /\ Fail(<<"om primary", 0>>)
    /\ Return("error")
    /\ UNCHANGED <<flags, want, dbPlan, hosts, innerPrecheckFailed, precheckFailed,
                   lastErr, ran, secondary, synced, archived>>

AfterGate == Goto(IF want.host THEN "omhost" ELSE "archive")

(* The gate step on the primary; its failure is passed over by a precheck. *)
OMGate ==
    /\ phase = "omgate" /\ PrimaryOM \in HostSet
    /\ \/ AfterGate /\ UNCHANGED <<open, exit, failed>>
       \/ /\ want.gate
          /\ Fail(<<"om gate", 0>>)
          /\ IF flags.precheck THEN AfterGate /\ UNCHANGED <<open, exit>>
                               ELSE Return("error")
    /\ UNCHANGED <<flags, want, dbPlan, hosts, innerPrecheckFailed, precheckFailed,
                   lastErr, ran, secondary, synced, archived>>

(* The host step on every host but the primary, in connection order.       *)
OMHostIsPrimary ==
    /\ phase = "omhost" /\ at \in DOMAIN hosts /\ hosts[at] = PrimaryOM
    /\ at' = at + 1
    /\ UNCHANGED <<flags, want, dbPlan, phase, open, hosts, innerPrecheckFailed,
                   precheckFailed, lastErr, ran, failed, secondary, synced, archived, exit>>

SyncNewSecondary(o) ==                   \* mutant: a skipped step needs no copy
    IF flags.precheck \/ flags.dryRun \/ o.result = "skipped"
    THEN at' = at + 1 /\ UNCHANGED phase
    ELSE phase' = "omsync" /\ UNCHANGED at

(* An apply copies the stage next, whatever the step returned. *)
AfterHostStep(o) ==
    IF flags.precheck \/ flags.dryRun
    THEN at' = at + 1 /\ UNCHANGED phase
    ELSE phase' = "omsync" /\ UNCHANGED at

OMHostStep ==
    /\ phase = "omhost" /\ at \in DOMAIN hosts /\ hosts[at] # PrimaryOM
    /\ \E o \in RunStep(flags, FALSE) :
          /\ o.result # "failed"
          /\ secondary' = IF o.result = "ok" THEN secondary \cup {hosts[at]} ELSE secondary
          /\ AfterHostStep(o)
    /\ UNCHANGED <<flags, want, dbPlan, open, hosts, innerPrecheckFailed, precheckFailed,
                   lastErr, ran, failed, synced, archived, exit>>

OMHostFails ==
    /\ phase = "omhost" /\ at \in DOMAIN hosts /\ hosts[at] # PrimaryOM
    /\ Fail(<<"om host", hosts[at]>>)
    /\ IF flags.precheck
       THEN at' = at + 1 /\ UNCHANGED <<phase, open, exit>>
       ELSE Return("error")
    /\ UNCHANGED <<flags, want, dbPlan, hosts, innerPrecheckFailed, precheckFailed,
                   lastErr, ran, secondary, synced, archived>>

(* The stage directory is copied to a secondary, also when its step was    *)
(* skipped because it already is one.                                      *)
OMSync ==
    /\ phase = "omsync"
    /\ \/ /\ synced' = synced \cup {hosts[at]}
          /\ phase' = "omhost" /\ at' = at + 1
          /\ UNCHANGED <<open, exit, failed>>
       \/ /\ Fail(<<"om sync", hosts[at]>>)
          /\ Return("error")
          /\ UNCHANGED synced
    /\ UNCHANGED <<flags, want, dbPlan, hosts, innerPrecheckFailed, precheckFailed,
                   lastErr, ran, secondary, archived>>

OMDone ==
    /\ phase = "omhost" /\ at > Len(hosts)
    /\ Goto("archive")
    /\ UNCHANGED <<flags, want, dbPlan, open, hosts, innerPrecheckFailed, precheckFailed,
                   lastErr, ran, failed, secondary, synced, archived, exit>>

(* runInstallArchiveCollect: only an apply collects, and a collect that    *)
(* fails is only logged.                                                   *)
Archive ==
    /\ phase = "archive"
    /\ archived' = (want.archive /\ Applying(flags) /\ hosts # <<>>)
    /\ Return("ok")
    /\ UNCHANGED <<flags, want, dbPlan, hosts, innerPrecheckFailed, precheckFailed,
                   lastErr, ran, failed, secondary, synced>>

Gone == phase = "gone" /\ UNCHANGED vars

Next == \/ ConnectFails \/ TargetReady \/ TargetUnfit
        \/ C001Passes \/ C001Fails \/ OSPhase \/ YACReady
        \/ DBIndexPanics \/ DBStep \/ Verdict
        \/ NoPrimaryOM \/ OMGate \/ OMHostIsPrimary \/ OMHostStep \/ OMHostFails
        \/ OMSync \/ OMDone \/ Archive \/ Gone

Spec == Init /\ [][Next]_vars

-----------------------------------------------------------------------------
Stages == {"connect", "B-001", "C-001", "os", "yacready", "db",
           "om primary", "om gate", "om host", "om sync"}

TypeOK ==
    /\ flags \in [precheck : BOOLEAN, dryRun : BOOLEAN]
    /\ want \in Wanted /\ Sensible(want)
    /\ dbPlan \in [DBSteps -> BOOLEAN]
    /\ phase \in {"connect", "c001", "os", "yacready", "db", "omgate", "omhost",
                  "omsync", "archive", "gone"}
    /\ at \in 0..(IF H > K THEN H + 1 ELSE K + 1)
    /\ phase = "connect" => at \in Targets
    /\ open \subseteq Targets /\ hosts \in Seq(Targets) /\ Len(hosts) <= H
    /\ innerPrecheckFailed \in BOOLEAN /\ precheckFailed \in BOOLEAN /\ lastErr \in BOOLEAN
    /\ ran \subseteq DBSteps
    /\ failed \subseteq (Stages \X Nat)
    /\ secondary \subseteq Targets /\ synced \subseteq Targets
    /\ archived \in BOOLEAN
    /\ exit \in {"none", "ok", "error", "panic"}

(* Outside --precheck the exit status is success exactly when nothing was  *)
(* reported as failed.                                                     *)
ApplyExitTruthful ==
    ~flags.precheck /\ exit # "none" => (exit = "ok" <=> failed = {})

(* An apply that reports success did all it was asked for: every target is *)
(* connected, every C-* step was called, every other host has the stage of *)
(* a secondary OM, and the archive was collected if it was wanted.         *)
SuccessIsComplete ==
    Applying(flags) /\ exit = "ok" =>
        /\ HostSet = Targets
        /\ ran = DBSteps
        /\ synced = IF want.host THEN Targets \ {PrimaryOM} ELSE {}
        /\ archived = want.archive

(* db.go:501 "go on with the other prechecks to collect all problems, but  *)
(* still end with a non-zero exit status": a target that failed B-001 is   *)
(* seen in the exit status.                                                *)
ConnectivityFailureIsReported ==
    flags.precheck /\ exit = "ok" => \A t \in Targets : <<"B-001", t>> \notin failed
=============================================================================
