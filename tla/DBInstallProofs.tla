--------------------------- MODULE DBInstallProofs ---------------------------
(***************************************************************************)
(* What success of "yinstall db" means outside --precheck, for any number  *)
(* of targets and of C-* steps; and below, what its step C-007             *)
(* (PackageStage) guarantees for any set of versions and number of runs.   *)
(***************************************************************************)
EXTENDS DBInstall, PackageStage, TLAPS

Known == flags \in [precheck : BOOLEAN, dryRun : BOOLEAN] /\ want \in Wanted

(* The hosts are the targets in order, up to the one being connected.      *)
HostsFound ==
    /\ hosts \in Seq(Nat) /\ \A i \in 1..Len(hosts) : hosts[i] = i
    /\ phase = "connect" => at \in Targets /\ Len(hosts) = at - 1
    /\ phase \notin {"connect", "gone"} => Len(hosts) = H

(* A failure is in lastErr or has ended the run.                           *)
FailuresSeen ==
    /\ exit = "none" <=> phase # "gone"
    /\ exit = "none" => (failed = {} <=> ~lastErr)
    /\ lastErr => phase \in {"yacready", "db", "gone"}
    /\ exit # "none" => (exit = "ok" <=> failed = {})

(* What has been done where the command is.                                *)
InOM == {"omhost", "omsync"}
Secondaries(n) == (1..n) \ {PrimaryOM}
WorkDone ==
    /\ phase \in {"connect", "c001", "os", "yacready"} => ran = {}
    /\ phase = "db" => at \in 1..(K + 1) /\ ran = 1..(at - 1)
    /\ phase \in InOM \cup {"omgate", "archive"} => ran = DBSteps
    /\ phase \in InOM => want.host /\ at \in 1..(H + 1)
    /\ phase = "omsync" => at # PrimaryOM /\ at <= H
    /\ Applying(flags) /\ phase \in InOM => synced = Secondaries(at - 1)
    /\ phase \notin InOM \cup {"archive", "gone"} => synced = {}
    /\ Applying(flags) /\ phase = "archive" => synced = IF want.host THEN Secondaries(H) ELSE {}

ApplyInv ==
    Known /\ (~flags.precheck => HostsFound /\ FailuresSeen /\ WorkDone /\ SuccessIsComplete)

-----------------------------------------------------------------------------
LEMMA InitApplies == Init => ApplyInv
<1>. USE HAssumption, KAssumption DEF Targets, DBSteps
<1> SUFFICES ASSUME Init
             PROVE  ApplyInv
  OBVIOUS
<1>1. Known
  BY DEF Init, Known
<1>2. HostsFound
  BY DEF Init, HostsFound
<1>3. FailuresSeen
  BY DEF Init, FailuresSeen
<1>4. WorkDone /\ SuccessIsComplete
  BY DEF Init, WorkDone, SuccessIsComplete, InOM
<1>5. QED  BY <1>1, <1>2, <1>3, <1>4 DEF ApplyInv

LEMMA NextKnown == Known /\ [Next]_vars => Known' /\ UNCHANGED <<flags, want>>
BY DEF Known, Next, vars, ConnectFails, TargetReady, TargetUnfit, C001Passes, C001Fails, OSPhase,
       YACReady, DBIndexPanics, DBStep, Verdict, NoPrimaryOM, OMGate, OMHostIsPrimary, OMHostStep,
       OMHostFails, OMSync, OMDone, Archive, Gone

(* Only the connection phase changes the hosts.                            *)
LEMMA NextHosts ==
    ASSUME HostsFound, ~flags.precheck, [Next]_vars
    PROVE  HostsFound'
<1>. USE HAssumption DEF Targets
<1>1. CASE TargetReady
  <2>1. phase = "connect" /\ hosts' = Append(hosts, at) /\ at \in 1..H /\ Len(hosts) = at - 1
    BY <1>1 DEF TargetReady, HostsFound
  <2>2. hosts' \in Seq(Nat) /\ Len(hosts') = at /\ \A i \in 1..Len(hosts') : hosts'[i] = i
    BY <2>1 DEF HostsFound
  <2>3. \/ at = H /\ phase' = "c001"
        \/ at < H /\ at' = at + 1 /\ phase' = "connect"
    BY <1>1, <2>1 DEF TargetReady, NextTarget, Goto
  <2>4. QED  BY <2>1, <2>2, <2>3 DEF HostsFound
<1>2. CASE hosts' = hosts /\ phase' = "gone"
  BY <1>2 DEF HostsFound
<1>3. CASE hosts' = hosts /\ phase \notin {"connect", "gone"} /\ phase' # "connect"
  BY <1>3 DEF HostsFound
<1>4. CASE ConnectFails \/ TargetUnfit
  BY <1>2, <1>4 DEF ConnectFails, TargetUnfit, Return
<1>5. CASE C001Passes \/ C001Fails \/ OSPhase \/ YACReady \/ DBIndexPanics \/ DBStep \/ Verdict
  <2>1. hosts' = hosts /\ phase \notin {"connect", "gone"}
    BY <1>5 DEF C001Passes, C001Fails, OSPhase, YACReady, DBIndexPanics, DBStep, Verdict
  <2>2. phase' # "connect"
    BY <1>5 DEF C001Passes, C001Fails, OSPhase, YACReady, DBIndexPanics, DBStep, Verdict, Goto, Return
  <2>3. QED  BY <1>3, <2>1, <2>2
<1>6. CASE NoPrimaryOM \/ OMGate \/ OMHostIsPrimary \/ OMHostStep \/ OMHostFails \/ OMSync \/ OMDone \/ Archive
  <2>1. hosts' = hosts /\ phase \notin {"connect", "gone"}
    BY <1>6 DEF NoPrimaryOM, OMGate, OMHostIsPrimary, OMHostStep, OMHostFails, OMSync, OMDone, Archive
  <2>2. phase' # "connect"
    BY <1>6
    DEF NoPrimaryOM, OMGate, OMHostIsPrimary, OMHostStep, OMHostFails, OMSync, OMDone, Archive,
        Goto, Return, AfterGate, AfterHostStep
  <2>3. QED  BY <1>3, <2>1, <2>2
<1>7. CASE Gone \/ UNCHANGED vars
  BY <1>7 DEF Gone, vars, HostsFound
<1>8. QED  BY <1>1, <1>4, <1>5, <1>6, <1>7 DEF Next

(* A failure sets lastErr or ends the run; no phase after the DB loop is   *)
(* entered with lastErr set.                                               *)
LEMMA NextFailures ==
    ASSUME Known, HostsFound, FailuresSeen, ~flags.precheck, [Next]_vars
    PROVE  FailuresSeen'
<1>. USE HAssumption DEF FailuresSeen
<1>0. phase \notin {"connect", "gone"} => hosts # <<>> /\ PrimaryOM \in HostSet
  <2>1. Len(hosts) = H => 1 \in DOMAIN hosts /\ hosts[1] = 1
    BY DEF HostsFound
  <2>2. QED  BY <2>1 DEF HostsFound, HostSet, PrimaryOM
<1>a. ASSUME NEW what, Fail(what)
      PROVE  failed' # {}
  BY <1>a DEF Fail
(* the three ways a step can leave the failure variables *)
<1>b. CASE phase # "gone" /\ phase' # "gone" /\ UNCHANGED <<failed, lastErr, exit>>
           /\ (phase' \in {phase, "yacready", "db"} \/ ~lastErr)
  BY <1>b
<1>c. CASE phase' \in {"yacready", "db"} /\ failed' # {} /\ lastErr' /\ exit = "none" /\ exit' = exit
  BY <1>c
<1>d. CASE phase' = "gone" /\ exit' \in {"error", "panic"} /\ failed' # {}
  BY <1>d
<1>1. CASE ConnectFails \/ (TargetUnfit /\ phase' = "gone")
  BY <1>1, <1>a, <1>d DEF ConnectFails, TargetUnfit, Return
<1>2. CASE TargetReady \/ TargetUnfit
  <2>1. CASE TargetReady
    <3>1. phase = "connect" /\ phase' \in {"connect", "c001"} /\ UNCHANGED <<failed, lastErr, exit>>
      BY <2>1 DEF TargetReady, NextTarget, Goto
    <3>2. QED  BY <1>b, <3>1
  <2>2. CASE TargetUnfit
    BY <1>1, <2>2 DEF TargetUnfit, Return
  <2>3. QED  BY <1>2, <2>1, <2>2
<1>3. CASE C001Passes \/ C001Fails
  <2>1. CASE C001Passes
    BY <1>b, <2>1 DEF C001Passes, Goto
  <2>2. CASE C001Fails
    BY <1>a, <1>d, <2>2 DEF C001Fails, Return
  <2>3. QED  BY <1>3, <2>1, <2>2
<1>4. CASE OSPhase \/ YACReady
  <2>1. phase \in {"os", "yacready"} /\ phase' \in {"yacready", "db"} /\ exit' = exit
    BY <1>4 DEF OSPhase, YACReady, Goto
  <2>2. UNCHANGED <<failed, lastErr>> \/ (failed' # {} /\ lastErr' = ~flags.precheck)
    BY <1>4, <1>a DEF OSPhase, YACReady
  <2>3. QED  BY <1>b, <1>c, <2>1, <2>2
<1>5. CASE DBIndexPanics \/ NoPrimaryOM
  BY <1>0, <1>5 DEF DBIndexPanics, NoPrimaryOM
<1>6. CASE DBStep
  <2>1. phase = "db" /\ phase' = "db" /\ exit' = exit
    BY <1>6 DEF DBStep
  <2>2. UNCHANGED <<failed, lastErr>> \/ (failed' # {} /\ lastErr' = ~flags.precheck)
    BY <1>6, <1>a DEF DBStep, DBFailed
  <2>3. QED  BY <1>b, <1>c, <2>1, <2>2
<1>7. CASE Verdict
  <2>1. phase = "db" /\ UNCHANGED <<failed, lastErr>>
    BY <1>7 DEF Verdict
  <2>2. CASE MustFail
    <3>1. lastErr /\ phase' = "gone" /\ exit' = "error"
      BY <1>7, <2>2 DEF Verdict, MustFail, Return
    <3>2. QED  BY <1>d, <2>1, <3>1
  <2>3. CASE ~MustFail
    <3>1. ~lastErr /\ phase' \in {"omgate", "archive"} /\ exit' = exit
      BY <1>7, <2>3 DEF Verdict, MustFail, Goto
    <3>2. QED  BY <1>b, <2>1, <3>1
  <2>4. QED  BY <2>2, <2>3
<1>8. CASE OMGate \/ OMHostFails \/ OMSync
  <2>1. phase \in {"omgate", "omhost", "omsync"} /\ lastErr' = lastErr
    BY <1>8 DEF OMGate, OMHostFails, OMSync
  <2>2. \/ phase' \in {"omhost", "omsync", "archive"} /\ UNCHANGED <<failed, exit>>
        \/ phase' = "gone" /\ exit' = "error" /\ failed' # {}
    BY <1>8, <1>a DEF OMGate, OMHostFails, OMSync, AfterGate, Return, Goto
  <2>3. QED  BY <1>b, <1>d, <2>1, <2>2
<1>9. CASE OMHostIsPrimary \/ OMHostStep \/ OMDone
  BY <1>9, <1>b DEF OMHostIsPrimary, OMHostStep, AfterHostStep, OMDone, Goto
<1>10. CASE Archive
  <2>1. phase = "archive" /\ phase' = "gone" /\ exit' = "ok" /\ failed' = failed /\ ~lastErr /\ lastErr' = lastErr
    BY <1>10 DEF Archive, Return
  <2>2. failed = {}
    BY <2>1
  <2>3. QED  BY <2>1, <2>2
<1>11. CASE Gone \/ UNCHANGED vars
  BY <1>11 DEF Gone, vars
<1>12. QED
  BY <1>1, <1>2, <1>3, <1>4, <1>5, <1>6, <1>7, <1>8, <1>9, <1>10, <1>11 DEF Next

(* Each loop counts what it did.                                           *)
LEMMA NextWork ==
    ASSUME Known, HostsFound, FailuresSeen, WorkDone, ~flags.precheck, [Next]_vars
    PROVE  WorkDone'
<1>. USE HAssumption, KAssumption DEF DBSteps, InOM
<1>0. flags' = flags /\ want' = want
  BY NextKnown
<1>1. CASE phase' = "gone" /\ UNCHANGED ran
  BY <1>1 DEF WorkDone
<1>2. CASE phase \in {"connect", "c001", "os"} /\ phase' \in {"connect", "c001", "os", "yacready"} /\ UNCHANGED <<ran, synced>>
  BY <1>0, <1>2 DEF WorkDone
<1>3. CASE ConnectFails \/ TargetReady \/ TargetUnfit \/ C001Passes \/ C001Fails \/ OSPhase
  BY <1>1, <1>2, <1>3
  DEF ConnectFails, TargetReady, TargetUnfit, NextTarget, C001Passes, C001Fails, OSPhase, Return, Goto
<1>4. CASE YACReady
  BY <1>0, <1>4 DEF YACReady, Goto, WorkDone
<1>5. CASE DBIndexPanics \/ NoPrimaryOM
  BY <1>1, <1>5 DEF DBIndexPanics, NoPrimaryOM, Return
<1>6. CASE DBStep
  <2>1. phase' = "db" /\ at \in 1..K /\ at' = at + 1 /\ ran' = ran \cup {at} /\ synced' = synced
    BY <1>6 DEF DBStep
  <2>2. ran = 1..(at - 1) /\ synced = {}
    BY <1>6 DEF DBStep, WorkDone
  <2>3. ran' = 1..(at' - 1) /\ at' \in 1..(K + 1)
    BY <2>1, <2>2
  <2>4. QED  BY <2>1, <2>2, <2>3 DEF WorkDone
<1>7. CASE Verdict
  <2>1. CASE phase' = "gone"
    BY <1>1, <1>7, <2>1 DEF Verdict
  <2>2. CASE phase' # "gone"
    <3>1. ~MustFail /\ at > K /\ phase = "db" /\ UNCHANGED <<ran, synced>>
      BY <1>7, <2>2 DEF Verdict, MustFail, Return
    <3>2. ran = DBSteps /\ synced = {}
      BY <3>1 DEF WorkDone
    <3>3. phase' = IF OMDue THEN "omgate" ELSE "archive"
      BY <1>7, <3>1 DEF Verdict, Goto
    <3>4. hosts # <<>>
      BY <3>1 DEF HostsFound
    <3>5. phase' = "archive" => ~want.host
      BY <3>3, <3>4 DEF OMDue
    <3>6. QED  BY <1>0, <3>1, <3>2, <3>3, <3>5 DEF WorkDone
  <2>3. QED  BY <2>1, <2>2
<1>8. CASE OMGate
  <2>1. CASE phase' = "gone"
    BY <1>1, <1>8, <2>1 DEF OMGate
  <2>2. CASE phase' # "gone"
    <3>1. UNCHANGED <<ran, synced>> /\ at' = 1 /\ phase' = IF want.host THEN "omhost" ELSE "archive"
      BY <1>8, <2>2 DEF OMGate, AfterGate, Goto, Return
    <3>2. ran = DBSteps /\ synced = {}
      BY <1>8 DEF OMGate, WorkDone
    <3>3. Secondaries(0) = {}
      BY DEF Secondaries
    <3>4. QED  BY <1>0, <3>1, <3>2, <3>3 DEF WorkDone
  <2>3. QED  BY <2>1, <2>2
<1>9. CASE OMHostIsPrimary \/ OMHostStep \/ OMHostFails
  <2>0. phase = "omhost" /\ at \in DOMAIN hosts /\ UNCHANGED <<ran, synced>>
    BY <1>9 DEF OMHostIsPrimary, OMHostStep, OMHostFails
  <2>1. want.host /\ at \in 1..H /\ hosts[at] = at /\ ran = DBSteps
    BY <2>0 DEF WorkDone, HostsFound
  <2>2. CASE OMHostIsPrimary
    <3>1. at = 1 /\ at' = at + 1 /\ phase' = phase
      BY <2>1, <2>2 DEF OMHostIsPrimary, PrimaryOM
    <3>2. Secondaries(1) = {} /\ Secondaries(0) = {}
      BY DEF Secondaries, PrimaryOM
    <3>3. Secondaries(at) = Secondaries(at - 1)
      BY <3>1, <3>2
    <3>4. QED  BY <1>0, <2>0, <2>1, <3>1, <3>3 DEF WorkDone
  <2>3. CASE OMHostStep
    <3>1. \/ phase' = "omsync" /\ at' = at /\ at # PrimaryOM
          \/ phase' = phase /\ at' = at + 1 /\ ~Applying(flags)
      BY <2>1, <2>3 DEF OMHostStep, AfterHostStep, Applying
    <3>2. QED  BY <1>0, <2>0, <2>1, <3>1 DEF WorkDone
  <2>4. CASE OMHostFails
    BY <1>1, <2>0, <2>4 DEF OMHostFails, Return
  <2>5. QED  BY <1>9, <2>2, <2>3, <2>4
<1>10. CASE OMSync
  <2>1. CASE phase' = "gone"
    BY <1>1, <1>10, <2>1 DEF OMSync
  <2>2. CASE phase' # "gone"
    <3>1. phase = "omsync" /\ phase' = "omhost" /\ at' = at + 1 /\ synced' = synced \cup {hosts[at]} /\ ran' = ran
      BY <1>10, <2>2 DEF OMSync, Return
    <3>2. want.host /\ at \in 1..H /\ at # PrimaryOM /\ hosts[at] = at /\ ran = DBSteps
      BY <3>1 DEF WorkDone, HostsFound
    <3>3. Secondaries(at) = Secondaries(at - 1) \cup {at}
      BY <3>2 DEF Secondaries
    <3>4. QED  BY <1>0, <3>1, <3>2, <3>3 DEF WorkDone
  <2>3. QED  BY <2>1, <2>2
<1>11. CASE OMDone
  <2>1. phase = "omhost" /\ phase' = "archive" /\ UNCHANGED <<ran, synced>> /\ at > H
    BY <1>11 DEF OMDone, Goto, HostsFound
  <2>2. want.host /\ at = H + 1 /\ ran = DBSteps
    BY <2>1 DEF WorkDone
  <2>3. QED  BY <1>0, <2>1, <2>2 DEF WorkDone
<1>12. CASE Archive
  BY <1>1, <1>12 DEF Archive, Return
<1>13. CASE Gone \/ UNCHANGED vars
  BY <1>13 DEF Gone, vars, WorkDone
<1>14. QED
  BY <1>3, <1>4, <1>5, <1>6, <1>7, <1>8, <1>9, <1>10, <1>11, <1>12, <1>13 DEF Next

(* Only the archive phase ends with success, and it is reached with        *)
(* everything done.                                                        *)
LEMMA NextSucceeds ==
    ASSUME Known, HostsFound, FailuresSeen, WorkDone, SuccessIsComplete, ~flags.precheck,
           [Next]_vars
    PROVE  SuccessIsComplete'
<1>. USE HAssumption DEF Targets
<1>0. flags' = flags /\ want' = want
  BY NextKnown
<1>1. CASE Archive /\ Applying(flags)
  <2>1. phase = "archive" /\ UNCHANGED <<hosts, ran, synced>>
    BY <1>1 DEF Archive
  <2>2. DOMAIN hosts = 1..H /\ \A i \in 1..H : hosts[i] = i
    BY <2>1 DEF HostsFound
  <2>3. HostSet' = Targets
    BY <2>1, <2>2 DEF HostSet
  <2>4. ran = DBSteps /\ synced = IF want.host THEN Targets \ {PrimaryOM} ELSE {}
    BY <1>1, <2>1 DEF WorkDone, InOM, Secondaries
  <2>5. archived' = want.archive
    <3>1. want.archive \in BOOLEAN /\ hosts # <<>>
      BY <2>2 DEF Known, Wanted
    <3>2. QED  BY <1>1, <3>1 DEF Archive
  <2>6. QED  BY <1>0, <2>1, <2>3, <2>4, <2>5 DEF SuccessIsComplete
<1>2. CASE ~Applying(flags)
  BY <1>0, <1>2 DEF SuccessIsComplete, Applying
<1>3. CASE exit' \in {"none", "error", "panic"}
  BY <1>3 DEF SuccessIsComplete
<1>4. CASE UNCHANGED vars
  BY <1>4 DEF vars, SuccessIsComplete, HostSet
<1>5. CASE phase = "gone"
  <2>1. UNCHANGED vars
    BY <1>5
    DEF Next, ConnectFails, TargetReady, TargetUnfit, C001Passes, C001Fails, OSPhase, YACReady,
        DBIndexPanics, DBStep, Verdict, NoPrimaryOM, OMGate, OMHostIsPrimary, OMHostStep,
        OMHostFails, OMSync, OMDone, Archive, Gone
  <2>2. QED  BY <1>4, <2>1
<1>6. CASE ~Archive /\ phase # "gone"
  <2>1. exit = "none"
    BY <1>6 DEF FailuresSeen
  <2>2. exit' \in {"none", "error", "panic"}
    BY <1>6, <2>1
    DEF Next, vars, ConnectFails, TargetReady, TargetUnfit, NextTarget, C001Passes, C001Fails,
        OSPhase, YACReady, DBIndexPanics, DBStep, Verdict, NoPrimaryOM, OMGate, OMHostIsPrimary,
        OMHostStep, OMHostFails, OMSync, OMDone, Gone, Return
  <2>3. QED  BY <1>3, <2>2
<1>7. QED  BY <1>1, <1>2, <1>5, <1>6

LEMMA NextApplies == ApplyInv /\ [Next]_vars => ApplyInv'
<1> SUFFICES ASSUME ApplyInv, [Next]_vars
             PROVE  ApplyInv'
  OBVIOUS
<1>1. Known' /\ flags' = flags
  BY NextKnown DEF ApplyInv
<1>2. CASE flags.precheck
  BY <1>1, <1>2 DEF ApplyInv
<1>3. CASE ~flags.precheck
  BY <1>1, <1>3, NextHosts, NextFailures, NextWork, NextSucceeds DEF ApplyInv
<1>4. QED  BY <1>2, <1>3

LEMMA ApplyInvariant == Spec => []ApplyInv
BY InitApplies, NextApplies, PTL DEF Spec

(* Outside --precheck, "yinstall db" ends with success exactly when it has *)
(* reported no failure (the returns of runDB).                             *)
THEOREM ApplyExitIsTrue == Spec => []ApplyExitTruthful
<1>1. ApplyInv => ApplyExitTruthful
  <2> SUFFICES ASSUME ApplyInv, ~flags.precheck, exit # "none"
               PROVE  exit = "ok" <=> failed = {}
    BY DEF ApplyExitTruthful
  <2>1. FailuresSeen
    BY DEF ApplyInv
  <2>2. QED  BY <2>1 DEF FailuresSeen
<1>2. QED  BY <1>1, ApplyInvariant, PTL

(* An apply of "yinstall db" that ends with success has connected every    *)
(* target, called every C-* step, made every other host a secondary OM     *)
(* with its stage, and collected the archive when asked.                   *)
THEOREM SuccessIsTotal == Spec => []SuccessIsComplete
<1>1. ApplyInv => SuccessIsComplete
  BY DEF ApplyInv, SuccessIsComplete, Applying
<1>2. QED  BY <1>1, ApplyInvariant, PTL
-----------------------------------------------------------------------------
(* Step C-007. *)

(* chown ends the unpacking of a stage that tar has filled. *)
LEMMA ChownCompletes ==
    ASSUME RunInv, Chown
    PROVE  Complete(package.ver)'
<1>1. stage = [files |-> Members, whole |-> Members, ver |-> package.ver, owned |-> FALSE]
  BY DEF RunInv, Chown
<1>2. stage' = [stage EXCEPT !.owned = TRUE]
  BY DEF Chown
<1>3. stage' = [files |-> Members, whole |-> Members, ver |-> package.ver, owned |-> TRUE]
  BY <1>1, <1>2
<1>4. package' = package
  BY DEF Chown
<1>5. QED  BY <1>3, <1>4 DEF Complete

(* Every step keeps the variables well typed. *)
LEMMA StageTypeStep ==
    ASSUME StageTypeOK, RunInv, StageNext
    PROVE  StageTypeOK'
<1>. USE DEF StageTypeOK, RunInv, Running, Offered, Unchecked, Absolute, SizeOf, Packages, NoPackage,
            Unspecified, EmptyStage, Complete, AbsoluteDirs, OtherDir, Dirs, SoftDir, HomeDir, Members, Sizes
<1>1. CASE Start
  <2>1. run' \in 0..Runs
    <3>1. run \in 0..Runs /\ run < Runs /\ run' = run + 1
      BY <1>1 DEF Start
    <3>2. QED  BY <3>1, RunsAssumption
  <2>2. asked' \in Packages \cup {Unspecified, NoPackage}
    BY <1>1 DEF Start
  <2>3. local' \subseteq Versions
    BY <1>1 DEF Start
  <2>4. QED  BY <1>1, <2>1, <2>2, <2>3 DEF Start
<1>2. CASE Discover
  BY <1>2 DEF Discover, host, Latest, Found, FoundOnHost, Hits
<1>3. CASE NothingDiscovered
  BY <1>3 DEF NothingDiscovered, host, End
<1>4. CASE PreCheck
  BY <1>4 DEF PreCheck, host, End, Empty, Ready
<1>5. CASE CleanStage
  BY <1>5 DEF CleanStage, host, Empty
<1>6. CASE CleanInterrupted
  <2>1. PICK left \in (SUBSET stage.files) \ {{}} :
          stage' = [stage EXCEPT !.files = left, !.whole = @ \cap left]
    BY <1>6 DEF CleanInterrupted
  <2>2. stage' = [files |-> left, whole |-> stage.whole \cap left,
                  ver |-> stage.ver, owned |-> stage.owned]
    BY <2>1
  <2>3. QED  BY <1>6, <2>2 DEF CleanInterrupted, End
<1>7. CASE KeepStage
  BY <1>7 DEF KeepStage, host, Empty
<1>8. CASE SkipExtract
  BY <1>8 DEF SkipExtract, host, End, Empty, Ready
<1>9. CASE UseExisting
  BY <1>9 DEF UseExisting, OnHost, host, Existing, NeedsReplace
<1>10. CASE NotFound
  BY <1>10 DEF NotFound, OnHost, host, End, Existing
<1>11. CASE UploadBegins
  BY <1>11 DEF UploadBegins, OnHost, host, Existing, NeedsReplace
<1>12. CASE UploadWrites
  BY <1>12 DEF UploadWrites, host, Write
<1>13. CASE UploadDone
  BY <1>13 DEF UploadDone, host, Write
<1>14. CASE SFTPFails
  BY <1>14 DEF SFTPFails, host
<1>15. CASE SCPFails
  BY <1>15 DEF SCPFails, host, End
<1>16. CASE TarCreates
  <2>1. PICK m \in Members \ stage.files :
          stage' = [stage EXCEPT !.files = @ \cup {m}, !.ver = source.ver]
    BY <1>16 DEF TarCreates
  <2>2. source.ver \in Versions
    BY <1>16 DEF TarCreates
  <2>3. stage' = [files |-> stage.files \cup {m}, whole |-> stage.whole,
                  ver |-> source.ver, owned |-> stage.owned]
    BY <2>1
  <2>4. QED  BY <1>16, <2>2, <2>3 DEF TarCreates
<1>17. CASE TarFills
  BY <1>17 DEF TarFills, host
<1>18. CASE TarDone
  BY <1>18 DEF TarDone, host
<1>19. CASE TarHitsEnd
  BY <1>19 DEF TarHitsEnd, host, End
<1>20. CASE Chown
  BY <1>20 DEF Chown, host
<1>21. CASE Verify
  BY <1>21 DEF Verify, host, End
<1>22. CASE Interrupted
  BY <1>22 DEF Interrupted, host, End
<1>23. CASE OperatorDeletes
  BY <1>23 DEF OperatorDeletes, host
<1>24. CASE Finished
  BY <1>24 DEF Finished, host, stageVars
<1>25. QED  BY <1>1, <1>2, <1>3, <1>4, <1>5, <1>6, <1>7, <1>8, <1>9, <1>10, <1>11, <1>12, <1>13, <1>14, <1>15, <1>16, <1>17, <1>18, <1>19, <1>20, <1>21, <1>22, <1>23, <1>24 DEF StageNext

(* Every step keeps what the points of a run rely on. *)
LEMMA StageRunStep ==
    ASSUME StageTypeOK, RunInv, StageNext
    PROVE  RunInv'
<1>. USE DEF StageTypeOK, RunInv, Running, Offered, Unchecked, Absolute, SizeOf, Packages, NoPackage,
            Unspecified, EmptyStage, Complete, AbsoluteDirs, OtherDir, Dirs, SoftDir, HomeDir, Members, Sizes
<1>1. CASE Start
  BY <1>1 DEF Start, host
<1>2. CASE Discover
  BY <1>2 DEF Discover, host, Latest, Found, FoundOnHost, Hits
<1>3. CASE NothingDiscovered
  BY <1>3 DEF NothingDiscovered, host, End
<1>4. CASE PreCheck
  BY <1>4 DEF PreCheck, host, End, Empty, Ready
<1>5. CASE CleanStage
  BY <1>5 DEF CleanStage, host, Empty
<1>6. CASE CleanInterrupted
  BY <1>6 DEF CleanInterrupted, host, End, Empty
<1>7. CASE KeepStage
  BY <1>7 DEF KeepStage, host, Empty
<1>8. CASE SkipExtract
  BY <1>8 DEF SkipExtract, host, End, Empty, Ready
<1>9. CASE UseExisting
  BY <1>9 DEF UseExisting, OnHost, host, Existing, NeedsReplace
<1>10. CASE NotFound
  BY <1>10 DEF NotFound, OnHost, host, End, Existing
<1>11. CASE UploadBegins
  BY <1>11 DEF UploadBegins, OnHost, host, Existing, NeedsReplace
<1>12. CASE UploadWrites
  BY <1>12 DEF UploadWrites, host, Write
<1>13. CASE UploadDone
  BY <1>13 DEF UploadDone, host, Write
<1>14. CASE SFTPFails
  BY <1>14 DEF SFTPFails, host
<1>15. CASE SCPFails
  BY <1>15 DEF SCPFails, host, End
<1>16. CASE TarCreates
  BY <1>16 DEF TarCreates, host
<1>17. CASE TarFills
  BY <1>17 DEF TarFills, host
<1>18. CASE TarDone
  BY <1>18 DEF TarDone, host
<1>19. CASE TarHitsEnd
  BY <1>19 DEF TarHitsEnd, host, End
<1>20. CASE Chown
  <2>1. Complete(package.ver)'
    BY <1>20, ChownCompletes
  <2>2. stage'.files # {}
    BY <2>1 DEF Complete
  <2>3. QED  BY <1>20, <2>1, <2>2 DEF Chown
<1>21. CASE Verify
  BY <1>21 DEF Verify, host, End
<1>22. CASE Interrupted
  BY <1>22 DEF Interrupted, host, End
<1>23. CASE OperatorDeletes
  BY <1>23 DEF OperatorDeletes, host
<1>24. CASE Finished
  BY <1>24 DEF Finished, host, stageVars
<1>25. QED  BY <1>1, <1>2, <1>3, <1>4, <1>5, <1>6, <1>7, <1>8, <1>9, <1>10, <1>11, <1>12, <1>13, <1>14, <1>15, <1>16, <1>17, <1>18, <1>19, <1>20, <1>21, <1>22, <1>23, <1>24 DEF StageNext

-----------------------------------------------------------------------------
(* Both parts of the inductive invariant, for every version set and number *)
(* of runs.                                                                *)
THEOREM StageInvariant == StageSpec => [](StageTypeOK /\ RunInv)
<1>1. StageInit => StageTypeOK /\ RunInv
  <2>1. SUFFICES ASSUME StageInit PROVE StageTypeOK /\ RunInv
    OBVIOUS
  <2>2. remote \in [Dirs -> [Versions -> Sizes]]
    BY <2>1 DEF StageInit, Sizes
  <2>3. run \in 0..Runs
    BY <2>1, RunsAssumption DEF StageInit
  <2>4. StageTypeOK
    BY <2>1, <2>2, <2>3 DEF StageInit, StageTypeOK, EmptyStage, Sizes
  <2>5. RunInv
    BY <2>1 DEF StageInit, RunInv, Running, NoPackage
  <2>6. QED  BY <2>4, <2>5
<1>2. StageTypeOK /\ RunInv /\ [StageNext]_stageVars => (StageTypeOK /\ RunInv)'
  <2>1. CASE StageNext
    BY <2>1, StageTypeStep, StageRunStep
  <2>2. CASE UNCHANGED stageVars
    BY <2>2 DEF stageVars, StageTypeOK, RunInv, Running, Offered, Unchecked, Absolute, SizeOf, Complete
  <2>3. QED  BY <2>1, <2>2
<1>3. QED  BY <1>1, <1>2, PTL DEF StageSpec

(* Type correctness. *)
THEOREM StageTypeCorrect == StageSpec => []StageTypeOK
<1>1. QED  BY StageInvariant, PTL

(* A package of which the control machine has a copy is never unpacked     *)
(* from a truncated file, unless the host had that file at the very path.  *)
THEOREM NamedPackageStaysWhole == StageSpec => []NamedPackageIsWhole
<1>1. RunInv => NamedPackageIsWhole
  BY DEF RunInv, NamedPackageIsWhole
<1>2. QED  BY <1>1, StageInvariant, PTL

(* C-007 reports success after unpacking only with a complete stage.       *)
THEOREM ExtractionIsComplete == StageSpec => []ExtractedIsComplete
<1>1. RunInv => ExtractedIsComplete
  BY DEF RunInv, ExtractedIsComplete, Running
<1>2. QED  BY <1>1, StageInvariant, PTL

(* Whatever earlier runs left behind, a forced run that is not disturbed   *)
(* and can reach its package ends with a complete stage, unless it is      *)
(* pointed at a short file of the host.                                    *)
THEOREM ForceRecovers == StageSpec => []ForcedRunRecovers
<1>1. StageTypeOK /\ RunInv => ForcedRunRecovers
  <2>1. SUFFICES ASSUME StageTypeOK, RunInv, pc = "idle", outcome # "none", force, ~disturbed,
                        package # NoPackage, Offered, ~Unchecked
                 PROVE  outcome = "ok" /\ Complete(package.ver)
    BY DEF ForcedRunRecovers
  <2>2. outcome \in {"ok", "failed"}
    BY <2>1 DEF StageTypeOK, RunInv, Running
  <2>3. outcome # "failed"
    BY <2>1 DEF RunInv, Running
  <2>4. Complete(package.ver)
    BY <2>1, <2>2, <2>3 DEF RunInv, Running
  <2>5. QED  BY <2>2, <2>3, <2>4
<1>2. QED  BY <1>1, StageInvariant, PTL

(* Discovery takes the newest version in reach, and what the run does      *)
(* afterwards changes files of that version only.                          *)
THEOREM NewestStaysChosen == StageSpec => []NewestIsChosen
<1>1. StageInit => NewestIsChosen
  BY DEF StageInit, NewestIsChosen
<1>2. ASSUME StageTypeOK, RunInv, NewestIsChosen, [StageNext]_stageVars
      PROVE  NewestIsChosen'
  <2>1. CASE Start
    BY <2>1 DEF Start, NewestIsChosen
  <2>2. CASE Discover
    <3>1. SUFFICES ASSUME asked = Unspecified, NEW v \in Versions,
                          v \in local \/ \E d \in Dirs : remote[d][v] # "none"
                   PROVE  v <= package'.ver
      BY <2>2 DEF Discover, host, NewestIsChosen
    <3>2. PICK p \in Found : p.ver = v
      <4>1. CASE v \in local
        <5>1. [at |-> "name", ver |-> v] \in Found
          BY <4>1 DEF Found, Hits, Packages, OtherDir
        <5>2. QED  BY <5>1
      <4>2. CASE v \notin local
        <5>1. PICK d \in Dirs : remote[d][v] # "none"
          BY <3>1, <4>2
        <5>2. [at |-> d, ver |-> v] \in Found
          BY <5>1 DEF Found, FoundOnHost, Packages, AbsoluteDirs
        <5>3. QED  BY <5>2
      <4>3. QED  BY <4>1, <4>2
    <3>3. package' \in Latest(Found)
      BY <2>2, <3>1 DEF Discover
    <3>4. package' \in Packages /\ (v < package'.ver \/ v = package'.ver)
      BY <3>2, <3>3 DEF Latest, Found, FoundOnHost, Hits
    <3>5. package'.ver \in Nat /\ v \in Nat
      BY <3>4, VersionsAssumption DEF Packages
    <3>6. QED  BY <3>4, <3>5
  <2>3. CASE UploadWrites \/ UploadDone
    <3>1. pc \in {"sftp", "scp"} /\ asked' = asked /\ package' = package /\ local' = local
      BY <2>3 DEF UploadWrites, UploadDone
    <3>2. package \in Packages
      BY <1>2, <3>1 DEF RunInv, Running
    <3>3. package.ver \in Versions /\ package.ver <= package.ver
      <4>1. package.ver \in Versions
        BY <3>2 DEF Packages
      <4>2. package.ver \in Nat
        BY <4>1, VersionsAssumption
      <4>3. QED  BY <4>1, <4>2
    <3>4. \/ remote' = [remote EXCEPT ![SoftDir][package.ver] = "part"]
          \/ remote' = [remote EXCEPT ![SoftDir][package.ver] = "whole"]
      BY <2>3 DEF UploadWrites, UploadDone, Write
    <3>5. ASSUME NEW v \in Versions, NEW d \in Dirs, v # package.ver
          PROVE  remote'[d][v] = remote[d][v]
      BY <1>2, <3>3, <3>4, <3>5 DEF StageTypeOK
    <3>6. QED  BY <1>2, <3>1, <3>3, <3>5 DEF NewestIsChosen
  <2>4. CASE pc' \in {"idle", "discover"}
    BY <2>4 DEF NewestIsChosen
  <2>5. CASE pc \notin {"idle", "discover"} /\ UNCHANGED <<local, remote, asked, package>>
    BY <1>2, <2>5 DEF NewestIsChosen
  <2>6. CASE UNCHANGED stageVars
    BY <1>2, <2>6 DEF stageVars, NewestIsChosen
  <2>7. QED  BY <1>2, <2>1, <2>2, <2>3, <2>4, <2>5, <2>6 DEF StageNext, NothingDiscovered, PreCheck,
       CleanStage, CleanInterrupted, KeepStage, SkipExtract, UseExisting, NotFound, UploadBegins, SFTPFails,
       SCPFails, TarCreates, TarFills, TarDone, TarHitsEnd, Chown, Verify, Interrupted,
       OperatorDeletes, Finished, host, stageVars, End
<1>3. QED  BY <1>1, <1>2, StageInvariant, PTL DEF StageSpec

(* No run without force removes anything from the stage directory.         *)
THEOREM StageIsKept == StageSpec => OnlyForceEmptiesStage
<1>1. StageTypeOK /\ RunInv /\ [StageNext]_stageVars => [~(stage.files \subseteq stage'.files) => force]_stageVars
  <2>1. SUFFICES ASSUME StageTypeOK, RunInv, StageNext, stage' # stage, ~force
                 PROVE  stage.files \subseteq stage'.files
    BY DEF stageVars
  <2>2. CASE TarCreates
    BY <2>1, <2>2 DEF TarCreates, StageTypeOK
  <2>3. CASE TarFills
    BY <2>1, <2>3 DEF TarFills, StageTypeOK
  <2>4. CASE Chown
    BY <2>1, <2>4 DEF Chown, StageTypeOK
  <2>5. TarCreates \/ TarFills \/ Chown
    BY <2>1 DEF StageNext, Start, Discover, NothingDiscovered, PreCheck, CleanStage, CleanInterrupted, KeepStage,
       SkipExtract, UseExisting, NotFound, UploadBegins, UploadWrites, UploadDone, SFTPFails,
       SCPFails, TarDone, TarHitsEnd, Verify, Interrupted, OperatorDeletes, Finished, host, stageVars
  <2>6. QED  BY <2>2, <2>3, <2>4, <2>5
<1>2. QED  BY <1>1, StageInvariant, PTL DEF StageSpec, OnlyForceEmptiesStage
=============================================================================
