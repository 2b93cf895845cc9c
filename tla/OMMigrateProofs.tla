--------------------------- MODULE OMMigrateProofs ---------------------------
(***************************************************************************)
(* Why no migration promotes an OM that lacks metadata, runs a second      *)
(* primary, or cleans the newest copy away, and why a repeated one ends    *)
(* well: for any step lists that -s and -e may leave, and any number of    *)
(* runs that fail or are cut off anywhere.                                 *)
(***************************************************************************)
EXTENDS OMMigrate, WellFoundedInduction, TLAPS

InStep == {"pre", "act", "recover", "wait", "post"}
Later == {"stop", "promote", "sync", "toml", "old", "switch"}

(* What the flag of O-004 is worth to the step that promotes.              *)
NewIsUpToDate == om[New].role # "primary" => om[Cur].copy <= om[New].copy

OMs == /\ om \in [Hosts -> [role : Roles, up : BOOLEAN, copy : Nat]]
       /\ flags \in [precheck : BOOLEAN, dryRun : BOOLEAN]
       /\ already \in BOOLEAN /\ synced \in BOOLEAN

Placed ==
    /\ part \in InStep \cup {"idle", "os", "rollback", "end"}
    /\ part \in InStep => at \in Steps
    /\ part \in InStep \ {"pre"} => Applying
    /\ part \in {"recover", "wait"} => at \in {"secondary", "old"}
    /\ part = "os" => ~synced

SyncHolds ==
    /\ synced /\ part \in InStep \ {"post"} => at \in Later
    /\ synced /\ part \in InStep /\ at \in {"secondary", "stop", "promote"} => NewIsUpToDate
    /\ part = "post" => at \in {"secondary", "stop", "promote"}
    /\ part = "act" /\ at = "promote" => RunningPrimary(New) \/ synced

MigrateInv == OMs /\ Placed /\ SyncHolds

-----------------------------------------------------------------------------
LEMMA LeastOne ==
    ASSUME NEW S, S \subseteq Nat, S # {}
    PROVE  (CHOOSE k \in S : \A j \in S : k <= j) \in S
<1>1. PICK i \in S : \A j \in S : <<j, i>> \notin OpToRel(<, Nat)
  BY NatLessThanWellFounded, WFMin, Zenon
<1>2. \A j \in S : ~(j < i)
  BY <1>1, Zenon DEF OpToRel
<1>3. \E k \in S : \A j \in S : k <= j
  BY <1>2
<1>4. QED  BY <1>3

LEMMA OrderIs ==
    /\ DOMAIN Order = 1..10
    /\ Order[1] = "gate" /\ Order[2] = "prepare" /\ Order[3] = "add" /\ Order[4] = "secondary"
    /\ Order[5] = "stop" /\ Order[6] = "promote" /\ Order[7] = "sync" /\ Order[8] = "toml"
    /\ Order[9] = "old" /\ Order[10] = "switch"
    /\ Steps = {Order[k] : k \in 1..10}
BY DEF Order, Steps

(* The loop goes forward.                                                  *)
LEMMA AdvanceOnwards ==
    ASSUME NEW s, Advance(s)
    PROVE  \/ part' = "end" /\ at' = "none"
           \/ /\ part' = "pre" /\ at' \in Steps
              /\ s \in Later \cup {"secondary"} => at' \in Later
              /\ s \in {"promote", "sync", "toml", "old", "switch"}
                    => at' \in {"sync", "toml", "old", "switch"}
<1>1. CASE ListedAfter(s) = {}
  BY <1>1 DEF Advance
<1>2. CASE ListedAfter(s) # {}
  <2>1. ListedAfter(s) \subseteq 1..10
    BY OrderIs DEF ListedAfter
  <2>2. (CHOOSE i \in ListedAfter(s) : \A j \in ListedAfter(s) : i <= j) \in ListedAfter(s)
    BY <1>2, <2>1, LeastOne
  <2>3. PICK k \in ListedAfter(s) : part' = "pre" /\ at' = Order[k]
    BY <1>2, <2>2 DEF Advance
  <2>4. k \in 1..10 /\ \A j \in 1..10 : Order[j] = s => k > j
    BY OrderIs DEF ListedAfter
  <2>5. at' \in Steps
    BY <2>3, <2>4, OrderIs
  <2>6. /\ s = "secondary" => k > 4
        /\ s = "stop" => k > 5
        /\ s = "promote" => k > 6
        /\ s = "sync" => k > 7
        /\ s = "toml" => k > 8
        /\ s = "old" => k > 9
        /\ s = "switch" => k > 10
    BY <2>4, OrderIs
  <2>7. k > 4 => at' \in Later
    <3>1. k > 4 => k \in {5, 6, 7, 8, 9, 10}
      BY <2>4
    <3>2. QED  BY <2>3, <3>1, OrderIs DEF Later
  <2>8. k > 6 => at' \in {"sync", "toml", "old", "switch"}
    <3>1. k > 6 => k \in {7, 8, 9, 10}
      BY <2>4
    <3>2. QED  BY <2>3, <3>1, OrderIs
  <2>9. QED  BY <2>3, <2>4, <2>5, <2>6, <2>7, <2>8 DEF Later
<1>3. QED  BY <1>1, <1>2

LEMMA InitMigrates == Init => MigrateInv
<1> SUFFICES ASSUME Init
             PROVE  MigrateInv
  OBVIOUS
<1>1. flags \in [precheck : BOOLEAN, dryRun : BOOLEAN] /\ already = FALSE /\ synced = FALSE
  BY DEF Init
<1>2. om \in [Hosts -> [role : Roles, up : BOOLEAN, copy : Nat]]
  <2>1. PICK second \in {"none", "synced"} :
          om = [h \in Hosts |->
                  IF h = Cur THEN [role |-> "primary", up |-> TRUE, copy |-> 1]
                  ELSE IF second = "synced" THEN [role |-> "secondary", up |-> TRUE, copy |-> 1]
                  ELSE NoOM]
    BY DEF Init
  <2>2. QED  BY <2>1 DEF Roles, NoOM
<1>3. part = "idle"
  BY DEF Init
<1>4. Placed /\ SyncHolds
  BY <1>1, <1>3 DEF Placed, SyncHolds, InStep
<1>5. QED  BY <1>1, <1>2, <1>4 DEF MigrateInv, OMs

-----------------------------------------------------------------------------
(* Everything that happens to the two OMs: where one is cleaned, where the  *)
(* new one is promoted, and what costs no metadata.                        *)
Gentle(h) ==
    \/ om[h].role = "none" /\ RecoverSecondary(h) /\ (h = New => member)
    \/ Stop(h)
    \/ StartAgain(h) /\ \/ part = "rollback"
                        \/ om[h].role = "secondary" \/ \A p \in Hosts : ~RunningPrimary(p)
    \/ CanCatchUp(h) /\ \E p \in Hosts \ {h} : om' = [om EXCEPT ![h].copy = om[p].copy]

Cleans ==
    \/ (EnsureClean \/ EnsureCleanAgain \/ RollbackSecondary) /\ Clean(New)
    \/ OldClean /\ Clean(Cur)

Promoted == part = "act" /\ at = "promote" /\ ~RunningPrimary(New) /\ Promote(New)

Small(h) == Gentle(h) \/ Clean(h)

LEMMA StepsOnOMs ==
    ASSUME [Next]_vars
    PROVE  om' = om \/ (\E h \in Hosts : Gentle(h)) \/ Cleans \/ Promoted
<1>. USE DEF Gentle, Hosts
<1>1. CASE PreChecks
  BY <1>1
  DEF PreChecks, PreGate, PreAlreadyDone, PrePrepare, PreAdd, PreSecondary, PreStop,
      PreStopTimesOut, PrePromote, PreSync, PreToml, PreCheckDisturbed, Known, cluster
<1>2. CASE Gate \/ NoClusterChange \/ HostAdd \/ EnsureSynced \/ EnsureRefuses \/ EnsureBlindly
        \/ EnsureWait \/ SecondaryDone \/ WaitTimesOut \/ StopDone \/ PromoteDone \/ Sync
        \/ UpdateHostsToml
  BY <1>2
  DEF Gate, NoClusterChange, HostAdd, EnsureSynced, EnsureRefuses, EnsureBlindly, EnsureWait,
      SecondaryDone, WaitTimesOut, StopDone, PromoteDone, Sync, UpdateHostsToml, Known, cluster
<1>3. CASE EnsureClean \/ EnsureRecover \/ EnsureCleanAgain \/ StopPrimary \/ OldClean \/ OldRecover
  BY <1>3 DEF EnsureClean, EnsureRecover, EnsureCleanAgain, StopPrimary, OldClean, OldRecover, Cleans,
      Cur, New
<1>4. CASE RecoverPrimary
  BY <1>4 DEF RecoverPrimary, Promoted
<1>5. CASE CommandFails
  BY <1>5 DEF CommandFails, Promoted
<1>6. CASE Rollback
  BY <1>6
  DEF Rollback, RollbackNothing, RollbackSecondary, RollbackStop, RollbackPromoted, Cleans,
      cluster
<1>7. CASE Start \/ OSBaseline \/ OSBaselineFails \/ Finish \/ FinishFails \/ Interrupted
  BY <1>7 DEF Start, OSBaseline, OSBaselineFails, Finish, FinishFails, Interrupted, cluster
<1>8. CASE OperatorActs
  BY <1>8 DEF OperatorActs
<1>9. CASE \E h \in Hosts : CatchUp(h)
  BY <1>9 DEF CatchUp
<1>10. CASE Finished \/ UNCHANGED vars
  BY <1>10 DEF Finished, vars, cluster
<1>11. QED
  BY <1>1, <1>2, <1>3, <1>4, <1>5, <1>6, <1>7, <1>8, <1>9, <1>10 DEF Next, Actions

LEMMA StepsAreSmall ==
    ASSUME [Next]_vars
    PROVE  om' = om \/ (\E h \in Hosts : Small(h)) \/ Promoted
BY StepsOnOMs DEF Cleans, Small, Hosts

LEMMA OMsStayTyped ==
    ASSUME OMs, om' = om \/ (\E h \in Hosts : Small(h)) \/ Promoted
    PROVE  om' \in [Hosts -> [role : Roles, up : BOOLEAN, copy : Nat]]
<1>1. New \in Hosts
  BY DEF Hosts
<1>2. ASSUME NEW h \in Hosts, Small(h)
      PROVE  om' \in [Hosts -> [role : Roles, up : BOOLEAN, copy : Nat]]
  <2>1. om[h] \in [role : Roles, up : BOOLEAN, copy : Nat]
    BY <1>2 DEF OMs
  <2>2. CASE Clean(h) \/ RecoverSecondary(h)
    <3>1. PICK r \in {NoOM, [role |-> "secondary", up |-> TRUE, copy |-> 0]} :
             om' = [om EXCEPT ![h] = r]
      BY <2>2 DEF Clean, RecoverSecondary
    <3>2. r \in [role : Roles, up : BOOLEAN, copy : Nat]
      <4>1. NoOM \in [role : Roles, up : BOOLEAN, copy : Nat]
        BY DEF NoOM, Roles
      <4>2. [role |-> "secondary", up |-> TRUE, copy |-> 0] \in [role : Roles, up : BOOLEAN, copy : Nat]
        BY DEF Roles
      <4>3. QED  BY <4>1, <4>2
    <3>3. QED  BY <3>1, <3>2 DEF OMs
  <2>3. CASE Stop(h)
    BY <2>1, <2>3 DEF Stop, OMs
  <2>4. CASE StartAgain(h)
    <3>1. (om[h].role # "none") \in BOOLEAN
      OBVIOUS
    <3>2. QED  BY <2>1, <2>4, <3>1 DEF StartAgain, OMs
  <2>5. CASE \E p \in Hosts : om' = [om EXCEPT ![h].copy = om[p].copy]
    BY <2>1, <2>5 DEF OMs
  <2>6. QED  BY <1>2, <2>2, <2>3, <2>4, <2>5 DEF Small, Gentle
<1>3. CASE Promoted
  BY <1>1, <1>3 DEF Promoted, Promote, OMs, Roles
<1>4. QED  BY <1>2, <1>3 DEF OMs

(* Only a start chooses flags and steps. *)
LEMMA LineStays ==
    ASSUME [Next]_vars, ~Start
    PROVE  UNCHANGED <<flags, listed, run, before>>
BY DEF Next, PreChecks, Actions, Rollback, PreGate, PreAlreadyDone, PrePrepare, PreAdd, PreSecondary,
       PreStop, PreStopTimesOut, PrePromote, PreSync, PreToml, PreCheckDisturbed, Known, Gate,
       NoClusterChange, HostAdd, EnsureSynced, EnsureRefuses, EnsureClean, EnsureBlindly,
       EnsureRecover, EnsureCleanAgain, EnsureWait, SecondaryDone, WaitTimesOut, StopPrimary,
       StopDone, RecoverPrimary, PromoteDone, Sync, UpdateHostsToml, OldClean, OldRecover,
       CommandFails, RollbackNothing, RollbackSecondary, RollbackStop, RollbackPromoted,
       OSBaseline, OSBaselineFails, Finish, FinishFails, Interrupted, OperatorActs, CatchUp,
       Finished, vars

LEMMA FlagsStayTyped ==
    ASSUME MigrateInv, [Next]_vars
    PROVE  flags' \in [precheck : BOOLEAN, dryRun : BOOLEAN]
BY LineStays DEF Start, MigrateInv, OMs

(* Only the gate and O-004 set results. *)
LEMMA ResultsStayTyped ==
    ASSUME MigrateInv, [Next]_vars
    PROVE  already' \in BOOLEAN /\ synced' \in BOOLEAN
<1>0. already \in BOOLEAN /\ synced \in BOOLEAN
  BY DEF MigrateInv, OMs
<1>1. CASE Gate \/ Start \/ EnsureSynced \/ EnsureWait
  BY <1>0, <1>1 DEF Gate, Start, EnsureSynced, EnsureWait, AlreadyDone
<1>2. CASE ~Gate /\ ~Start /\ ~EnsureSynced /\ ~EnsureWait
  <2>1. UNCHANGED <<already, synced>>
    BY <1>2
    DEF Next, PreChecks, Actions, Rollback, PreGate, PreAlreadyDone, PrePrepare, PreAdd, PreSecondary,
        PreStop, PreStopTimesOut, PrePromote, PreSync, PreToml, PreCheckDisturbed, results,
        NoClusterChange, HostAdd, EnsureRefuses, EnsureClean, EnsureBlindly,
        EnsureRecover, EnsureCleanAgain, SecondaryDone, WaitTimesOut, StopPrimary,
        StopDone, RecoverPrimary, PromoteDone, Sync, UpdateHostsToml, OldClean, OldRecover,
        CommandFails, RollbackNothing, RollbackSecondary, RollbackStop, RollbackPromoted,
        OSBaseline, OSBaselineFails, Finish, FinishFails, Interrupted, OperatorActs, CatchUp,
        Finished, vars
  <2>2. QED  BY <1>0, <2>1
<1>3. QED  BY <1>1, <1>2

-----------------------------------------------------------------------------
(* The ways a step can end, as far as the invariant is concerned. *)

LEMMA LeavingKeeps ==
    ASSUME OMs', part' \in {"idle", "rollback", "end"}
    PROVE  MigrateInv'
BY DEF MigrateInv, Placed, SyncHolds, InStep

LEMMA SyncedIsLate ==
    ASSUME MigrateInv, synced, part \in InStep
    PROVE  at \in Later \cup {"secondary"}
BY DEF MigrateInv, SyncHolds, InStep, Later

LEMMA SucceedKeeps ==
    ASSUME MigrateInv, OMs', part \in InStep, Succeed, synced' = synced,
           om' = om \/ at = "old"
    PROVE  MigrateInv'
<1>1. Advance(at)
  BY DEF Succeed
<1>2. CASE part' = "end"
  BY <1>2, LeavingKeeps
<1>3. CASE part' = "pre"
  <2>1. /\ at' \in Steps
        /\ at \in Later \cup {"secondary"} => at' \in Later
        /\ at \in {"promote", "sync", "toml", "old", "switch"}
              => at' \in {"sync", "toml", "old", "switch"}
    BY <1>1, <1>3, AdvanceOnwards
  <2>2. Placed'
    BY <1>3, <2>1 DEF Placed, InStep
  <2>3. SyncHolds'
    <3>1. synced => at \in Later \cup {"secondary"}
      BY SyncedIsLate
    <3>2. synced' => at' \in Later
      BY <2>1, <3>1
    <3>3. ASSUME synced', at' \in {"secondary", "stop", "promote"}
          PROVE  NewIsUpToDate'
      <4>1. at \in {"secondary", "stop"}
        BY <2>1, <3>1, <3>2, <3>3 DEF Later
      <4>2. NewIsUpToDate /\ om' = om
        BY <3>3, <4>1 DEF MigrateInv, SyncHolds
      <4>3. QED  BY <4>2 DEF NewIsUpToDate
    <3>4. QED  BY <1>3, <3>2, <3>3 DEF SyncHolds, InStep
  <2>4. QED  BY <2>2, <2>3 DEF MigrateInv
<1>4. QED  BY <1>1, <1>2, <1>3, AdvanceOnwards

LEMMA FailKeeps ==
    ASSUME OMs', Fail
    PROVE  MigrateInv'
<1>1. part' \in {"idle", "rollback", "end"}
  BY DEF Fail, Return
<1>2. QED  BY <1>1, LeavingKeeps

(* A PreCheck that lets the step through. *)
LEMMA PassKeeps ==
    ASSUME MigrateInv, OMs', part = "pre", Pass, UNCHANGED <<om, flags, synced>>,
           at = "promote" => RunningPrimary(New) \/ synced \/ ~Applying
    PROVE  MigrateInv'
<1>1. CASE ~Applying
  BY <1>1, SucceedKeeps DEF Pass, InStep
<1>2. CASE Applying
  <2>1. part' = "act" /\ at' = at /\ Applying' /\ at \in Steps
    BY <1>2 DEF Pass, Continue, Applying, MigrateInv, Placed, InStep
  <2>2. Placed'
    BY <2>1 DEF Placed, InStep
  <2>3. synced => at \in Later
    BY DEF MigrateInv, SyncHolds, InStep
  <2>4. synced /\ at \in {"secondary", "stop", "promote"} => NewIsUpToDate
    BY DEF MigrateInv, SyncHolds, InStep
  <2>5. SyncHolds'
    BY <1>2, <2>1, <2>3, <2>4 DEF SyncHolds, InStep, NewIsUpToDate, RunningPrimary
  <2>6. QED  BY <2>2, <2>5 DEF MigrateInv
<1>3. QED  BY <1>1, <1>2

(* A step that goes on within its Action or to its PostCheck. *)
LEMMA ContinueKeeps ==
    ASSUME MigrateInv, OMs', part \in InStep \ {"pre"}, NEW where, Continue(where),
           flags' = flags,
           where \in {"recover", "wait", "post"},
           where = "post" => at \in {"secondary", "stop", "promote"},
           where # "post" => at \in {"secondary", "old"} /\ (synced' => at = "old"),
           synced' /\ at # "old" => NewIsUpToDate'
    PROVE  MigrateInv'
<1>1. part' = where /\ at' = at /\ Applying' /\ at \in Steps
  BY DEF Continue, Applying, MigrateInv, Placed, InStep
<1>2. Placed'
  BY <1>1 DEF Placed, InStep
<1>3. SyncHolds'
  BY <1>1 DEF SyncHolds, InStep, Later
<1>4. QED  BY <1>2, <1>3 DEF MigrateInv

-----------------------------------------------------------------------------
LEMMA PreChecksKeep ==
    ASSUME MigrateInv, OMs', PreChecks
    PROVE  MigrateInv'
<1>1. part = "pre" /\ UNCHANGED <<om, flags, synced>>
  BY DEF PreChecks, PreGate, PreAlreadyDone, PrePrepare, PreAdd, PreSecondary, PreStop,
         PreStopTimesOut, PrePromote, PreSync, PreToml, PreCheckDisturbed, Known, cluster, results
<1>2. Succeed \/ Fail \/ (Pass /\ at # "promote")
        \/ (Pass /\ (RunningPrimary(New) \/ synced \/ ~Applying))
  BY DEF PreChecks, PreGate, PreAlreadyDone, PrePrepare, PreAdd, PreSecondary, PreStop,
         PreStopTimesOut, PrePromote, PreSync, PreToml, PreCheckDisturbed
<1>3. QED  BY <1>1, <1>2, SucceedKeeps, FailKeeps, PassKeeps DEF InStep

(* Until O-004 is done the flag is not set. *)
LEMMA NotSyncedYet ==
    ASSUME MigrateInv, at = "secondary", part \in {"pre", "act", "recover", "wait"}
    PROVE  ~synced
BY DEF MigrateInv, SyncHolds, InStep, Later

LEMMA SecondaryKeeps ==
    ASSUME MigrateInv, OMs',
           EnsureSynced \/ EnsureRefuses \/ EnsureClean \/ EnsureBlindly \/ EnsureRecover
             \/ EnsureCleanAgain \/ EnsureWait \/ SecondaryDone \/ WaitTimesOut
    PROVE  MigrateInv'
<1>1. CASE EnsureSynced \/ EnsureWait
  <2>1. part \in {"act", "wait"} /\ at = "secondary" /\ SecondarySynced /\ Continue("post")
        /\ UNCHANGED <<om, flags>>
    BY <1>1 DEF EnsureSynced, EnsureWait, Known, cluster
  <2>2. NewIsUpToDate
    <3>1. om[New].role = "secondary" /\ Primaries # {}
      BY <2>1 DEF SecondarySynced, IsSecondary
    <3>2. Cur \in Primaries
      BY <3>1 DEF Primaries, Hosts
    <3>3. om[Cur].copy = om[New].copy /\ om[Cur].copy \in Nat
      BY <2>1, <3>2 DEF SecondarySynced, MigrateInv, OMs, Hosts
    <3>4. QED  BY <3>3 DEF NewIsUpToDate
  <2>3. NewIsUpToDate'
    BY <2>1, <2>2 DEF NewIsUpToDate
  <2>4. QED  BY <2>1, <2>3, ContinueKeeps DEF InStep
<1>2. CASE EnsureClean \/ EnsureBlindly \/ EnsureRecover \/ EnsureCleanAgain
  <2>1. at = "secondary" /\ part \in {"act", "recover"} /\ UNCHANGED <<flags, synced>>
        /\ (Continue("recover") \/ Continue("wait"))
    BY <1>2 DEF EnsureClean, EnsureBlindly, EnsureRecover, EnsureCleanAgain, Known, results
  <2>2. ~synced'
    BY <2>1, NotSyncedYet
  <2>3. QED  BY <2>1, <2>2, ContinueKeeps DEF InStep
<1>3. CASE SecondaryDone
  BY <1>3, SucceedKeeps DEF SecondaryDone, Known, cluster, results, InStep
<1>4. CASE EnsureRefuses \/ WaitTimesOut
  BY <1>4, FailKeeps DEF EnsureRefuses, WaitTimesOut
<1>5. QED  BY <1>1, <1>2, <1>3, <1>4

LEMMA StopAndPromoteKeep ==
    ASSUME MigrateInv, OMs', StopPrimary \/ StopDone \/ RecoverPrimary \/ PromoteDone
    PROVE  MigrateInv'
<1>0. New \in Hosts /\ Cur \in Hosts /\ New # Cur
  BY DEF Hosts, New, Cur
<1>1. CASE StopPrimary
  <2>1. part = "act" /\ at = "stop" /\ UNCHANGED <<flags, synced>> /\ Continue("post")
        /\ (Stop(Cur) \/ om' = om)
    BY <1>1 DEF StopPrimary, results
  <2>2. NewIsUpToDate => NewIsUpToDate'
    BY <1>0, <2>1 DEF Stop, NewIsUpToDate, MigrateInv, OMs
  <2>3. synced => NewIsUpToDate
    BY <2>1 DEF MigrateInv, SyncHolds, InStep
  <2>4. QED  BY <2>1, <2>2, <2>3, ContinueKeeps DEF InStep
<1>2. CASE RecoverPrimary
  <2>1. part = "act" /\ at = "promote" /\ UNCHANGED <<flags, synced>> /\ Continue("post")
    BY <1>2 DEF RecoverPrimary, results
  <2>2. om'[New].role = "primary"
    BY <1>0, <1>2 DEF RecoverPrimary, Promote, RunningPrimary, MigrateInv, OMs
  <2>3. NewIsUpToDate'
    BY <2>2 DEF NewIsUpToDate
  <2>4. QED  BY <2>1, <2>3, ContinueKeeps DEF InStep
<1>3. CASE StopDone \/ PromoteDone
  BY <1>3, SucceedKeeps, FailKeeps DEF StopDone, PromoteDone, Known, cluster, results, InStep
<1>4. QED  BY <1>1, <1>2, <1>3

LEMMA OtherActionsKeep ==
    ASSUME MigrateInv, OMs',
           Gate \/ NoClusterChange \/ HostAdd \/ Sync \/ UpdateHostsToml \/ OldClean \/ OldRecover
             \/ CommandFails
    PROVE  MigrateInv'
<1>1. CASE OldClean
  <2>1. part = "act" /\ at = "old" /\ flags' = flags /\ Continue("recover")
    BY <1>1 DEF OldClean
  <2>2. QED  BY <2>1, ContinueKeeps DEF InStep
<1>2. CASE OldRecover
  BY <1>2, SucceedKeeps DEF OldRecover, results, InStep
<1>3. CASE CommandFails
  BY <1>3, FailKeeps DEF CommandFails
<1>4. CASE Gate \/ NoClusterChange \/ HostAdd \/ Sync \/ UpdateHostsToml
  <2>1. part = "act" /\ UNCHANGED <<om, synced>> /\ (Succeed \/ Fail)
    BY <1>4 DEF Gate, NoClusterChange, HostAdd, Sync, UpdateHostsToml, Known, cluster, results
  <2>2. QED  BY <2>1, SucceedKeeps, FailKeeps DEF InStep
<1>5. QED  BY <1>1, <1>2, <1>3, <1>4

LEMMA AroundTheStepsKeep ==
    ASSUME MigrateInv, OMs',
           Start \/ OSBaseline \/ OSBaselineFails \/ Rollback \/ Finish \/ FinishFails
             \/ Interrupted \/ OperatorActs
    PROVE  MigrateInv'
<1>1. CASE Start
  BY <1>1 DEF Start, MigrateInv, Placed, SyncHolds, InStep
<1>2. CASE OSBaseline /\ part' = "pre"
  <2>1. Advance("none") /\ ~synced' /\ part = "os"
    BY <1>2 DEF OSBaseline, Return, results, MigrateInv, Placed
  <2>2. at' \in Steps
    BY <1>2, <2>1, AdvanceOnwards
  <2>3. QED  BY <1>2, <2>1, <2>2 DEF MigrateInv, Placed, SyncHolds, InStep
<1>3. CASE OSBaseline /\ part' # "pre"
  <2>1. part' \in {"idle", "end"}
    BY <1>3, AdvanceOnwards DEF OSBaseline, Return
  <2>2. QED  BY <2>1, LeavingKeeps
<1>4. CASE OSBaselineFails \/ Rollback \/ Finish \/ FinishFails \/ Interrupted \/ OperatorActs
  <2>1. part' = "idle"
    BY <1>4
    DEF OSBaselineFails, Rollback, RollbackNothing, RollbackSecondary, RollbackStop,
        RollbackPromoted, Finish, FinishFails, Interrupted, OperatorActs, Return
  <2>2. QED  BY <2>1, LeavingKeeps
<1>5. QED  BY <1>1, <1>2, <1>3, <1>4

(* Metadata may arrive at any moment; on the new host it is the primary's. *)
LEMMA CatchUpKeeps ==
    ASSUME MigrateInv, OMs', NEW h \in Hosts, CatchUp(h)
    PROVE  MigrateInv'
<1>0. Hosts = {Cur, New} /\ New # Cur
  BY DEF Hosts, New, Cur
<1>1. PICK p \in Hosts \ {h} : om' = [om EXCEPT ![h].copy = om[p].copy]
  BY DEF CatchUp
<1>2. UNCHANGED <<part, at, flags, synced, already>> /\ CanCatchUp(h)
  BY DEF CatchUp, results
<1>3. NewIsUpToDate => NewIsUpToDate'
  <2>1. CASE h = New
    BY <1>0, <1>1, <2>1 DEF NewIsUpToDate, MigrateInv, OMs
  <2>2. CASE h = Cur
    <3>1. om[New].role = "primary"
      BY <1>0, <1>2, <2>2 DEF CanCatchUp, RunningPrimary
    <3>2. om'[New] = om[New]
      BY <1>0, <1>1, <2>2 DEF MigrateInv, OMs
    <3>3. QED  BY <3>1, <3>2 DEF NewIsUpToDate
  <2>3. QED  BY <1>0, <2>1, <2>2
<1>4. RunningPrimary(New) => RunningPrimary(New)'
  BY <1>0, <1>1 DEF RunningPrimary, MigrateInv, OMs
<1>5. Placed'
  BY <1>2 DEF MigrateInv, Placed, Applying
<1>6. SyncHolds'
  BY <1>2, <1>3, <1>4 DEF MigrateInv, SyncHolds
<1>7. QED  BY <1>5, <1>6 DEF MigrateInv

LEMMA NextMigrates == MigrateInv /\ [Next]_vars => MigrateInv'
<1> SUFFICES ASSUME MigrateInv, [Next]_vars
             PROVE  MigrateInv'
  OBVIOUS
<1>1. om' \in [Hosts -> [role : Roles, up : BOOLEAN, copy : Nat]]
  BY StepsAreSmall, OMsStayTyped DEF MigrateInv
<1>2. OMs'
  <2>1. flags' \in [precheck : BOOLEAN, dryRun : BOOLEAN]
    BY FlagsStayTyped
  <2>2. already' \in BOOLEAN /\ synced' \in BOOLEAN
    BY ResultsStayTyped
  <2>3. QED  BY <1>1, <2>1, <2>2 DEF OMs
<1>3. CASE Finished \/ UNCHANGED vars
  BY <1>2, <1>3
  DEF Finished, vars, cluster, results, MigrateInv, Placed, SyncHolds, NewIsUpToDate, Applying,
      RunningPrimary
<1>4. CASE PreChecks
  BY <1>2, <1>4, PreChecksKeep
<1>5. CASE Actions
  BY <1>2, <1>5, SecondaryKeeps, StopAndPromoteKeep, OtherActionsKeep DEF Actions
<1>6. CASE \E h \in Hosts : CatchUp(h)
  BY <1>2, <1>6, CatchUpKeeps
<1>7. QED  BY <1>2, <1>3, <1>4, <1>5, <1>6, AroundTheStepsKeep DEF Next

LEMMA MigrateInvariant == Spec => []MigrateInv
BY InitMigrates, NextMigrates, PTL DEF Spec

(* No migration makes the new host the primary without all the metadata    *)
(* there is: O-006 promotes only after O-004 has seen it synchronised in   *)
(* the same run, and nothing in between can take that away.                *)
THEOREM PromotionIsSafe == Spec => PromotionLosesNothing
<1>1. MigrateInv /\ [Next]_vars =>
        [om[New].role # "primary" /\ om'[New].role = "primary" => om[New].copy = Newest]_vars
  <2> SUFFICES ASSUME MigrateInv, [Next]_vars, om[New].role # "primary", om'[New].role = "primary"
               PROVE  om[New].copy = Newest
    OBVIOUS
  <2>0. New \in Hosts /\ Cur \in Hosts /\ OMs
    BY DEF Hosts, MigrateInv
  <2>1. ASSUME NEW h \in Hosts, Small(h)
        PROVE  FALSE
    <3>1. om'[New].role \in {om[New].role, "none", "secondary"}
      BY <2>0, <2>1 DEF Small, Gentle, Clean, RecoverSecondary, Stop, StartAgain, NoOM, OMs
    <3>2. QED  BY <3>1
  <2>2. Promoted
    BY <2>1, StepsAreSmall
  <2>3. synced /\ part = "act" /\ at = "promote"
    BY <2>2 DEF Promoted, MigrateInv, SyncHolds
  <2>4. om[Cur].copy <= om[New].copy
    BY <2>3 DEF MigrateInv, SyncHolds, InStep, NewIsUpToDate
  <2>5. om[Cur].copy \in Nat /\ om[New].copy \in Nat
    BY <2>0 DEF OMs
  <2>6. QED  BY <2>4, <2>5 DEF Newest
<1>2. QED  BY <1>1, MigrateInvariant, PTL DEF Spec, PromotionLosesNothing

-----------------------------------------------------------------------------
(* Where the newest metadata is.  A secondary has no newer copy than the   *)
(* primary, and of two primaries the new host's is the newer: only the new *)
(* host is ever promoted.                                                  *)
Copies ==
    /\ \A h \in Hosts : om[h].role = "none" => om[h].copy = 0
    /\ om[New].role = "primary" => om[Cur].copy <= om[New].copy
    /\ om[New].role = "secondary" /\ om[Cur].role = "primary" => om[New].copy <= om[Cur].copy

LEMMA TwoHosts == Hosts = {Cur, New} /\ Cur # New /\ Cur \in Hosts /\ New \in Hosts
BY DEF Hosts, Cur, New

LEMMA OMTyped ==
    ASSUME OMs, NEW h \in Hosts
    PROVE  /\ om[h] \in [role : Roles, up : BOOLEAN, copy : Nat]
           /\ om[h].role \in Roles /\ om[h].up \in BOOLEAN /\ om[h].copy \in Nat
           /\ DOMAIN om = Hosts
BY DEF OMs

(* What becomes of the two copies and roles in each case.                  *)
LEMMA CleanedOM ==
    ASSUME OMs, NEW h \in Hosts, Clean(h)
    PROVE  /\ om'[h].role = "none" /\ om'[h].copy = 0
           /\ \A g \in Hosts \ {h} : om'[g] = om[g]
BY OMTyped DEF Clean, NoOM, OMs

LEMMA GentleOM ==
    ASSUME OMs, Copies, NEW h \in Hosts, Gentle(h)
    PROVE  /\ \A g \in Hosts \ {h} : om'[g] = om[g]
           /\ \/ om[h].role = "none" /\ om[h].copy = 0 /\ om'[h].role = "secondary" /\ om'[h].copy = 0
              \/ om'[h].role = om[h].role /\ om'[h].copy = om[h].copy
              \/ /\ om'[h].role = om[h].role /\ om[h].role = "secondary" /\ om'[h].up = om[h].up
                 /\ \E p \in Hosts \ {h} : om[p].role = "primary" /\ om'[h].copy = om[p].copy
<1>0. om[h] \in [role : Roles, up : BOOLEAN, copy : Nat]
  BY OMTyped
<1>1. CASE om[h].role = "none" /\ RecoverSecondary(h)
  BY <1>1 DEF RecoverSecondary, OMs, Copies
<1>2. CASE Stop(h)
  BY <1>0, <1>2 DEF Stop, OMs
<1>3. CASE StartAgain(h)
  BY <1>0, <1>3 DEF StartAgain, OMs
<1>4. CASE CanCatchUp(h) /\ \E p \in Hosts \ {h} : om' = [om EXCEPT ![h].copy = om[p].copy]
  <2>1. PICK p \in Hosts \ {h} : om' = [om EXCEPT ![h].copy = om[p].copy]
    BY <1>4
  <2>2. om[h].role = "secondary" /\ om[p].role = "primary"
    BY <1>4, <2>1, TwoHosts DEF CanCatchUp, IsSecondary, RunningPrimary
  <2>3. om'[h].role = om[h].role /\ om'[h].copy = om[p].copy /\ om'[h].up = om[h].up
    BY <1>0, <2>1 DEF OMs
  <2>4. \A g \in Hosts \ {h} : om'[g] = om[g]
    BY <2>1 DEF OMs
  <2>5. QED  BY <2>2, <2>3, <2>4
<1>5. QED  BY <1>1, <1>2, <1>3, <1>4 DEF Gentle

LEMMA PromotedOM ==
    ASSUME MigrateInv, Promoted
    PROVE  /\ om'[New].role = "primary" /\ om'[New].copy = om[New].copy + 1 /\ om'[Cur] = om[Cur]
           /\ om[New].role = "primary" \/ om[Cur].copy <= om[New].copy
<1>1. om[New] \in [role : Roles, up : BOOLEAN, copy : Nat] /\ OMs
  BY OMTyped, TwoHosts DEF MigrateInv
<1>2. om'[New].role = "primary" /\ om'[New].copy = om[New].copy + 1 /\ om'[Cur] = om[Cur]
  BY <1>1, TwoHosts DEF Promoted, Promote, OMs
<1>3. om[New].role = "primary" \/ om[Cur].copy <= om[New].copy
  BY DEF Promoted, MigrateInv, SyncHolds, InStep, NewIsUpToDate
<1>4. QED  BY <1>2, <1>3

LEMMA CopiesKept ==
    ASSUME MigrateInv, Copies, [Next]_vars
    PROVE  Copies'
<1>0. /\ OMs /\ om[Cur].copy \in Nat /\ om[New].copy \in Nat
      /\ Hosts = {Cur, New} /\ Cur # New
  BY OMTyped, TwoHosts DEF MigrateInv
<1>1. CASE om' = om
  BY <1>1 DEF Copies
<1>2. ASSUME NEW h \in Hosts, Gentle(h)
      PROVE  Copies'
  <2>1. CASE h = Cur
    BY <1>0, <1>2, <2>1, GentleOM DEF Copies
  <2>2. CASE h = New
    BY <1>0, <1>2, <2>2, GentleOM DEF Copies
  <2>3. QED  BY <1>0, <2>1, <2>2
<1>3. ASSUME NEW h \in Hosts, Clean(h)
      PROVE  Copies'
  <2>1. om'[h].role = "none" /\ om'[h].copy = 0 /\ \A g \in Hosts \ {h} : om'[g] = om[g]
    BY <1>0, <1>3, CleanedOM
  <2>2. QED  BY <1>0, <2>1 DEF Copies
<1>4. CASE Promoted
  BY <1>0, <1>4, PromotedOM DEF Copies
<1>5. QED  BY <1>0, <1>1, <1>2, <1>3, <1>4, StepsOnOMs DEF Cleans

(* Only a clean can cost metadata. *)
LEMMA GentleKeepsNewest ==
    ASSUME MigrateInv, Copies, om' = om \/ (\E h \in Hosts : Gentle(h)) \/ Promoted
    PROVE  Newest' >= Newest
<1>0. /\ OMs /\ om[Cur].copy \in Nat /\ om[New].copy \in Nat
      /\ Hosts = {Cur, New} /\ Cur # New
  BY OMTyped, TwoHosts DEF MigrateInv
<1>1. CASE om' = om
  BY <1>0, <1>1 DEF Newest
<1>2. ASSUME NEW h \in Hosts, Gentle(h)
      PROVE  om'[Cur].copy >= om[Cur].copy /\ om'[New].copy >= om[New].copy
  <2>1. CASE h = Cur
    BY <1>0, <1>2, <2>1, GentleOM DEF Copies
  <2>2. CASE h = New
    BY <1>0, <1>2, <2>2, GentleOM DEF Copies
  <2>3. QED  BY <1>0, <2>1, <2>2
<1>3. ASSUME NEW h \in Hosts, Gentle(h)
      PROVE  Newest' >= Newest
  <2>1. om'[Cur].copy \in Nat /\ om'[New].copy \in Nat
    BY <1>0, <1>3, GentleOM
  <2>2. QED  BY <1>0, <1>2, <1>3, <2>1 DEF Newest
<1>4. CASE Promoted
  BY <1>0, <1>4, PromotedOM DEF Newest
<1>5. QED  BY <1>1, <1>3, <1>4

LEMMA CleanOfOlder ==
    ASSUME OMs, NEW h \in Hosts, NEW g \in Hosts \ {h}, Clean(h), om[h].copy <= om[g].copy
    PROVE  Newest' >= Newest
<1>1. om'[h].copy = 0 /\ om'[g] = om[g] /\ om[h].copy \in Nat /\ om[g].copy \in Nat
  BY CleanedOM, OMTyped
<1>2. (h = Cur /\ g = New) \/ (h = New /\ g = Cur)
  BY TwoHosts
<1>3. QED  BY <1>1, <1>2 DEF Newest

-----------------------------------------------------------------------------
(* The way of a run through its list.  Steps that ask for the gate's       *)
(* verdict are skipped once the move is done.                              *)
AsksDone == {"prepare", "add", "secondary", "stop", "promote", "old"}
Before == {"prepare", "add", "secondary", "stop", "promote"}

Listing ==
    /\ part = "os" => lastOK = "none"
    /\ part = "rollback" => ~flags.precheck
    /\ part \in InStep => at \in listed
    /\ synced /\ part \in InStep => "secondary" \in listed
    /\ part \in InStep \ {"pre"} /\ at \in AsksDone => ~already

(* What the steps behind the run have seen still holds. *)
GatePassed ==
    "gate" \in listed /\ part \in InStep /\ at \in Before /\ Applying /\ ~already
        => om[Cur].role = "primary"
StopPassed ==
    StopsFirst /\ part \in {"pre", "act"} /\ at = "promote" /\ Applying /\ synced /\ ~already
        => ~RunningPrimary(Cur)
SyncPassed ==
    /\ part = "act" /\ at = "sync" => om[New].role = "primary"
    /\ "sync" \in listed /\ part \in InStep /\ at \in {"toml", "old"} => om[New].role = "primary"
SecondaryStands ==
    Applying /\ StopsFirst /\ "gate" \in listed /\ lastOK = "secondary" /\ part \in InStep \cup {"rollback"}
        => /\ at = "stop" /\ (part = "rollback" => ~already)
           /\ ~already => om[Cur].role = "primary" /\ om[New].role = "secondary"

Trail == Listing /\ GatePassed /\ StopPassed /\ SyncPassed /\ SecondaryStands

(* Where the loop goes from a step: to a listed one, and past none.        *)
LEMMA AdvanceFacts ==
    ASSUME NEW s \in listed \cup {"none"}, listed \subseteq Steps, Advance(s), part' = "pre"
    PROVE  /\ at' \in listed
           /\ at' \in Before => s \in Before \cup {"gate", "none"}
           /\ at' \in Before /\ "gate" \in listed => s # "none"
           /\ at' = "promote" /\ "stop" \in listed => s = "stop"
           /\ at' \in {"toml", "old"} /\ "sync" \in listed => s \in {"sync", "toml"}
           /\ s = "secondary" /\ StopsFirst => at' = "stop"
<1>1. ListedAfter(s) # {}
  BY DEF Advance
<1>2. ListedAfter(s) \subseteq Nat
  BY OrderIs DEF ListedAfter
<1>3. \E k \in ListedAfter(s) : \A j \in ListedAfter(s) : k <= j
  <2>1. PICK i \in ListedAfter(s) : \A j \in ListedAfter(s) : <<j, i>> \notin OpToRel(<, Nat)
    BY <1>1, <1>2, NatLessThanWellFounded, WFMin, Zenon
  <2>2. \A j \in ListedAfter(s) : ~(j < i)
    BY <1>2, <2>1, Zenon DEF OpToRel
  <2>3. QED  BY <1>2, <2>2
<1>4. PICK k \in ListedAfter(s) : at' = Order[k] /\ \A j \in ListedAfter(s) : k <= j
  BY <1>1, <1>3 DEF Advance
<1>5. /\ k \in 1..10 /\ at' \in listed
      /\ \A j \in 1..10 : Order[j] = s => k > j
      /\ \A i \in 1..10 : Order[i] \in listed /\ (\A j \in 1..10 : Order[j] = s => i > j) => k <= i
  BY <1>4, OrderIs DEF ListedAfter
<1>6. s \in {"none", "gate", "prepare", "add", "secondary", "stop", "promote", "sync", "toml", "old", "switch"}
  BY OrderIs
<1>7. at' \in Before => k \in 2..6
  BY <1>4, <1>5, OrderIs DEF Before
<1>8. at' \in Before => s \in Before \cup {"gate", "none"}
  <2>1. s \in {"sync", "toml", "old", "switch"} => k > 7
    BY <1>5, OrderIs
  <2>2. s = "promote" => k > 6
    BY <1>5, OrderIs
  <2>3. QED  BY <1>6, <1>7, <2>1, <2>2 DEF Before
<1>9. at' \in Before /\ "gate" \in listed => s # "none"
  <2>1. s = "none" /\ "gate" \in listed => k <= 1
    BY <1>5, OrderIs
  <2>2. QED  BY <1>7, <2>1
<1>10. at' = "promote" /\ "stop" \in listed => s = "stop"
  <2>1. ASSUME at' = "promote"
        PROVE  k = 6
    <3>1. k \in {2, 3, 4, 5, 6}
      BY <1>7, <2>1 DEF Before
    <3>2. QED  BY <1>4, <2>1, <3>1, OrderIs
  <2>2. "stop" \in listed /\ s \in {"none", "gate", "prepare", "add", "secondary"} => k <= 5
    BY <1>5, OrderIs
  <2>3. s \in {"promote", "sync", "toml", "old", "switch"} => k > 6
    BY <1>5, OrderIs
  <2>4. QED  BY <1>6, <2>1, <2>2, <2>3
<1>11. at' \in {"toml", "old"} /\ "sync" \in listed => s \in {"sync", "toml"}
  <2>1. at' \in {"toml", "old"} => k \in 8..9
    BY <1>4, <1>5, OrderIs
  <2>2. "sync" \in listed /\ s \in {"none", "gate", "prepare", "add", "secondary", "stop", "promote"} => k <= 7
    BY <1>5, OrderIs
  <2>3. s \in {"old", "switch"} => k > 9
    BY <1>5, OrderIs
  <2>4. QED  BY <1>6, <2>1, <2>2, <2>3
<1>12. s = "secondary" /\ StopsFirst => at' = "stop"
  <2>1. SUFFICES ASSUME s = "secondary", StopsFirst
                 PROVE  at' = "stop"
    OBVIOUS
  <2>2. k \in 5..10
    BY <1>5, <2>1, OrderIs
  <2>3. k = 5 \/ at' \in {"promote", "sync", "toml", "old", "switch"}
    BY <1>4, <2>2, OrderIs
  <2>4. "stop" \in listed
    BY <1>4, <1>5, <2>1, <2>3, OrderIs DEF StopsFirst
  <2>5. k <= 5
    BY <1>5, <2>1, <2>4, OrderIs
  <2>6. QED  BY <1>4, <2>2, <2>5, OrderIs
<1>13. QED  BY <1>5, <1>8, <1>9, <1>10, <1>11, <1>12

(* How a step can leave the trail. *)

LEMMA LeavingKeepsTrail ==
    ASSUME part' \in {"idle", "os", "end"}, part' = "os" => lastOK' = "none"
    PROVE  Trail'
BY DEF Trail, Listing, GatePassed, StopPassed, SyncPassed, SecondaryStands, InStep

LEMMA FailKeepsTrail ==
    ASSUME Trail, part \in InStep, Fail, UNCHANGED <<flags, listed, already>>,
           at = "stop" => ~already /\ \A h \in Hosts : om'[h].role = om[h].role
    PROVE  Trail'
<1>1. part' \in {"idle", "rollback"} /\ UNCHANGED <<at, lastOK>>
  BY DEF Fail, Return
<1>2. SecondaryStands'
  BY <1>1, TwoHosts DEF Trail, SecondaryStands, Applying, StopsFirst, InStep
<1>3. Listing'
  <2>1. part' = "rollback" => ~flags'.precheck
    BY DEF Fail, Return
  <2>2. QED  BY <1>1, <2>1 DEF Trail, Listing, InStep
<1>4. QED  BY <1>1, <1>2, <1>3 DEF Trail, GatePassed, StopPassed, SyncPassed, InStep

LEMMA SucceedKeepsTrail ==
    ASSUME Trail, listed \subseteq Steps, part \in InStep, Succeed, UNCHANGED <<flags, listed, synced>>,
           om' = om \/ at = "old",
           already' = already \/ at = "gate",
           at = "gate" /\ Applying => already' \/ om[Cur].role = "primary",
           at = "stop" /\ Applying /\ ~already => ~RunningPrimary(Cur),
           at = "sync" => om[New].role = "primary",
           at = "secondary" /\ Applying /\ ~already => om[New].role = "secondary",
           at = "old" => om'[New] = om[New]
    PROVE  Trail'
<1>0. Advance(at) /\ lastOK' = at /\ at \in listed
  BY DEF Succeed, Trail, Listing
<1>1. CASE part' = "end"
  BY <1>1, LeavingKeepsTrail
<1>2. CASE part' = "pre"
  <2>1. /\ at' \in listed
        /\ at' \in Before => at \in Before \cup {"gate"}
        /\ at' = "promote" /\ "stop" \in listed => at = "stop"
        /\ at' \in {"toml", "old"} /\ "sync" \in listed => at \in {"sync", "toml"}
        /\ at = "secondary" /\ StopsFirst => at' = "stop"
    <3>1. at \in listed \cup {"none"} /\ at # "none"
      BY <1>0, OrderIs
    <3>2. QED  BY <1>0, <1>2, <3>1, AdvanceFacts
  <2>2. Applying' <=> Applying
    BY DEF Applying
  <2>3. Listing'
    BY <1>2, <2>1 DEF Listing, Trail, InStep
  <2>4. GatePassed'
    <3>1. SUFFICES ASSUME "gate" \in listed, at' \in Before, Applying, ~already'
                   PROVE  om'[Cur].role = "primary"
      BY <2>2 DEF GatePassed
    <3>2. om' = om
      BY <2>1, <3>1 DEF Before
    <3>3. CASE at = "gate"
      BY <3>1, <3>2, <3>3
    <3>4. CASE at \in Before
      <4>1. already' = already
        BY <3>4 DEF Before
      <4>2. QED  BY <3>1, <3>2, <3>4, <4>1 DEF Trail, GatePassed
    <3>5. QED  BY <2>1, <3>1, <3>3, <3>4
  <2>5. StopPassed'
    <3>1. SUFFICES ASSUME StopsFirst, at' = "promote", Applying, synced, ~already'
                   PROVE  ~RunningPrimary(Cur)'
      BY <2>2 DEF StopPassed, StopsFirst
    <3>2. "secondary" \in listed
      BY <3>1 DEF Trail, Listing
    <3>3. "stop" \in listed
      BY <2>1, <3>1, <3>2 DEF StopsFirst
    <3>4. at = "stop"
      BY <2>1, <3>1, <3>3
    <3>5. QED  BY <3>1, <3>4 DEF RunningPrimary
  <2>6. SyncPassed'
    <3>1. SUFFICES ASSUME "sync" \in listed, at' \in {"toml", "old"}
                   PROVE  om'[New].role = "primary"
      BY <1>2 DEF SyncPassed
    <3>2. at \in {"sync", "toml"} /\ om' = om
      BY <2>1, <3>1
    <3>3. QED  BY <3>1, <3>2 DEF Trail, SyncPassed
  <2>7. SecondaryStands'
    <3>1. SUFFICES ASSUME Applying, StopsFirst, "gate" \in listed, at = "secondary"
                   PROVE  at' = "stop" /\ (~already' => om'[Cur].role = "primary" /\ om'[New].role = "secondary")
      BY <1>0, <1>2, <2>2 DEF SecondaryStands, StopsFirst
    <3>2. om' = om /\ already' = already
      BY <3>1
    <3>3. ~already => om[Cur].role = "primary"
      BY <3>1 DEF Trail, GatePassed, Before
    <3>4. QED  BY <2>1, <3>1, <3>2, <3>3
  <2>8. QED  BY <2>3, <2>4, <2>5, <2>6, <2>7 DEF Trail
<1>3. QED  BY <1>0, <1>1, <1>2 DEF Advance

(* A PreCheck that lets the step through. *)
LEMMA PassKeepsTrail ==
    ASSUME Trail, listed \subseteq Steps, part = "pre", Pass,
           UNCHANGED <<om, flags, listed, already, synced>>,
           at \in AsksDone => ~already,
           at = "sync" => om[New].role = "primary"
    PROVE  Trail'
<1>1. CASE ~Applying
  BY <1>1, SucceedKeepsTrail DEF Pass, InStep
<1>2. CASE Applying
  <2>1. part' = "act" /\ UNCHANGED <<at, lastOK>> /\ Applying'
    BY <1>2 DEF Pass, Continue, Applying
  <2>2. Listing' /\ GatePassed' /\ SyncPassed'
    BY <2>1 DEF Trail, Listing, GatePassed, SyncPassed, InStep, Applying
  <2>3. StopPassed' /\ SecondaryStands'
    BY <2>1 DEF Trail, StopPassed, SecondaryStands, InStep, Applying, StopsFirst, RunningPrimary
  <2>4. QED  BY <2>2, <2>3 DEF Trail
<1>3. QED  BY <1>1, <1>2

(* A step that goes on within its Action or to its PostCheck. *)
LEMMA ContinueKeepsTrail ==
    ASSUME Trail, part \in InStep \ {"pre"}, NEW where, Continue(where),
           UNCHANGED <<flags, listed, already>>,
           where \in {"recover", "wait", "post"},
           synced' => synced \/ at = "secondary",
           at \in Before => om'[Cur].role = om[Cur].role,
           at \in {"toml", "old", "stop"} => om'[New].role = om[New].role
    PROVE  Trail'
<1>1. part' = where /\ UNCHANGED <<at, lastOK>> /\ (Applying' <=> Applying)
  BY DEF Continue, Applying
<1>2. Listing' /\ SyncPassed' /\ StopPassed'
  BY <1>1 DEF Trail, Listing, SyncPassed, StopPassed, InStep
<1>3. GatePassed'
  BY <1>1 DEF Trail, GatePassed, InStep
<1>4. SecondaryStands'
  BY <1>1 DEF Trail, SecondaryStands, StopsFirst, InStep, Before
<1>5. QED  BY <1>2, <1>3, <1>4 DEF Trail

LEMMA PreChecksKeepTrail ==
    ASSUME Trail, listed \subseteq Steps, PreChecks
    PROVE  Trail'
<1>1. part = "pre" /\ UNCHANGED <<om, flags, listed, already, synced>>
  BY DEF PreChecks, PreGate, PreAlreadyDone, PrePrepare, PreAdd, PreSecondary, PreStop,
         PreStopTimesOut, PrePromote, PreSync, PreToml, PreCheckDisturbed, Known, cluster, results
<1>2. \/ Fail /\ (at = "stop" => ~already)
      \/ Succeed /\ at \in AsksDone /\ (already \/ at \in {"prepare", "add"})
      \/ Pass /\ (at \in AsksDone => ~already) /\ (at = "sync" => om[New].role = "primary")
  BY DEF PreChecks, PreGate, PreAlreadyDone, PrePrepare, PreAdd, PreSecondary, PreStop,
         PreStopTimesOut, PrePromote, PreSync, PreToml, PreCheckDisturbed, AsksDone
<1>3. CASE Fail /\ (at = "stop" => ~already)
  BY <1>1, <1>3, FailKeepsTrail DEF InStep
<1>4. CASE Succeed /\ at \in AsksDone /\ (already \/ at \in {"prepare", "add"})
  <2>1. at \notin {"gate", "sync"} /\ (at \in {"stop", "secondary"} => already)
    BY <1>4 DEF AsksDone
  <2>2. QED  BY <1>1, <1>4, <2>1, SucceedKeepsTrail DEF InStep
<1>5. CASE Pass /\ (at \in AsksDone => ~already) /\ (at = "sync" => om[New].role = "primary")
  BY <1>1, <1>5, PassKeepsTrail
<1>6. QED  BY <1>2, <1>3, <1>4, <1>5

(* Cleaning or recovering the new host leaves the current one alone.       *)
LEMMA OnlyOne ==
    ASSUME OMs, NEW h \in Hosts,
           \/ om' = om \/ Clean(h) \/ RecoverSecondary(h) \/ Stop(h) \/ StartAgain(h) \/ Promote(h)
    PROVE  \A g \in Hosts \ {h} : om'[g] = om[g]
BY DEF OMs, Clean, RecoverSecondary, Stop, StartAgain, Promote

LEMMA SecondaryKeepsTrail ==
    ASSUME MigrateInv, Trail, listed \subseteq Steps, UNCHANGED <<flags, listed>>,
           EnsureSynced \/ EnsureRefuses \/ EnsureClean \/ EnsureBlindly \/ EnsureRecover
             \/ EnsureCleanAgain \/ EnsureWait \/ SecondaryDone \/ WaitTimesOut
    PROVE  Trail'
<1>0. at = "secondary" /\ part \in InStep \ {"pre"} /\ already' = already /\ OMs
  BY DEF EnsureSynced, EnsureRefuses, EnsureClean, EnsureBlindly, EnsureRecover, EnsureCleanAgain,
         EnsureWait, SecondaryDone, WaitTimesOut, Known, results, InStep, MigrateInv
<1>1. CASE EnsureSynced \/ EnsureWait \/ EnsureClean \/ EnsureBlindly \/ EnsureRecover \/ EnsureCleanAgain
  <2>1. om' = om \/ Clean(New) \/ RecoverSecondary(New)
    BY <1>1 DEF EnsureSynced, EnsureWait, EnsureClean, EnsureBlindly, EnsureRecover, EnsureCleanAgain,
                Known, cluster
  <2>2. om'[Cur] = om[Cur]
    BY <1>0, <2>1, OnlyOne, TwoHosts
  <2>3. \E where \in {"recover", "wait", "post"} : Continue(where)
    BY <1>1 DEF EnsureSynced, EnsureWait, EnsureClean, EnsureBlindly, EnsureRecover, EnsureCleanAgain
  <2>4. QED  BY <1>0, <2>2, <2>3, ContinueKeepsTrail
<1>2. CASE SecondaryDone
  <2>1. Succeed /\ om' = om /\ synced' = synced /\ om[New].role = "secondary"
    BY <1>2 DEF SecondaryDone, SecondarySynced, IsSecondary, Known, cluster, results
  <2>2. QED  BY <1>0, <2>1, SucceedKeepsTrail
<1>3. CASE EnsureRefuses \/ WaitTimesOut
  <2>1. Fail
    BY <1>3 DEF EnsureRefuses, WaitTimesOut
  <2>2. QED  BY <1>0, <2>1, FailKeepsTrail
<1>4. QED  BY <1>1, <1>2, <1>3

LEMMA StopAndPromoteKeepTrail ==
    ASSUME MigrateInv, Trail, listed \subseteq Steps, UNCHANGED <<flags, listed>>,
           StopPrimary \/ StopDone \/ RecoverPrimary \/ PromoteDone
    PROVE  Trail'
<1>0. part \in InStep \ {"pre"} /\ UNCHANGED <<already, synced>> /\ OMs
  BY DEF StopPrimary, StopDone, RecoverPrimary, PromoteDone, Known, results, InStep, MigrateInv
<1>1. CASE StopPrimary
  <2>1. at = "stop" /\ Continue("post") /\ (om' = om \/ Stop(Cur))
    BY <1>1 DEF StopPrimary
  <2>2. om'[Cur].role = om[Cur].role /\ om'[New] = om[New]
    <3>1. om[Cur] \in [role : Roles, up : BOOLEAN, copy : Nat]
      BY <1>0, OMTyped, TwoHosts
    <3>2. QED  BY <1>0, <2>1, <3>1, TwoHosts DEF Stop, OMs
  <2>3. QED  BY <1>0, <2>1, <2>2, ContinueKeepsTrail
<1>2. CASE RecoverPrimary
  <2>1. at = "promote" /\ Continue("post") /\ (om' = om \/ Promote(New))
    BY <1>2 DEF RecoverPrimary
  <2>2. om'[Cur] = om[Cur]
    BY <1>0, <2>1, OnlyOne, TwoHosts
  <2>3. QED  BY <1>0, <2>1, <2>2, ContinueKeepsTrail
<1>3. CASE StopDone
  <2>1. at = "stop" /\ om' = om /\ (Fail \/ (Succeed /\ ~RunningPrimary(Cur)))
    BY <1>3 DEF StopDone, Known, cluster
  <2>2. ~already
    BY <1>0, <2>1 DEF Trail, Listing, AsksDone
  <2>3. QED  BY <1>0, <2>1, <2>2, FailKeepsTrail, SucceedKeepsTrail
<1>4. CASE PromoteDone
  <2>1. at = "promote" /\ om' = om /\ (Fail \/ Succeed)
    BY <1>4 DEF PromoteDone, Known, cluster
  <2>2. QED  BY <1>0, <2>1, FailKeepsTrail, SucceedKeepsTrail
<1>5. QED  BY <1>1, <1>2, <1>3, <1>4

LEMMA OtherActionsKeepTrail ==
    ASSUME MigrateInv, Trail, listed \subseteq Steps, UNCHANGED <<flags, listed>>,
           Gate \/ NoClusterChange \/ HostAdd \/ Sync \/ UpdateHostsToml \/ OldClean \/ OldRecover
             \/ CommandFails
    PROVE  Trail'
<1>0. part \in InStep \ {"pre"} /\ synced' = synced /\ OMs
  BY DEF Gate, NoClusterChange, HostAdd, Sync, UpdateHostsToml, OldClean, OldRecover, CommandFails,
         Known, results, InStep, MigrateInv
<1>1. CASE Gate
  <2>1. CASE Fail /\ already' = already
    <3>1. at # "stop"
      BY <1>1 DEF Gate
    <3>2. QED  BY <1>0, <2>1, <3>1, FailKeepsTrail
  <2>2. CASE Succeed /\ (AlreadyDone \/ Proceed) /\ already' = AlreadyDone
    <3>1. at = "gate" /\ om' = om
      BY <1>1 DEF Gate, Known, cluster
    <3>2. already' \/ om[Cur].role = "primary"
      BY <2>2 DEF Proceed
    <3>3. QED  BY <1>0, <2>2, <3>1, <3>2, SucceedKeepsTrail
  <2>3. QED  BY <1>1, <2>1, <2>2 DEF Gate
<1>2. CASE NoClusterChange \/ HostAdd
  <2>1. Succeed /\ om' = om /\ already' = already /\ at \in {"prepare", "switch", "add"}
    BY <1>2 DEF NoClusterChange, HostAdd, Known, cluster, results
  <2>2. QED  BY <1>0, <2>1, SucceedKeepsTrail
<1>3. CASE Sync
  <2>1. Succeed /\ om' = om /\ already' = already /\ at = "sync" /\ part = "act"
    BY <1>3 DEF Sync, results
  <2>2. om[New].role = "primary"
    BY <2>1 DEF Trail, SyncPassed
  <2>3. QED  BY <1>0, <2>1, <2>2, SucceedKeepsTrail
<1>4. CASE UpdateHostsToml
  <2>1. (Succeed \/ Fail) /\ om' = om /\ already' = already /\ at = "toml"
    BY <1>4 DEF UpdateHostsToml, results
  <2>2. QED  BY <1>0, <2>1, SucceedKeepsTrail, FailKeepsTrail
<1>5. CASE OldClean
  <2>1. Continue("recover") /\ at = "old" /\ already' = already /\ (om' = om \/ Clean(Cur))
    BY <1>5 DEF OldClean, results
  <2>2. om'[New] = om[New]
    BY <1>0, <2>1, OnlyOne, TwoHosts
  <2>3. QED  BY <1>0, <2>1, <2>2, ContinueKeepsTrail DEF Before
<1>6. CASE OldRecover
  <2>1. Succeed /\ at = "old" /\ already' = already /\ (om' = om \/ RecoverSecondary(Cur))
    BY <1>6 DEF OldRecover, results
  <2>2. om'[New] = om[New]
    BY <1>0, <2>1, OnlyOne, TwoHosts
  <2>3. QED  BY <1>0, <2>1, <2>2, SucceedKeepsTrail
<1>7. CASE CommandFails
  <2>1. Fail /\ already' = already
    BY <1>7 DEF CommandFails, results
  <2>2. ASSUME at = "stop"
        PROVE  ~already /\ \A h \in Hosts : om'[h].role = om[h].role
    <3>1. part = "act" /\ (om' = om \/ Stop(Cur))
      BY <1>7, <2>2 DEF CommandFails
    <3>2. ~already
      BY <2>2, <3>1 DEF Trail, Listing, AsksDone, InStep
    <3>3. om[Cur] \in [role : Roles, up : BOOLEAN, copy : Nat]
      BY <1>0, OMTyped, TwoHosts
    <3>4. om'[Cur].role = om[Cur].role /\ om'[New] = om[New]
      BY <1>0, <3>1, <3>3, TwoHosts DEF Stop, OMs
    <3>5. QED  BY <3>2, <3>4, TwoHosts
  <2>3. QED  BY <1>0, <2>1, <2>2, FailKeepsTrail
<1>8. QED  BY <1>1, <1>2, <1>3, <1>4, <1>5, <1>6, <1>7

LEMMA AroundTheStepsKeepTrail ==
    ASSUME MigrateInv, Trail, listed \subseteq Steps,
           Start \/ OSBaseline \/ OSBaselineFails \/ Rollback \/ Finish \/ FinishFails
             \/ Interrupted \/ OperatorActs
    PROVE  Trail'
<1>1. CASE Start
  BY <1>1, LeavingKeepsTrail DEF Start
<1>2. CASE OSBaseline /\ part' = "pre"
  <2>1. Advance("none") /\ ~synced' /\ lastOK' = "none" /\ listed' = listed
    BY <1>2 DEF OSBaseline, Return, results, MigrateInv, Placed, Trail, Listing
  <2>2. /\ at' \in listed
        /\ at' \in Before => "gate" \notin listed
        /\ at' \in {"toml", "old"} => "sync" \notin listed
    BY <1>2, <2>1, AdvanceFacts
  <2>3. QED
    BY <1>2, <2>1, <2>2 DEF Trail, Listing, GatePassed, StopPassed, SyncPassed, SecondaryStands, InStep
<1>3. CASE \/ OSBaseline /\ part' # "pre"
           \/ OSBaselineFails \/ Rollback \/ Finish \/ FinishFails \/ Interrupted \/ OperatorActs
  <2>1. part' \in {"idle", "end"}
    BY <1>3
    DEF OSBaseline, Advance, OSBaselineFails, Rollback, RollbackNothing, RollbackSecondary, RollbackStop,
        RollbackPromoted, Finish, FinishFails, Interrupted, OperatorActs, Return
  <2>2. QED  BY <2>1, LeavingKeepsTrail
<1>4. QED  BY <1>1, <1>2, <1>3

LEMMA StillKeepsTrail ==
    ASSUME MigrateInv, Trail, UNCHANGED <<part, at, lastOK, flags, listed, already, synced>>,
           \A h \in Hosts : om'[h].role = om[h].role /\ om'[h].up = om[h].up
    PROVE  Trail'
<1>1. /\ om'[Cur].role = om[Cur].role /\ om'[New].role = om[New].role
      /\ RunningPrimary(Cur)' <=> RunningPrimary(Cur)
  BY TwoHosts DEF RunningPrimary
<1>2. (Applying' <=> Applying) /\ (StopsFirst' <=> StopsFirst)
  BY DEF Applying, StopsFirst
<1>3. Listing'
  BY DEF Trail, Listing
<1>4. GatePassed' /\ SyncPassed' /\ SecondaryStands'
  BY <1>1, <1>2 DEF Trail, GatePassed, SyncPassed, SecondaryStands
<1>5. StopPassed'
  BY <1>1, <1>2 DEF Trail, StopPassed
<1>6. QED  BY <1>3, <1>4, <1>5 DEF Trail

(* The invariant of the whole. *)
HistoryInv == MigrateInv /\ Copies /\ Trail /\ listed \subseteq Steps

LEMMA NextKeepsHistory == HistoryInv /\ [Next]_vars => HistoryInv'
<1> SUFFICES ASSUME HistoryInv, [Next]_vars
             PROVE  HistoryInv'
  OBVIOUS
<1>1. MigrateInv' /\ Copies'
  BY NextMigrates, CopiesKept DEF HistoryInv
<1>2. listed' \subseteq Steps
  BY LineStays, FiltersAssumption DEF HistoryInv, Start
<1>3. Trail'
  <2>1. MigrateInv /\ Trail /\ listed \subseteq Steps /\ OMs
    BY DEF HistoryInv, MigrateInv
  <2>2. CASE PreChecks
    BY <2>1, <2>2, PreChecksKeepTrail
  <2>3. CASE Actions
    <3>1. ~Start
      <4>1. part # "idle"
        BY <2>3
        DEF Actions, Gate, NoClusterChange, HostAdd, EnsureSynced, EnsureRefuses, EnsureClean,
            EnsureBlindly, EnsureRecover, EnsureCleanAgain, EnsureWait, SecondaryDone, WaitTimesOut,
            StopPrimary, StopDone, RecoverPrimary, PromoteDone, Sync, UpdateHostsToml, OldClean,
            OldRecover, CommandFails
      <4>2. QED  BY <4>1 DEF Start
    <3>2. UNCHANGED <<flags, listed>>
      BY <3>1, LineStays
    <3>3. QED
      BY <2>1, <2>3, <3>2, SecondaryKeepsTrail, StopAndPromoteKeepTrail, OtherActionsKeepTrail DEF Actions
  <2>4. CASE \E h \in Hosts : CatchUp(h)
    <3>1. PICK h \in Hosts : CatchUp(h)
      BY <2>4
    <3>2. PICK p \in Hosts \ {h} : om' = [om EXCEPT ![h].copy = om[p].copy]
      BY <3>1 DEF CatchUp
    <3>3. om[h] \in [role : Roles, up : BOOLEAN, copy : Nat]
      BY <2>1, OMTyped
    <3>4. \A g \in Hosts : om'[g].role = om[g].role /\ om'[g].up = om[g].up
      BY <2>1, <3>2, <3>3 DEF OMs
    <3>5. QED  BY <2>1, <3>1, <3>4, StillKeepsTrail DEF CatchUp, results
  <2>5. CASE Finished \/ UNCHANGED vars
    BY <2>1, <2>5, StillKeepsTrail DEF Finished, vars, cluster, results
  <2>6. QED  BY <2>1, <2>2, <2>3, <2>4, <2>5, AroundTheStepsKeepTrail DEF Next
<1>4. QED  BY <1>1, <1>2, <1>3 DEF HistoryInv

LEMMA InitKeepsHistory == Init => HistoryInv
<1> SUFFICES ASSUME Init
             PROVE  HistoryInv
  OBVIOUS
<1>1. MigrateInv
  BY InitMigrates
<1>2. part = "idle" /\ listed = {}
  BY DEF Init
<1>3. Copies
  <2>1. PICK second \in {"none", "synced"} :
          om = [h \in Hosts |->
                  IF h = Cur THEN [role |-> "primary", up |-> TRUE, copy |-> 1]
                  ELSE IF second = "synced" THEN [role |-> "secondary", up |-> TRUE, copy |-> 1]
                  ELSE NoOM]
    BY DEF Init
  <2>2. om[Cur].copy = 1 /\ om[Cur].role = "primary"
    BY <2>1, TwoHosts
  <2>3. \/ om[New].copy = 1 /\ om[New].role = "secondary"
        \/ om[New].copy = 0 /\ om[New].role = "none"
    BY <2>1, TwoHosts DEF NoOM
  <2>4. QED  BY <2>2, <2>3, TwoHosts DEF Copies
<1>4. Trail
  BY <1>2 DEF Trail, Listing, GatePassed, StopPassed, SyncPassed, SecondaryStands, InStep
<1>5. QED  BY <1>1, <1>2, <1>3, <1>4 DEF HistoryInv

LEMMA HistoryInvariant == Spec => []HistoryInv
BY InitKeepsHistory, NextKeepsHistory, PTL DEF Spec

(* Which copy a step of a guarded run may clean: the new host's only while *)
(* the current one is the primary, the current one's only once the new     *)
(* host is.                                                                *)
LEMMA CleansTheOlder ==
    ASSUME HistoryInv, Cleans, ~flags.dryRun, Guarded, ~PrimaryMetBlindly
    PROVE  Newest' >= Newest
<1>0. OMs /\ Copies /\ Trail /\ om[Cur].copy \in Nat /\ om[New].copy \in Nat
      /\ om[New].role \in Roles
  BY OMTyped, TwoHosts DEF HistoryInv, MigrateInv
<1>1. CASE Clean(New) /\ om[Cur].role = "primary" /\ om[New].role # "primary"
  <2>1. om[New].copy <= om[Cur].copy
    BY <1>0, <1>1, TwoHosts DEF Copies, Roles
  <2>2. QED  BY <1>0, <1>1, <2>1, CleanOfOlder, TwoHosts
<1>2. CASE EnsureClean \/ EnsureCleanAgain
  <2>1. /\ part \in {"act", "recover"} /\ at = "secondary" /\ om[New].role # "primary"
        /\ Clean(New) \/ om' = om
    BY <1>2 DEF EnsureClean, EnsureCleanAgain, PrimaryMetBlindly
  <2>2. Applying /\ ~already
    BY <1>0, <2>1 DEF Trail, Listing, AsksDone, InStep, HistoryInv, MigrateInv, Placed
  <2>3. om[Cur].role = "primary"
    BY <1>0, <2>1, <2>2 DEF Trail, GatePassed, Before, InStep, Guarded
  <2>4. CASE om' = om
    BY <1>0, <2>4 DEF Newest
  <2>5. QED  BY <1>1, <2>1, <2>3, <2>4
<1>3. CASE RollbackSecondary /\ Clean(New)
  <2>1. part = "rollback" /\ lastOK = "secondary"
    BY <1>3 DEF RollbackSecondary
  <2>2. Applying
    BY <1>0, <2>1 DEF Trail, Listing, Applying
  <2>3. om[Cur].role = "primary" /\ om[New].role = "secondary"
    BY <1>0, <2>1, <2>2 DEF Trail, SecondaryStands, Guarded
  <2>4. QED  BY <1>1, <1>3, <2>3
<1>4. CASE OldClean /\ Clean(Cur)
  <2>1. part = "act" /\ at = "old"
    BY <1>4 DEF OldClean
  <2>2. "sync" \in listed
    BY <1>0, <2>1 DEF Trail, Listing, InStep, Guarded
  <2>3. om[New].role = "primary"
    BY <1>0, <2>1, <2>2 DEF Trail, SyncPassed, InStep
  <2>4. om[Cur].copy <= om[New].copy
    BY <1>0, <2>3 DEF Copies
  <2>5. QED  BY <1>0, <1>4, <2>4, CleanOfOlder, TwoHosts
<1>5. QED  BY <1>2, <1>3, <1>4 DEF Cleans

(* The newest metadata is never thrown away, for every step list that      *)
(* keeps the guards and however many runs fail: O-004 and its rollback     *)
(* clean the new host only under a primary on the current one, O-009 the   *)
(* current host only under a primary on the new one.                       *)
THEOREM MetadataIsKept == Spec => MetadataSurvives
<1>1. HistoryInv /\ [Next]_vars =>
        [~flags.dryRun /\ Guarded /\ ~PrimaryMetBlindly => Newest' >= Newest]_vars
  <2> SUFFICES ASSUME HistoryInv, [Next]_vars, ~flags.dryRun, Guarded, ~PrimaryMetBlindly
               PROVE  Newest' >= Newest
    OBVIOUS
  <2>1. CASE om' = om \/ (\E h \in Hosts : Gentle(h)) \/ Promoted
    BY <2>1, GentleKeepsNewest DEF HistoryInv
  <2>2. CASE Cleans
    BY <2>2, CleansTheOlder
  <2>3. QED  BY <2>1, <2>2, StepsOnOMs
<1>2. QED  BY <1>1, HistoryInvariant, PTL DEF Spec, MetadataSurvives

(* Only a start makes a primary run, apart from the promotion; and outside *)
(* of a rollback none is started while another runs.                       *)
LEMMA StartsAreGuarded ==
    ASSUME OMs, om' = om \/ (\E h \in Hosts : Gentle(h)) \/ Cleans,
           NEW g \in Hosts, RunningPrimary(g)', ~RunningPrimary(g)
    PROVE  part = "rollback" \/ \A h \in Hosts \ {g} : ~RunningPrimary(h) /\ ~RunningPrimary(h)'
<1>1. ASSUME NEW h \in Hosts, Clean(h) \/ RecoverSecondary(h)
      PROVE  FALSE
  <2>1. om'[h].role \in {"none", "secondary"} /\ \A k \in Hosts \ {h} : om'[k] = om[k]
    BY <1>1 DEF Clean, RecoverSecondary, NoOM, OMs
  <2>2. QED  BY <2>1 DEF RunningPrimary
<1>2. ASSUME NEW h \in Hosts, Stop(h)
      PROVE  FALSE
  <2>1. om[h] \in [role : Roles, up : BOOLEAN, copy : Nat]
    BY OMTyped
  <2>2. ~om'[h].up /\ \A k \in Hosts \ {h} : om'[k] = om[k]
    BY <1>2, <2>1 DEF Stop, OMs
  <2>3. QED  BY <2>2 DEF RunningPrimary
<1>3. ASSUME NEW h \in Hosts, NEW c \in Hosts, om' = [om EXCEPT ![h].copy = om[c].copy]
      PROVE  FALSE
  <2>1. om[h] \in [role : Roles, up : BOOLEAN, copy : Nat]
    BY OMTyped
  <2>2. \A k \in Hosts : om'[k].role = om[k].role /\ om'[k].up = om[k].up
    BY <1>3, <2>1 DEF OMs
  <2>3. QED  BY <2>2 DEF RunningPrimary
<1>4. ASSUME NEW h \in Hosts, StartAgain(h)
      PROVE  h = g /\ om[g].role = "primary" /\ \A k \in Hosts \ {g} : om'[k] = om[k]
  <2>1. om[h] \in [role : Roles, up : BOOLEAN, copy : Nat]
    BY OMTyped
  <2>2. om'[h].role = om[h].role /\ \A k \in Hosts \ {h} : om'[k] = om[k]
    BY <1>4, <2>1 DEF StartAgain, OMs
  <2>3. QED  BY <2>2 DEF RunningPrimary
<1>5. om' # om
  BY DEF RunningPrimary
<1>6. PICK h \in Hosts : Gentle(h)
  BY <1>1, <1>5, TwoHosts DEF Cleans
<1>7. /\ StartAgain(h)
      /\ part = "rollback" \/ om[h].role = "secondary" \/ \A p \in Hosts : ~RunningPrimary(p)
  BY <1>1, <1>2, <1>3, <1>6 DEF Gentle
<1>8. h = g /\ om[g].role = "primary" /\ \A k \in Hosts \ {g} : om'[k] = om[k]
  BY <1>4, <1>7
<1>9. QED  BY <1>7, <1>8 DEF RunningPrimary

(* No step starts a second primary while one is running: what promotes has *)
(* the stop of the old primary behind it in the same run, and nothing that *)
(* a run or an operator does in between starts that one again.             *)
THEOREM OnePrimaryRuns == Spec => StepsKeepOnePrimary
<1>1. HistoryInv /\ [Next]_vars =>
        [StopsFirst /\ (\E h \in Hosts : ~RunningPrimary(h)) /\ (\A h \in Hosts : RunningPrimary(h)')
           => part = "rollback"]_vars
  <2> SUFFICES ASSUME HistoryInv, [Next]_vars, StopsFirst, part # "rollback",
                      NEW g \in Hosts, ~RunningPrimary(g), \A h \in Hosts : RunningPrimary(h)'
               PROVE  FALSE
    OBVIOUS
  <2>0. OMs /\ MigrateInv /\ Trail
    BY DEF HistoryInv, MigrateInv
  <2>1. Promoted
    <3>1. \E h \in Hosts \ {g} : TRUE
      BY TwoHosts
    <3>2. QED  BY <2>0, <3>1, StartsAreGuarded, StepsOnOMs
  <2>2. synced /\ Applying /\ ~already /\ part = "act" /\ at = "promote"
    <3>1. part = "act" /\ at = "promote" /\ ~RunningPrimary(New)
      BY <2>1 DEF Promoted
    <3>2. synced
      BY <2>0, <3>1 DEF MigrateInv, SyncHolds
    <3>3. Applying
      BY <2>0, <3>1 DEF MigrateInv, Placed, InStep
    <3>4. ~already
      BY <2>0, <3>1 DEF Trail, Listing, AsksDone, InStep
    <3>5. QED  BY <3>1, <3>2, <3>3, <3>4
  <2>3. ~RunningPrimary(Cur)
    BY <2>0, <2>2 DEF Trail, StopPassed
  <2>4. om'[Cur] = om[Cur]
    BY <2>0, <2>1, PromotedOM
  <2>5. QED  BY <2>3, <2>4, TwoHosts DEF RunningPrimary
<1>2. QED  BY <1>1, HistoryInvariant, PTL DEF Spec, StepsKeepOnePrimary

-----------------------------------------------------------------------------
(* A full run that meets no failure of its own, and what each of its steps *)
(* finds when it is reached.                                               *)
Calm == run > 0 /\ Applying /\ listed = Steps /\ ~disturbed /\ Resumable(before)

Fresh == RunningPrimary(Cur) /\ om[New].role # "primary"
Halted == /\ om[Cur].role = "primary" /\ ~om[Cur].up
          /\ om[New].role = "secondary" /\ om[New].up
          /\ om[Cur].copy = om[New].copy
Moved == RunningPrimary(New) /\ ~RunningPrimary(Cur)

Ready(s) ==
    /\ s = "gate" => Fresh \/ Halted \/ Moved
    /\ s # "gate" /\ already => Moved
    /\ s \in {"prepare", "add"} /\ ~already
         => (Fresh \/ Halted) /\ mode = IF member THEN "m1" ELSE "m2"
    /\ s = "secondary" /\ ~already => member /\ (Fresh \/ Halted)
    /\ s = "stop" /\ ~already => synced /\ (Fresh \/ Halted) /\ SecondarySynced
    /\ s = "promote" /\ ~already => synced /\ Halted
    /\ s \in {"sync", "toml", "old", "switch"} => Moved

TomlAtHand == toml[Cur] # "absent" \/ (member /\ toml[New] # "absent")

Goes ==
    /\ part = "idle" => exit = "ok"
    /\ part # "rollback"
    /\ part # "idle" => TomlAtHand
    /\ part = "os" => Ready("gate")
    /\ part \in {"pre", "act"} => Ready(at)
    /\ part = "recover" => IF at = "old" THEN Moved ELSE member /\ Fresh
    /\ part = "wait" => member /\ Fresh /\ IsSecondary(New)
    /\ part = "post" => /\ at = "secondary" => Ready("stop")
                        /\ at = "stop" => Ready("promote")
                        /\ at = "promote" => Moved

(* yasboot manages the new host wherever an OM of it is known of.          *)
Managed ==
    /\ toml \in [Hosts -> Hosts \cup {"absent"}]
    /\ member \in BOOLEAN
    /\ om[New].role # "none" \/ synced => member

CalmInv == Managed /\ (Calm => Goes)

(* The loop over the whole list takes the steps in their order.            *)
LEMMA NextInOrder ==
    ASSUME listed = Steps, NEW i \in 0..10, NEW s, IF i = 0 THEN s = "none" ELSE s = Order[i], Advance(s)
    PROVE  IF i = 10 THEN part' = "end" ELSE part' = "pre" /\ at' = Order[i + 1]
<1>1. \A k \in 1..10 : Order[k] \in listed
  BY OrderIs
<1>2. \A k \in 1..10 : Order[k] = s <=> k = i
  <2>1. \A k \in 1..10 : Order[k] # "none"
    BY OrderIs
  <2>2. \A k, l \in 1..10 : Order[k] = Order[l] => k = l
    BY OrderIs
  <2>3. QED  BY <2>1, <2>2
<1>3. ListedAfter(s) = {k \in 1..10 : k > i}
  BY <1>1, <1>2, OrderIs DEF ListedAfter
<1>4. CASE i = 10
  BY <1>3, <1>4 DEF Advance
<1>5. CASE i < 10
  <2>1. i + 1 \in ListedAfter(s) /\ \A j \in ListedAfter(s) : i + 1 <= j
    BY <1>3, <1>5
  <2>2. \A k \in ListedAfter(s) : (\A j \in ListedAfter(s) : k <= j) => k = i + 1
    BY <1>3, <2>1
  <2>3. PICK k \in ListedAfter(s) : /\ part' = "pre" /\ at' = Order[k]
                                    /\ \A j \in ListedAfter(s) : k <= j
    BY <2>1 DEF Advance
  <2>4. QED  BY <1>5, <2>2, <2>3
<1>6. QED  BY <1>4, <1>5

LEMMA NextByName ==
    ASSUME listed = Steps, NEW s, Advance(s)
    PROVE  /\ s = "none" => part' = "pre" /\ at' = "gate"
           /\ s = "gate" => part' = "pre" /\ at' = "prepare"
           /\ s = "prepare" => part' = "pre" /\ at' = "add"
           /\ s = "add" => part' = "pre" /\ at' = "secondary"
           /\ s = "secondary" => part' = "pre" /\ at' = "stop"
           /\ s = "stop" => part' = "pre" /\ at' = "promote"
           /\ s = "promote" => part' = "pre" /\ at' = "sync"
           /\ s = "sync" => part' = "pre" /\ at' = "toml"
           /\ s = "toml" => part' = "pre" /\ at' = "old"
           /\ s = "old" => part' = "pre" /\ at' = "switch"
           /\ s = "switch" => part' = "end"
<1>1. s = "none" => part' = "pre" /\ at' = Order[1]
  <2>1. 0 \in 0..10
    OBVIOUS
  <2>2. QED  BY <2>1, NextInOrder
<1>2. \A i \in 1..9 : s = Order[i] => part' = "pre" /\ at' = Order[i + 1]
  <2>1. SUFFICES ASSUME NEW i \in 1..9, s = Order[i]
                 PROVE  part' = "pre" /\ at' = Order[i + 1]
    OBVIOUS
  <2>2. i \in 0..10 /\ i # 0 /\ i # 10
    BY <2>1
  <2>3. QED  BY <2>1, <2>2, NextInOrder
<1>3. s = Order[10] => part' = "end"
  <2>1. 10 \in 0..10
    OBVIOUS
  <2>2. QED  BY <2>1, NextInOrder
<1>4. QED  BY <1>1, <1>2, <1>3, OrderIs

LEMMA InitIsManaged == Init => Managed
<1> SUFFICES ASSUME Init
             PROVE  Managed
  OBVIOUS
<1>1. PICK joined \in BOOLEAN, second \in {"none", "synced"} :
         /\ second = "synced" => joined
         /\ member = joined
         /\ om = [h \in Hosts |->
                     IF h = Cur THEN [role |-> "primary", up |-> TRUE, copy |-> 1]
                     ELSE IF second = "synced" THEN [role |-> "secondary", up |-> TRUE, copy |-> 1]
                     ELSE NoOM]
         /\ toml \in [Hosts -> {"absent", Cur}]
  BY DEF Init
<1>2. om[New].role # "none" => second = "synced"
  BY <1>1, TwoHosts DEF NoOM
<1>3. synced = FALSE
  BY DEF Init
<1>4. toml \in [Hosts -> Hosts \cup {"absent"}]
  BY <1>1, TwoHosts
<1>5. QED  BY <1>1, <1>2, <1>3, <1>4 DEF Managed

(* hosts.toml is only ever pointed at the new host, or copied to it. *)
LEMMA TomlStaysTyped ==
    ASSUME Managed, [Next]_vars
    PROVE  toml' \in [Hosts -> Hosts \cup {"absent"}] /\ (member' = member \/ member' = TRUE)
<1>0. toml \in [Hosts -> Hosts \cup {"absent"}] /\ StageHost \in Hosts
  BY TwoHosts DEF Managed, StageHost
<1>1. CASE PreChecks
  BY <1>0, <1>1
  DEF PreChecks, PreGate, PreAlreadyDone, PrePrepare, PreAdd, PreSecondary, PreStop,
      PreStopTimesOut, PrePromote, PreSync, PreToml, PreCheckDisturbed, Known, cluster
<1>2. CASE Actions
  BY <1>0, <1>2, TwoHosts
  DEF Actions, Gate, NoClusterChange, HostAdd, EnsureSynced, EnsureRefuses, EnsureClean, EnsureBlindly,
      EnsureRecover, EnsureCleanAgain, EnsureWait, SecondaryDone, WaitTimesOut, StopPrimary,
      StopDone, RecoverPrimary, PromoteDone, Sync, UpdateHostsToml, OldClean, OldRecover,
      CommandFails, Known, cluster
<1>3. CASE Start \/ OSBaseline \/ OSBaselineFails \/ Rollback \/ Finish \/ FinishFails \/ Interrupted
             \/ OperatorActs \/ (\E h \in Hosts : CatchUp(h)) \/ Finished \/ UNCHANGED vars
  BY <1>0, <1>3, TwoHosts
  DEF Start, OSBaseline, OSBaselineFails, Rollback, RollbackNothing, RollbackSecondary, RollbackStop,
      RollbackPromoted, Finish, FinishFails, Interrupted, OperatorActs, CatchUp, Finished, vars, cluster
<1>4. QED  BY <1>1, <1>2, <1>3 DEF Next

(* The flag of O-004 is only set over a member. *)
LEMMA SyncedIsAsked ==
    ASSUME [Next]_vars
    PROVE  synced' = synced \/ ~synced' \/ (SecondarySynced /\ member' = member)
<1>1. CASE Start \/ EnsureSynced \/ EnsureWait
  BY <1>1 DEF Start, EnsureSynced, EnsureWait, Known, cluster
<1>2. CASE ~Start /\ ~EnsureSynced /\ ~EnsureWait
  BY <1>2
  DEF Next, PreChecks, Actions, Rollback, PreGate, PreAlreadyDone, PrePrepare, PreAdd, PreSecondary,
      PreStop, PreStopTimesOut, PrePromote, PreSync, PreToml, PreCheckDisturbed, results, Gate,
      NoClusterChange, HostAdd, EnsureRefuses, EnsureClean, EnsureBlindly,
      EnsureRecover, EnsureCleanAgain, SecondaryDone, WaitTimesOut, StopPrimary,
      StopDone, RecoverPrimary, PromoteDone, Sync, UpdateHostsToml, OldClean, OldRecover,
      CommandFails, RollbackNothing, RollbackSecondary, RollbackStop, RollbackPromoted,
      OSBaseline, OSBaselineFails, Finish, FinishFails, Interrupted, OperatorActs, CatchUp,
      Finished, vars
<1>3. QED  BY <1>1, <1>2

LEMMA StaysManaged ==
    ASSUME HistoryInv, Managed, [Next]_vars
    PROVE  Managed'
<1>0. OMs /\ Copies /\ MigrateInv /\ Cur \in Hosts /\ New \in Hosts /\ Cur # New
  BY TwoHosts DEF HistoryInv, MigrateInv
<1>1. toml' \in [Hosts -> Hosts \cup {"absent"}] /\ (member' = member \/ member' = TRUE)
  BY TomlStaysTyped
<1>2. member => member'
  BY <1>1
<1>3. synced' => member'
  BY <1>2, SyncedIsAsked DEF Managed, SecondarySynced
<1>4. om[New].role # "none" => member
  BY DEF Managed
<1>5. om'[New].role # "none" => member
  <2>1. ASSUME NEW h \in Hosts, Gentle(h)
        PROVE  om'[New].role # "none" => member
    <3>1. CASE h = New /\ om[New].role = "none"
      <4>1. CASE RecoverSecondary(New) /\ member
        BY <4>1
      <4>2. CASE Stop(New) \/ StartAgain(New)
        <5>1. om[New] \in [role : Roles, up : BOOLEAN, copy : Nat]
          BY <1>0, OMTyped
        <5>2. om'[New].role = om[New].role
          BY <1>0, <4>2, <5>1 DEF Stop, StartAgain, OMs
        <5>3. QED  BY <1>4, <5>2
      <4>3. QED  BY <2>1, <3>1, <4>1, <4>2 DEF Gentle, CanCatchUp, IsSecondary
    <3>2. CASE h # New
      BY <1>0, <1>4, <2>1, <3>2, GentleOM
    <3>3. QED  BY <1>4, <3>1, <3>2
  <2>2. CASE Cleans
    <3>1. om'[New] = om[New] \/ om'[New].role = "none"
      BY <1>0, <2>2, CleanedOM DEF Cleans
    <3>2. QED  BY <1>4, <3>1
  <2>3. CASE Promoted
    <3>1. RunningPrimary(New) \/ synced
      BY <1>0, <2>3 DEF Promoted, MigrateInv, SyncHolds
    <3>2. QED  BY <3>1 DEF RunningPrimary, Managed
  <2>4. QED  BY <1>4, <2>1, <2>2, <2>3, StepsOnOMs
<1>6. member' \in BOOLEAN
  BY <1>1 DEF Managed
<1>7. QED  BY <1>1, <1>2, <1>3, <1>5, <1>6 DEF Managed

-----------------------------------------------------------------------------
(* A calm run in one of its steps. *)
Going == HistoryInv /\ Managed /\ Goes /\ Applying /\ listed = Steps

LEMMA GoingFacts ==
    ASSUME Going
    PROVE  /\ OMs /\ om[Cur] \in [role : Roles, up : BOOLEAN, copy : Nat]
           /\ om[New] \in [role : Roles, up : BOOLEAN, copy : Nat]
           /\ already \in BOOLEAN /\ synced \in BOOLEAN /\ member \in BOOLEAN
           /\ part \in InStep => at \in Steps
           /\ part \in InStep \ {"pre"} /\ at \in AsksDone => ~already
           /\ part \in {"pre", "act"} => Ready(at)
           /\ part # "idle" => TomlAtHand
           /\ om[New].role # "none" \/ synced => member
BY OMTyped, TwoHosts
DEF Going, HistoryInv, MigrateInv, OMs, Placed, Managed, Trail, Listing, Goes

(* The step after s may start. *)
NextReady(s) ==
    /\ s = "gate" => Ready("prepare")
    /\ s = "prepare" => Ready("add")
    /\ s = "add" => Ready("secondary")
    /\ s = "secondary" => Ready("stop")
    /\ s = "stop" => Ready("promote")
    /\ s = "promote" => Ready("sync")
    /\ s = "sync" => Ready("toml")
    /\ s = "toml" => Ready("old")
    /\ s = "old" => Ready("switch")

LEMMA SucceedGoes ==
    ASSUME listed = Steps, Succeed, NEW s \in Steps, at = s, NextReady(s)', TomlAtHand'
    PROVE  Goes'
<1>1. Advance(s)
  BY DEF Succeed
<1>2. CASE s = "switch"
  <2>1. part' = "end"
    BY <1>1, <1>2, NextByName
  <2>2. QED  BY <2>1 DEF Goes
<1>3. CASE s # "switch"
  <2>1. PICK n : part' = "pre" /\ at' = n /\ Ready(n)'
    <3>1. s \in {"gate", "prepare", "add", "secondary", "stop", "promote", "sync", "toml", "old"}
      BY <1>3, OrderIs
    <3>2. QED  BY <1>1, <3>1, NextByName DEF NextReady
  <2>2. QED  BY <2>1 DEF Goes
<1>4. QED  BY <1>2, <1>3

LEMMA ReadyStays ==
    ASSUME NEW s, Ready(s), UNCHANGED <<om, member, mode, already, synced>>
    PROVE  Ready(s)'
BY DEF Ready, Fresh, Halted, Moved, RunningPrimary, SecondarySynced, Primaries, IsSecondary

LEMMA NextReadyStays ==
    ASSUME NEW s, NextReady(s), UNCHANGED <<om, member, mode, already, synced>>
    PROVE  NextReady(s)'
BY ReadyStays DEF NextReady

LEMMA TomlStays ==
    ASSUME TomlAtHand, toml' = toml, member' = member \/ member' = TRUE
    PROVE  TomlAtHand'
BY DEF TomlAtHand

LEMMA DoneIsReady ==
    ASSUME Moved, already
    PROVE  \A s : Ready(s) /\ NextReady(s)
BY DEF Ready, NextReady

(* Nothing but the position changes, and the next step may start.          *)
LEMMA SkipGoes ==
    ASSUME Going, part \in InStep, Succeed, UNCHANGED <<om, member, mode, already, synced, toml>>,
           NEW s \in Steps, at = s, NextReady(s)
    PROVE  Goes'
BY SucceedGoes, NextReadyStays, TomlStays, GoingFacts DEF Going, InStep

LEMMA PassGoes ==
    ASSUME Going, part = "pre", Pass, UNCHANGED <<om, member, mode, already, synced, toml>>
    PROVE  Goes'
<1>1. part' = "act" /\ at' = at
  BY DEF Going, Pass, Continue
<1>2. TomlAtHand'
  BY GoingFacts, TomlStays
<1>3. PICK s : s = at
  OBVIOUS
<1>4. Ready(s)'
  BY <1>3, GoingFacts, ReadyStays
<1>5. QED  BY <1>1, <1>2, <1>3, <1>4 DEF Goes

LEMMA HaltedIsSynced == ASSUME Halted, member PROVE SecondarySynced
BY TwoHosts DEF Halted, SecondarySynced, Primaries, IsSecondary, Hosts

LEMMA PreChecksGo ==
    ASSUME Going, PreChecks, ~disturbed'
    PROVE  Goes'
<1>0. part = "pre" /\ part \in InStep /\ at \in Steps /\ Ready(at) /\ TomlAtHand
  BY GoingFacts
  DEF PreChecks, PreGate, PreAlreadyDone, PrePrepare, PreAdd, PreSecondary, PreStop,
      PreStopTimesOut, PrePromote, PreSync, PreToml, PreCheckDisturbed, InStep
<1>1. CASE PreGate \/ PreSecondary \/ PreStop
  BY <1>0, <1>1, PassGoes DEF PreGate, PreSecondary, PreStop, Known, cluster, results
<1>2. CASE PreAlreadyDone
  <2>1. Moved /\ already
    BY <1>0, <1>2 DEF PreAlreadyDone, Ready
  <2>2. QED
    BY <1>0, <1>2, <2>1, DoneIsReady, SkipGoes DEF PreAlreadyDone, Known, cluster, results
<1>3. CASE PrePrepare
  <2>1. at = "prepare" /\ NextReady("prepare") /\ (Succeed \/ Pass)
    BY <1>0, <1>3 DEF PrePrepare, Ready, NextReady
  <2>2. QED
    BY <1>0, <1>3, <2>1, PassGoes, SkipGoes DEF PrePrepare, Known, cluster, results
<1>4. CASE PreAdd
  <2>1. at = "add" /\ ~already /\ (Fresh \/ Halted) /\ mode = IF member THEN "m1" ELSE "m2"
    BY <1>0, <1>4 DEF PreAdd, Ready
  <2>2. mode' = mode
    BY <1>4, <2>1 DEF PreAdd
  <2>3. CASE member
    <3>1. NextReady("add") /\ Succeed
      BY <1>4, <2>1, <2>2, <2>3 DEF NextReady, Ready, PreAdd
    <3>2. QED
      BY <1>0, <1>4, <2>1, <2>2, <3>1, SkipGoes DEF PreAdd, Known, cluster
  <2>4. CASE ~member
    <3>1. Pass
      BY <1>0, <1>4, <2>1, <2>2, <2>4 DEF PreAdd, TomlAtHand
    <3>2. QED  BY <1>0, <1>4, <2>2, <3>1, PassGoes DEF PreAdd, Known, cluster
  <2>5. QED  BY <2>3, <2>4
<1>5. CASE PreStopTimesOut
  BY <1>0, <1>5 DEF PreStopTimesOut, Ready
<1>6. CASE PrePromote
  <2>1. synced
    BY <1>0, <1>6 DEF PrePromote, Ready
  <2>2. QED
    BY <1>0, <1>6, <2>1, PassGoes DEF PrePromote, Known, cluster, results
<1>7. CASE PreSync
  <2>1. om[New].role = "primary"
    BY <1>0, <1>7 DEF PreSync, Ready, Moved, RunningPrimary
  <2>2. member
    BY <2>1, GoingFacts
  <2>3. QED
    BY <1>0, <1>7, <2>1, <2>2, PassGoes DEF PreSync, Known, cluster, results
<1>8. CASE PreToml
  <2>1. toml[StageHost] # "absent"
    BY <1>0 DEF TomlAtHand, StageHost
  <2>2. QED
    BY <1>0, <1>8, <2>1, PassGoes DEF PreToml, Known, cluster, results
<1>9. CASE PreCheckDisturbed
  BY <1>9 DEF PreCheckDisturbed
<1>10. QED
  BY <1>1, <1>2, <1>3, <1>4, <1>5, <1>6, <1>7, <1>8, <1>9 DEF PreChecks

LEMMA GateGoes ==
    ASSUME Going, Gate
    PROVE  Goes'
<1>0. part = "act" /\ part \in InStep /\ at = "gate" /\ Ready("gate")
  BY GoingFacts DEF Gate, InStep
<1>1. UNCHANGED <<om, member, toml, synced>> /\ TomlAtHand'
  BY <1>0, GoingFacts, TomlStays DEF Gate, Known, cluster
<1>2. CASE AlreadyDone
  <2>1. already' /\ Succeed /\ Moved'
    BY <1>1, <1>2 DEF Gate, AlreadyDone, Moved, RunningPrimary
  <2>2. Ready("prepare")'
    BY <2>1 DEF Ready
  <2>3. NextReady("gate")' /\ "gate" \in Steps
    BY <2>2, OrderIs DEF NextReady
  <2>4. QED  BY <1>0, <1>1, <2>1, <2>3, SucceedGoes DEF Going
<1>3. CASE ~AlreadyDone
  <2>1. Fresh \/ Halted
    BY <1>0, <1>3 DEF Ready, Moved, AlreadyDone
  <2>2. Proceed /\ ~NewListedFirst
    BY <2>1 DEF Fresh, Halted, Proceed, NewListedFirst, RunningPrimary
  <2>3. ~already' /\ mode' = (IF member THEN "m1" ELSE "m2") /\ Succeed
    <3>1. PICK refused \in {FALSE, NewListedFirst} :
             IF AlreadyDone \/ (Proceed /\ ~refused)
             THEN /\ already' = AlreadyDone
                  /\ mode' = IF AlreadyDone \/ member THEN "m1" ELSE "m2"
                  /\ Succeed
             ELSE Fail /\ UNCHANGED <<already, mode>>
      BY DEF Gate
    <3>2. ~refused
      BY <2>2
    <3>3. already' = AlreadyDone /\ Succeed
          /\ mode' = IF AlreadyDone \/ member THEN "m1" ELSE "m2"
      BY <2>2, <3>1, <3>2
    <3>4. ~already'
      BY <1>3, <3>3
    <3>5. QED  BY <1>3, <3>3, <3>4
  <2>4. (Fresh \/ Halted)'
    BY <1>1, <2>1 DEF Fresh, Halted, RunningPrimary
  <2>5. Ready("prepare")'
    BY <1>1, <2>3, <2>4 DEF Ready
  <2>6. NextReady("gate")' /\ "gate" \in Steps
    BY <2>5, OrderIs DEF NextReady
  <2>7. QED  BY <1>0, <1>1, <2>3, <2>6, SucceedGoes DEF Going
<1>4. QED  BY <1>2, <1>3

LEMMA PreparationGoes ==
    ASSUME Going, NoClusterChange \/ HostAdd
    PROVE  Goes'
<1>0. part = "act" /\ part \in InStep /\ Ready(at) /\ TomlAtHand /\ Succeed
      /\ "prepare" \in Steps /\ "switch" \in Steps /\ "add" \in Steps
  BY GoingFacts, OrderIs DEF NoClusterChange, HostAdd, InStep
<1>1. CASE NoClusterChange
  <2>1. (at = "prepare" /\ NextReady("prepare")) \/ (at = "switch" /\ NextReady("switch"))
    BY <1>0, <1>1, GoingFacts DEF NoClusterChange, NextReady, Ready, AsksDone
  <2>2. QED  BY <1>0, <1>1, <2>1, SkipGoes DEF NoClusterChange, Known, cluster, results
<1>2. CASE HostAdd
  <2>1. at = "add" /\ ~already' /\ member' /\ UNCHANGED <<om, toml>> /\ (Fresh \/ Halted)
    BY <1>0, <1>2, GoingFacts DEF HostAdd, Ready, AsksDone
  <2>2. (Fresh \/ Halted)' /\ TomlAtHand'
    BY <1>0, <1>2, <2>1, TomlStays DEF Fresh, Halted, RunningPrimary, HostAdd
  <2>3. NextReady("add")'
    BY <2>1, <2>2 DEF NextReady, Ready
  <2>4. QED  BY <1>0, <2>1, <2>2, <2>3, SucceedGoes DEF Going
<1>3. QED  BY <1>1, <1>2

(* The new host's OM changes under a running primary on the current one. *)
LEMMA FreshStays ==
    ASSUME OMs, Fresh, Clean(New) \/ RecoverSecondary(New)
    PROVE  Fresh' /\ (RecoverSecondary(New) => IsSecondary(New)')
<1>1. om'[Cur] = om[Cur] /\ om'[New].role # "primary"
  BY TwoHosts DEF Clean, RecoverSecondary, NoOM, OMs
<1>2. RecoverSecondary(New) => om'[New].role = "secondary" /\ om'[New].up
  BY TwoHosts DEF RecoverSecondary, OMs
<1>3. QED  BY <1>1, <1>2 DEF Fresh, RunningPrimary, IsSecondary

LEMMA SecondaryGoes ==
    ASSUME Going, ~disturbed',
           EnsureSynced \/ EnsureRefuses \/ EnsureClean \/ EnsureBlindly \/ EnsureRecover
             \/ EnsureCleanAgain \/ EnsureWait \/ SecondaryDone \/ WaitTimesOut
    PROVE  Goes'
<1>0. /\ at = "secondary" /\ part \in InStep \ {"pre"} /\ ~already /\ OMs
      /\ UNCHANGED <<toml, member, already, mode>> /\ TomlAtHand'
  <2>1. /\ at = "secondary" /\ part \in InStep \ {"pre"}
        /\ UNCHANGED <<toml, member, already, mode>>
    BY DEF EnsureSynced, EnsureRefuses, EnsureClean, EnsureBlindly, EnsureRecover,
           EnsureCleanAgain, EnsureWait, SecondaryDone, WaitTimesOut, Known, cluster, results, InStep
  <2>2. QED  BY <2>1, GoingFacts, TomlStays DEF AsksDone, InStep
<1>1. part = "act" => member /\ (Fresh \/ Halted)
  BY <1>0, GoingFacts DEF Ready
<1>2. part = "recover" => member /\ Fresh
  BY <1>0 DEF Going, Goes
<1>3. part = "wait" => member /\ Fresh /\ IsSecondary(New)
  BY <1>0 DEF Going, Goes
<1>4. part = "post" => Ready("stop")
  BY <1>0 DEF Going, Goes
<1>5. CASE EnsureSynced \/ EnsureWait
  <2>1. /\ part' = "post" /\ at' = at /\ om' = om /\ synced' /\ SecondarySynced
        /\ part \in {"act", "wait"}
    BY <1>5 DEF EnsureSynced, EnsureWait, Continue, Known, cluster
  <2>2. (Fresh \/ Halted)' /\ SecondarySynced'
    BY <1>0, <1>1, <1>3, <2>1
    DEF Fresh, Halted, RunningPrimary, SecondarySynced, IsSecondary, Primaries
  <2>3. Ready("stop")'
    BY <1>0, <2>1, <2>2 DEF Ready
  <2>4. QED  BY <1>0, <2>1, <2>3 DEF Goes
<1>6. CASE EnsureRefuses
  <2>1. ~member \/ om[New].role = "primary"
    BY <1>6 DEF EnsureRefuses
  <2>2. QED  BY <1>1, <1>6, <2>1 DEF Fresh, Halted, EnsureRefuses
<1>7. CASE EnsureClean \/ EnsureCleanAgain \/ EnsureRecover
  <2>1. /\ Continue("recover") \/ (Continue("wait") /\ RecoverSecondary(New))
        /\ Clean(New) \/ RecoverSecondary(New)
        /\ part = "act" => ~SecondarySynced
        /\ part \in {"act", "recover"}
    <3>1. CASE EnsureClean
      <4>1. disturbed' # TRUE
        OBVIOUS
      <4>2. QED  BY <3>1, <4>1 DEF EnsureClean
    <3>2. CASE EnsureCleanAgain \/ EnsureRecover
      BY <3>2 DEF EnsureCleanAgain, EnsureRecover
    <3>3. QED  BY <1>7, <3>1, <3>2
  <2>2. Fresh /\ member
    BY <1>1, <1>2, <2>1, HaltedIsSynced
  <2>3. Fresh' /\ member' /\ (RecoverSecondary(New) => IsSecondary(New)')
    BY <1>0, <2>1, <2>2, FreshStays
  <2>4. at' = at /\ (part' = "recover" \/ (part' = "wait" /\ RecoverSecondary(New)))
    BY <2>1 DEF Continue
  <2>5. QED  BY <1>0, <2>3, <2>4 DEF Goes
<1>8. CASE SecondaryDone
  <2>1. NextReady("secondary") /\ "secondary" \in Steps
    BY <1>4, <1>8, OrderIs DEF SecondaryDone, NextReady
  <2>2. QED  BY <1>0, <1>8, <2>1, SkipGoes DEF SecondaryDone, Known, cluster, results
<1>9. CASE WaitTimesOut
  <2>1. part = "wait"
    BY <1>0, <1>4, <1>9 DEF WaitTimesOut, Ready
  <2>2. om[Cur].role = "primary" /\ om[New].role = "secondary" /\ ~SecondarySynced
    BY <1>3, <1>9, <2>1 DEF WaitTimesOut, Fresh, RunningPrimary, IsSecondary
  <2>3. Primaries = {Cur}
    BY <2>2, TwoHosts DEF Primaries
  <2>4. om[Cur].copy # om[New].copy
    BY <1>3, <2>1, <2>2, <2>3 DEF SecondarySynced
  <2>5. CanCatchUp(New)
    BY <1>3, <2>1, <2>4, TwoHosts DEF CanCatchUp, Fresh
  <2>6. QED  BY <1>9, <2>5 DEF WaitTimesOut
<1>10. CASE EnsureBlindly
  BY <1>10 DEF EnsureBlindly
<1>11. QED  BY <1>5, <1>6, <1>7, <1>8, <1>9, <1>10

LEMMA StopAndPromoteGo ==
    ASSUME Going, StopPrimary \/ StopDone \/ RecoverPrimary \/ PromoteDone
    PROVE  Goes'
<1>0. /\ part \in InStep \ {"pre"} /\ at \in {"stop", "promote"} /\ ~already /\ OMs
      /\ UNCHANGED <<toml, member, already, mode, synced>> /\ TomlAtHand'
      /\ "stop" \in Steps /\ "promote" \in Steps
  <2>1. /\ part \in InStep \ {"pre"} /\ at \in {"stop", "promote"}
        /\ UNCHANGED <<toml, member, already, mode, synced>>
    BY DEF StopPrimary, StopDone, RecoverPrimary, PromoteDone, Known, cluster, results, InStep
  <2>2. QED  BY <2>1, GoingFacts, TomlStays, OrderIs DEF AsksDone, InStep
<1>1. CASE StopPrimary
  <2>1. at = "stop" /\ synced /\ (Fresh \/ Halted) /\ SecondarySynced
        /\ part' = "post" /\ at' = at
    BY <1>0, <1>1, GoingFacts DEF StopPrimary, Ready, Continue
  <2>2. om[Cur].role = "primary" /\ om[New].role = "secondary" /\ om[New].up
    BY <2>1 DEF Fresh, Halted, RunningPrimary, SecondarySynced, IsSecondary
  <2>3. om[Cur].copy = om[New].copy
    <3>1. Cur \in Primaries
      BY <2>2, TwoHosts DEF Primaries
    <3>2. QED  BY <2>1, <3>1 DEF SecondarySynced
  <2>4. /\ om'[New] = om[New] /\ om'[Cur].role = om[Cur].role /\ om'[Cur].copy = om[Cur].copy
        /\ ~om'[Cur].up
    <3>1. om[Cur] \in [role : Roles, up : BOOLEAN, copy : Nat]
      BY GoingFacts
    <3>2. Stop(Cur) \/ (om' = om /\ ~om[Cur].up)
      BY <1>1 DEF StopPrimary
    <3>3. QED  BY <1>0, <3>1, <3>2, TwoHosts DEF Stop, OMs
  <2>5. Halted'
    BY <2>2, <2>3, <2>4 DEF Halted
  <2>6. Ready("promote")'
    BY <1>0, <2>1, <2>5 DEF Ready
  <2>7. QED  BY <1>0, <2>1, <2>6 DEF Goes
<1>2. CASE StopDone
  <2>1. at = "stop" /\ Ready("promote")
    BY <1>2 DEF StopDone, Going, Goes
  <2>2. ~RunningPrimary(Cur) /\ NextReady("stop")
    BY <1>0, <2>1 DEF Ready, Halted, RunningPrimary, NextReady
  <2>3. QED  BY <1>0, <1>2, <2>1, <2>2, SkipGoes DEF StopDone, Known, cluster, results
<1>3. CASE RecoverPrimary
  <2>1. at = "promote" /\ Halted /\ part' = "post" /\ at' = at
    BY <1>0, <1>3, GoingFacts DEF RecoverPrimary, Ready, Continue
  <2>2. Promote(New)
    BY <1>3, <2>1 DEF RecoverPrimary, Halted, RunningPrimary
  <2>3. om'[Cur] = om[Cur] /\ om'[New].role = "primary" /\ om'[New].up
    BY <1>0, <2>2, TwoHosts DEF Promote, OMs
  <2>4. Moved'
    BY <2>1, <2>3 DEF Halted, Moved, RunningPrimary
  <2>5. QED  BY <1>0, <2>1, <2>4 DEF Goes
<1>4. CASE PromoteDone
  <2>1. at = "promote" /\ Moved
    BY <1>4 DEF PromoteDone, Going, Goes
  <2>2. om[New].role = "primary" /\ NextReady("promote")
    BY <2>1 DEF Ready, Moved, RunningPrimary, NextReady
  <2>3. QED  BY <1>0, <1>4, <2>1, <2>2, SkipGoes DEF PromoteDone, Known, cluster, results
<1>5. QED  BY <1>1, <1>2, <1>3, <1>4

LEMMA AfterPromotionGoes ==
    ASSUME Going, Sync \/ UpdateHostsToml \/ OldClean \/ OldRecover
    PROVE  Goes'
<1>0. /\ part \in InStep \ {"pre"} /\ at \in {"sync", "toml", "old"} /\ OMs /\ TomlAtHand
      /\ Moved
      /\ "sync" \in Steps /\ "toml" \in Steps /\ "old" \in Steps
  <2>1. part \in {"act", "recover"} /\ at \in {"sync", "toml", "old"} /\ (part = "recover" => at = "old")
    BY DEF Sync, UpdateHostsToml, OldClean, OldRecover
  <2>2. Moved
    BY <2>1, GoingFacts DEF Going, Goes, Ready
  <2>3. QED  BY <2>1, <2>2, GoingFacts, OrderIs DEF InStep
<1>1. CASE Sync
  <2>1. at = "sync" /\ NextReady("sync")
    BY <1>0, <1>1 DEF Sync, NextReady, Ready
  <2>2. QED  BY <1>0, <1>1, <2>1, SkipGoes DEF Sync, results
<1>2. CASE UpdateHostsToml
  <2>1. member /\ at = "toml"
    BY <1>0, <1>2, GoingFacts DEF Moved, RunningPrimary, UpdateHostsToml
  <2>2. Succeed /\ toml' = [toml EXCEPT ![StageHost] = New] /\ UNCHANGED <<om, member>>
    BY <1>2, <2>1 DEF UpdateHostsToml
  <2>3. TomlAtHand'
    BY <2>1, <2>2, TwoHosts DEF TomlAtHand, StageHost, Going, Managed, New
  <2>4. Moved'
    BY <1>0, <2>2 DEF Moved, RunningPrimary
  <2>5. NextReady("toml")'
    BY <2>4 DEF NextReady, Ready
  <2>6. QED  BY <1>0, <2>1, <2>2, <2>3, <2>5, SucceedGoes DEF Going
<1>3. CASE OldClean \/ OldRecover
  <2>1. at = "old" /\ (om' = om \/ Clean(Cur) \/ RecoverSecondary(Cur)) /\ UNCHANGED <<toml, member>>
    BY <1>3 DEF OldClean, OldRecover
  <2>2. om'[New] = om[New] /\ ~RunningPrimary(Cur)'
    BY <1>0, <2>1, TwoHosts DEF Clean, RecoverSecondary, NoOM, RunningPrimary, Moved, OMs
  <2>3. Moved' /\ TomlAtHand'
    BY <1>0, <2>1, <2>2, TomlStays DEF Moved, RunningPrimary
  <2>4. CASE OldClean
    <3>1. part' = "recover" /\ at' = "old"
      BY <2>1, <2>4 DEF OldClean, Continue
    <3>2. QED  BY <2>3, <3>1 DEF Goes
  <2>5. CASE OldRecover
    <3>1. NextReady("old")'
      BY <2>3 DEF NextReady, Ready
    <3>2. QED  BY <1>0, <2>1, <2>3, <2>5, <3>1, SucceedGoes DEF OldRecover, Going
  <2>6. QED  BY <1>3, <2>4, <2>5
<1>4. QED  BY <1>1, <1>2, <1>3

(* The secondary's metadata arrives while the run is anywhere: it is not   *)
(* there yet only under a running primary.                                 *)
LEMMA CatchingUpGoes ==
    ASSUME Going, NEW h \in Hosts, CatchUp(h)
    PROVE  Goes'
<1>0. /\ OMs /\ CanCatchUp(h)
      /\ UNCHANGED <<member, toml, part, at, mode, already, synced, exit>>
  BY GoingFacts DEF CatchUp, results
<1>1. \A g \in Hosts : om'[g].role = om[g].role /\ om'[g].up = om[g].up
  <2>1. PICK p \in Hosts \ {h} : om' = [om EXCEPT ![h].copy = om[p].copy]
    BY DEF CatchUp
  <2>2. om[h] \in [role : Roles, up : BOOLEAN, copy : Nat]
    BY <1>0, OMTyped
  <2>3. QED  BY <1>0, <2>1, <2>2 DEF OMs
<1>2. (Fresh' <=> Fresh) /\ (Moved' <=> Moved) /\ (IsSecondary(New)' <=> IsSecondary(New))
  BY <1>1, TwoHosts DEF Fresh, Moved, RunningPrimary, IsSecondary
<1>3. ~Halted
  BY <1>0, TwoHosts DEF Halted, CanCatchUp, RunningPrimary, IsSecondary
<1>4. ~(Fresh /\ SecondarySynced)
  <2>1. SUFFICES ASSUME Fresh
                 PROVE  ~SecondarySynced
    OBVIOUS
  <2>2. om[New].copy # om[Cur].copy /\ om[Cur].role = "primary"
    BY <1>0, <2>1, TwoHosts DEF Fresh, CanCatchUp, RunningPrimary, IsSecondary
  <2>3. Cur \in Primaries
    BY <2>2, TwoHosts DEF Primaries
  <2>4. QED  BY <2>2, <2>3 DEF SecondarySynced
<1>5. \A s : Ready(s) => Ready(s)'
  BY <1>0, <1>2, <1>3, <1>4 DEF Ready
<1>6. TomlAtHand' <=> TomlAtHand
  BY <1>0 DEF TomlAtHand
<1>7. part \in {"pre", "act"} => Ready(at)'
  <2>1. PICK s : s = at
    OBVIOUS
  <2>2. part \in {"pre", "act"} => Ready(s)
    BY <2>1, GoingFacts
  <2>3. QED  BY <1>0, <1>5, <2>1, <2>2
<1>8. QED  BY <1>0, <1>2, <1>5, <1>6, <1>7 DEF Going, Goes

LEMMA AroundTheStepsGoes ==
    ASSUME Going, ~disturbed',
           OSBaseline \/ OSBaselineFails \/ Rollback \/ Finish \/ FinishFails \/ Interrupted
             \/ OperatorActs
    PROVE  Goes'
<1>1. CASE OSBaseline
  <2>1. part = "os" /\ UNCHANGED <<om, member, toml, mode, already, synced>>
    BY <1>1 DEF OSBaseline, cluster, results
  <2>2. listed # {}
    BY OrderIs DEF Going
  <2>3. part' = "pre" /\ at' = "gate"
    BY <1>1, <2>2, NextByName DEF OSBaseline, Going
  <2>4. Ready("gate")' /\ TomlAtHand'
    BY <2>1, GoingFacts, ReadyStays, TomlStays DEF Going, Goes
  <2>5. QED  BY <2>3, <2>4 DEF Goes
<1>2. CASE Rollback
  BY <1>2
  DEF Rollback, RollbackNothing, RollbackSecondary, RollbackStop, RollbackPromoted, Going, Goes
<1>3. CASE Finish
  BY <1>3 DEF Finish, Return, Goes
<1>4. CASE FinishFails
  <2>1. toml[Cur] # "absent"
    BY <1>4, GoingFacts DEF FinishFails, StageHost, TomlAtHand, Cur, New
  <2>2. QED  BY <1>4, <2>1 DEF FinishFails
<1>5. CASE OperatorActs
  BY <1>5 DEF OperatorActs, Going, Goes
<1>6. CASE OSBaselineFails \/ Interrupted
  BY <1>6 DEF OSBaselineFails, Interrupted
<1>7. QED  BY <1>1, <1>2, <1>3, <1>4, <1>5, <1>6

(* What has once disturbed a run is not forgotten before the next.         *)
LEMMA DisturbedStays ==
    ASSUME [Next]_vars, ~Start, ~disturbed'
    PROVE  ~disturbed
BY DEF Next, PreChecks, Actions, Rollback, PreGate, PreAlreadyDone, PrePrepare, PreAdd, PreSecondary,
       PreStop, PreStopTimesOut, PrePromote, PreSync, PreToml, PreCheckDisturbed, Gate,
       NoClusterChange, HostAdd, EnsureSynced, EnsureRefuses, EnsureClean, EnsureBlindly,
       EnsureRecover, EnsureCleanAgain, EnsureWait, SecondaryDone, WaitTimesOut, StopPrimary,
       StopDone, RecoverPrimary, PromoteDone, Sync, UpdateHostsToml, OldClean, OldRecover,
       CommandFails, RollbackNothing, RollbackSecondary, RollbackStop, RollbackPromoted,
       OSBaseline, OSBaselineFails, Finish, FinishFails, Interrupted, OperatorActs, CatchUp,
       Finished, vars

LEMMA StartGoes ==
    ASSUME Start, Resumable(before)'
    PROVE  Goes'
<1>1. /\ part' = "os" /\ UNCHANGED <<om, member, toml>>
      /\ before'.om = om /\ before'.member = member /\ before'.toml = toml
  BY DEF Start, cluster
<1>2. Fresh \/ Halted \/ Moved
  BY <1>1 DEF Resumable, Fresh, Halted, Moved, RunningPrimary
<1>3. TomlAtHand'
  BY <1>1 DEF Resumable, TomlAtHand
<1>4. Ready("gate")'
  BY <1>1, <1>2 DEF Ready, Fresh, Halted, Moved, RunningPrimary
<1>5. QED  BY <1>1, <1>3, <1>4 DEF Goes

LEMMA CalmRunsGo ==
    ASSUME HistoryInv, Managed, Calm => Goes, [Next]_vars, Calm'
    PROVE  Goes'
<1>1. CASE Start
  BY <1>1, StartGoes DEF Calm
<1>2. CASE ~Start
  <2>1. UNCHANGED <<flags, listed, run, before>>
    BY <1>2, LineStays
  <2>2. ~disturbed /\ ~disturbed'
    BY <1>2, DisturbedStays DEF Calm
  <2>3. Going
    BY <2>1, <2>2 DEF Calm, Going, Applying, Resumable
  <2>4. CASE PreChecks
    BY <2>2, <2>3, <2>4, PreChecksGo
  <2>5. CASE Actions
    <3>1. ~CommandFails
      BY <2>2 DEF CommandFails
    <3>2. QED
      BY <2>2, <2>3, <2>5, <3>1, GateGoes, PreparationGoes, SecondaryGoes, StopAndPromoteGo,
         AfterPromotionGoes DEF Actions
  <2>6. CASE \E h \in Hosts : CatchUp(h)
    BY <2>3, <2>6, CatchingUpGoes
  <2>7. CASE Finished \/ UNCHANGED vars
    <3>1. UNCHANGED <<om, member, toml, part, at, mode, already, synced, exit>>
      BY <2>7 DEF Finished, vars, cluster, results
    <3>2. QED
      BY <2>3, <3>1
      DEF Going, Goes, Ready, TomlAtHand, Fresh, Halted, Moved, RunningPrimary, SecondarySynced,
          Primaries, IsSecondary
  <2>8. QED
    BY <1>2, <2>2, <2>3, <2>4, <2>5, <2>6, <2>7, AroundTheStepsGoes DEF Next
<1>3. QED  BY <1>1, <1>2

(* A full run that starts where the move can be taken up, and meets no     *)
(* failure of its own, succeeds, wherever earlier runs, with any lists and *)
(* modes, have failed or were interrupted.                                 *)
THEOREM RerunsComplete == Spec => []RerunCompletes
<1>1. Init => CalmInv
  <2>1. Init => run = 0
    BY DEF Init
  <2>2. QED  BY <2>1, InitIsManaged DEF CalmInv, Calm
<1>2. HistoryInv /\ CalmInv /\ [Next]_vars => CalmInv'
  BY StaysManaged, CalmRunsGo DEF CalmInv
<1>3. CalmInv => RerunCompletes
  BY DEF CalmInv, Calm, Goes, RerunCompletes
<1>4. QED  BY <1>1, <1>2, <1>3, HistoryInvariant, PTL DEF Spec

==============================================================================
