---------------------------- MODULE CleanDBProofs ----------------------------
(***************************************************************************)
(* Theorems about "yinstall clean --type db", for any cluster, any command *)
(* lines and any number of interrupted runs.                               *)
(***************************************************************************)
EXTENDS CleanDB, TLAPS

(* The inductive invariant: the run is at a target of its own, and what    *)
(* has been decided about that target stands until the next one's turn.    *)
Placed == lay \in Layouts /\ opt \in Options /\ at \in 1..Len(opt.targets) /\ step \in 1..7
Consent == Placed /\ WipeNeedsConsent

LEMMA RolesKnown ==
    ASSUME Placed
    PROVE  t \in Hosts /\ lay.role[t] \in {"primary", "standby"}
<1>1. opt.targets \in Seq(Hosts) /\ lay.role \in [Hosts -> {"primary", "standby"}]
  BY LayoutsAssumption, OptionsAssumption DEF Placed, IsLayout, IsOption
<1>2. QED  BY <1>1 DEF Placed, t

LEMMA StepNames ==
    /\ Len(Steps) = 7
    /\ Steps[1] = "query" /\ Steps[2] = "detach" /\ Steps[3] = "stop" /\ Steps[4] = "dirs"
    /\ Steps[5] = "config" /\ Steps[6] = "disks" /\ Steps[7] = "final"
BY DEF Steps

LEMMA Positions ==
    ASSUME step \in 1..7
    PROVE  /\ Here("query") => step = 1
           /\ Here("detach") => step = 2
           /\ Here("stop") => step = 3
           /\ Here("dirs") => step = 4
           /\ Here("config") => step = 5
           /\ Here("disks") => step = 6
           /\ Here("final") => step = 7
           /\ Steps[step] \in Local <=> step \in 3..7
<1>1. step = 1 \/ step = 2 \/ step = 3 \/ step = 4 \/ step = 5 \/ step = 6 \/ step = 7
  OBVIOUS
<1>2. QED  BY <1>1, StepNames DEF Here, Local

(* Advance goes to the next step of the target, to the next target, or to  *)
(* the end.                                                                *)
LEMMA Advances ==
    ASSUME step \in 1..7, Advance
    PROVE  \/ step < 7 /\ step' = step + 1 /\ at' = at /\ exit' = exit
           \/ step = 7 /\ step' = 1 /\ at < Len(opt.targets) /\ at' = at + 1 /\ exit' = exit
           \/ step = 7 /\ step' = 7 /\ at' = at /\ exit' = "ok"
BY StepNames DEF Advance

(* What a step that goes on has to show.                                   *)
LEMMA Onwards ==
    ASSUME Consent, Advance, UNCHANGED <<opt, lay>>,
           step \in 3..6 => Running /\ members' \subseteq members /\ (blind => blind'),
           step = 2 => opt.skip \/ opt.force \/ blind' \/ ~opt.named \/ t \notin members'
    PROVE  Consent'
<1>0. step \in 1..7 /\ Placed /\ opt \in Options
  BY DEF Consent, Placed
<1>1. CASE step = 7
  <2>1. step' \in 1..7 /\ (step' = 1 \/ ~Running')
    BY <1>0, <1>1, Advances DEF Running
  <2>2. ~(Running /\ Steps[step] \in Local)'
    <3>1. CASE step' = 1
      BY <3>1, StepNames DEF Local, Steps
    <3>2. QED  BY <2>1, <3>1
  <2>3. Placed'
    <3>1. opt.targets \in Seq(Hosts)
      BY <1>0, OptionsAssumption DEF IsOption
    <3>2. QED  BY <1>0, <1>1, <2>1, <3>1, Advances DEF Placed
  <2>4. QED  BY <2>2, <2>3 DEF Consent, WipeNeedsConsent
<1>2. CASE step \in 1..6
  <2>1. step' = step + 1 /\ UNCHANGED <<at, exit, opt, lay>>
    BY <1>0, <1>2, Advances
  <2>2. Placed'
    BY <1>0, <1>2, <2>1 DEF Placed
  <2>3. CASE step = 1
    <3>1. Steps[2] \notin Local
      BY StepNames DEF Local
    <3>2. QED  BY <2>1, <2>2, <2>3, <3>1 DEF Consent, WipeNeedsConsent, Steps
  <2>4. CASE step = 2
    BY <2>1, <2>2, <2>4 DEF Consent, WipeNeedsConsent, t
  <2>5. CASE step \in 3..6
    <3>1. Steps[step] \in Local
      BY <1>0, <2>5, Positions
    <3>2. ~opt.skip /\ ~opt.force /\ ~blind => t \notin members \/ ~opt.named
      BY <2>5, <3>1 DEF Consent, WipeNeedsConsent
    <3>3. QED  BY <2>1, <2>2, <2>5, <3>2 DEF Consent, WipeNeedsConsent, t
  <2>6. QED  BY <1>2, <2>3, <2>4, <2>5
<1>3. QED  BY <1>0, <1>1, <1>2

(* The detach step lets a run go on when the operator said so, when the    *)
(* node is not listed or no longer, or when an answer is missing.          *)
LEMMA DetachConsents ==
    ASSUME Consent,
           \/ DetachSkipped \/ DetachUnanswered \/ OMUnreachable \/ DetachDecides \/ DetachBlind
           \/ NodeRemove \/ NodeRemoveFails \/ StillListed \/ StillListedUnseen
    PROVE  Consent'
<1>0. Placed /\ step \in 1..7
  BY DEF Consent, Placed
<1>1. step = 2 /\ Running
  <2>1. Here("detach")
    BY DEF DetachSkipped, DetachUnanswered, OMUnreachable, DetachDecides, DetachBlind, NodeRemove,
           NodeRemoveFails, StillListed, StillListedUnseen, Detaching, Removing
  <2>2. QED  BY <1>0, <2>1, Positions DEF Here
<1>2. CASE DetachSkipped
  BY <1>1, <1>2, Onwards DEF DetachSkipped, Skip, Pass
<1>3. CASE exit' = "error" /\ UNCHANGED <<lay, opt, at, step>>
  BY <1>0, <1>3 DEF Consent, Placed, WipeNeedsConsent, Running
<1>4. CASE DetachUnanswered
  <2>1. CASE Fail
    BY <1>3, <2>1 DEF Fail
  <2>2. CASE opt.force /\ Pass(validated, paths)
    BY <1>1, <2>2, Onwards DEF Pass
  <2>3. QED  BY <1>4, <2>1, <2>2 DEF DetachUnanswered
<1>5. CASE OMUnreachable
  BY <1>1, <1>5, Onwards DEF OMUnreachable
<1>6. CASE DetachDecides
  <2>1. CASE Fail
    BY <1>3, <2>1 DEF Fail
  <2>2. CASE DetachDecided(RoleSeen(t, TRUE)) = "wipe" /\ Pass(validated, paths)
    <3>1. opt.force \/ RoleSeen(t, TRUE) \notin {"primary", "standby", "blank"}
      BY <2>2 DEF DetachDecided
    <3>2. opt.force \/ ~opt.named \/ t \notin members
      <4>1. CASE opt.named /\ t \in members /\ "db" \notin procs[t]
        <5>1. RoleSeen(t, TRUE) = "blank"
          BY <4>1 DEF RoleSeen
        <5>2. QED  BY <3>1, <5>1
      <4>2. CASE opt.named /\ t \in members /\ "db" \in procs[t]
        <5>1. RoleSeen(t, TRUE) = lay.role[t]
          BY <4>2 DEF RoleSeen
        <5>2. QED  BY <1>0, <3>1, <5>1, RolesKnown
      <4>3. QED  BY <4>1, <4>2
    <3>3. UNCHANGED members
      BY <1>6 DEF DetachDecides, cluster
    <3>4. QED  BY <1>1, <2>2, <3>2, <3>3, Onwards DEF Pass
  <2>3. QED  BY <1>6, <2>1, <2>2 DEF DetachDecides
<1>7. CASE DetachBlind \/ StillListedUnseen
  <2>1. Advance /\ blind' /\ UNCHANGED <<opt, lay>>
    BY <1>7 DEF DetachBlind, StillListedUnseen
  <2>2. QED  BY <1>1, <2>1, Onwards
<1>8. CASE NodeRemove
  BY <1>1, <1>8, Onwards DEF NodeRemove, Removed
<1>9. CASE NodeRemoveFails \/ StillListed
  BY <1>3, <1>9 DEF NodeRemoveFails, StillListed, Fail
<1>10. QED  BY <1>2, <1>4, <1>5, <1>6, <1>7, <1>8, <1>9

(* The other steps decide nothing about the cluster.                       *)
LEMMA OthersKeepConsent ==
    ASSUME Consent,
           \/ QuerySkipped \/ QueryDisks \/ StopProcesses \/ RemoveDirectories \/ RemoveOneFails
           \/ RemoveConfig \/ RemoveConfigFails \/ CleanDisks \/ FinalCheck \/ Unprepared \/ StepFails
    PROVE  Consent'
<1>0. Placed /\ step \in 1..7
  BY DEF Consent, Placed
<1>1. CASE exit' = "error" /\ UNCHANGED <<lay, opt, at, step>>
  BY <1>0, <1>1 DEF Consent, Placed, WipeNeedsConsent, Running
<1>2. CASE Running /\ step # 2 /\ Advance /\ UNCHANGED <<lay, opt, members, blind>>
  BY <1>2, Onwards
<1>3. CASE QuerySkipped \/ QueryDisks
  <2>1. step # 2 /\ Running
    <3>1. Here("query")
      BY <1>3 DEF QuerySkipped, QueryDisks
    <3>2. QED  BY <1>0, <3>1, Positions DEF Here
  <2>2. CASE QuerySkipped
    BY <1>2, <2>1, <2>2 DEF QuerySkipped, Skip, Pass, cluster
  <2>3. CASE QueryDisks
    BY <1>1, <1>2, <2>1, <2>3 DEF QueryDisks, Pass, Fail, cluster
  <2>4. QED  BY <1>3, <2>2, <2>3
<1>4. CASE StopProcesses \/ RemoveDirectories \/ RemoveOneFails \/ RemoveConfig \/ RemoveConfigFails \/ CleanDisks \/ FinalCheck
  <2>1. step # 2 /\ Running
    <3>1. Here("stop") \/ Here("dirs") \/ Here("config") \/ Here("disks") \/ Here("final")
      BY <1>4
      DEF StopProcesses, RemoveDirectories, RemoveOneFails, RemoveConfig, RemoveConfigFails, CleanDisks, FinalCheck
    <3>2. QED  BY <1>0, <3>1, Positions DEF Here
  <2>2. Advance /\ UNCHANGED <<lay, opt, members, blind>>
    BY <1>4 DEF StopProcesses, RemoveDirectories, RemoveOneFails, RemoveConfig, RemoveConfigFails, CleanDisks, FinalCheck, Pass
  <2>3. QED  BY <1>2, <2>1, <2>2
<1>5. CASE Unprepared \/ StepFails
  BY <1>1, <1>5 DEF Unprepared, StepFails, Fail
<1>6. QED  BY <1>3, <1>4, <1>5

LEMMA NextConsents == Consent /\ [Next]_vars => Consent'
<1> SUFFICES ASSUME Consent, [Next]_vars
             PROVE  Consent'
  OBVIOUS
<1>1. CASE Start
  <2>1. opt' \in Options /\ at' = 1 /\ step' = 1 /\ lay' = lay
    BY <1>1 DEF Start
  <2>2. opt'.targets \in Seq(Hosts) /\ opt'.targets # <<>>
    BY <2>1, OptionsAssumption DEF IsOption
  <2>3. Placed'
    BY <2>1, <2>2 DEF Consent, Placed
  <2>4. (Steps[step] \notin Local)'
    BY <2>1, StepNames DEF Local, Steps
  <2>5. QED  BY <2>3, <2>4 DEF Consent, WipeNeedsConsent
<1>2. CASE ComesBack \/ Done \/ UNCHANGED vars
  <2>1. UNCHANGED <<lay, opt, members, control>>
    BY <1>2 DEF ComesBack, Done, vars, cluster
  <2>2. QED  BY <2>1 DEF Consent, Placed, WipeNeedsConsent, Running, t, control, Steps
<1>3. QED  BY <1>1, <1>2, DetachConsents, OthersKeepConsent DEF Next

LEMMA InitConsents == Init => Consent
<1> SUFFICES ASSUME Init
             PROVE  Consent
  OBVIOUS
<1>1. opt.targets \in Seq(Hosts) /\ opt.targets # <<>>
  BY OptionsAssumption DEF Init, IsOption
<1>2. QED  BY <1>1 DEF Init, Consent, Placed, WipeNeedsConsent, Running

(* Nothing of a node that the cluster lists is stopped or deleted by a     *)
(* clean without --skip-cluster-detach and --force-clean-primary, however  *)
(* many runs and interruptions came before; but for a query that was not   *)
(* answered and targets that are not given by their listen addresses       *)
(* (clean_db_detach_standby.go).                                           *)
THEOREM ConsentIsAsked == Spec => []WipeNeedsConsent
<1>1. Consent => WipeNeedsConsent
  BY DEF Consent
<1>2. QED  BY <1>1, InitConsents, NextConsents, PTL DEF Spec

-----------------------------------------------------------------------------
(* A refusal without a fault has a reason in the command line.             *)
LEMMA NextExcuses == RetryCompletes /\ [Next]_vars => RetryCompletes'
<1> SUFFICES ASSUME RetryCompletes, [Next]_vars
             PROVE  RetryCompletes'
  OBVIOUS
<1>1. CASE Fail /\ (~opt.skip \/ opt.disks)
  BY <1>1 DEF Fail, RetryCompletes
<1>2. CASE disturbed' = TRUE \/ exit' # "error"
  BY <1>2 DEF RetryCompletes
<1>3. CASE ~opt.skip /\ UNCHANGED opt
  BY <1>3 DEF RetryCompletes
<1>4. CASE exit # "error" /\ Advance
  BY <1>2, <1>4 DEF Advance
<1>5. CASE Start
  BY <1>2, <1>5 DEF Start
<1>6. CASE QueryDisks
  BY <1>1, <1>4, <1>6 DEF QueryDisks, Here, Running, Pass
<1>7. CASE QuerySkipped \/ DetachSkipped \/ StopProcesses \/ RemoveDirectories \/ RemoveConfig \/ CleanDisks \/ FinalCheck
  BY <1>4, <1>7 DEF QuerySkipped, DetachSkipped, StopProcesses, RemoveDirectories, RemoveConfig,
                    CleanDisks, FinalCheck, Here, Running, Pass, Skip
<1>8. CASE \/ DetachUnanswered \/ OMUnreachable \/ DetachDecides \/ DetachBlind
           \/ NodeRemove \/ NodeRemoveFails \/ StillListed \/ StillListedUnseen
  <2>1. ~opt.skip
    BY <1>8 DEF DetachUnanswered, OMUnreachable, DetachDecides, DetachBlind, NodeRemove,
                NodeRemoveFails, StillListed, StillListedUnseen, Detaching, Removing
  <2>2. UNCHANGED opt
    BY <1>8 DEF DetachUnanswered, OMUnreachable, DetachDecides, DetachBlind, NodeRemove,
                NodeRemoveFails, StillListed, StillListedUnseen, Pass, Fail
  <2>3. QED  BY <1>3, <2>1, <2>2
<1>9. CASE Unprepared
  <2>1. ~CanPrepare(t) /\ Fail
    BY <1>9 DEF Unprepared, Prepared
  <2>2. ~opt.skip \/ opt.disks
    BY <2>1 DEF CanPrepare
  <2>3. QED  BY <1>1, <2>1, <2>2
<1>10. CASE RemoveOneFails \/ RemoveConfigFails \/ StepFails
  BY <1>2, <1>10 DEF RemoveOneFails, RemoveConfigFails, StepFails
<1>11. CASE ComesBack \/ Done \/ UNCHANGED vars
  BY <1>11 DEF ComesBack, Done, vars, control, RetryCompletes
<1>12. QED  BY <1>1, <1>5, <1>6, <1>7, <1>8, <1>9, <1>10, <1>11 DEF Next

(* A run that is told not to look for the cluster and not to touch the     *)
(* shared disks is refused in no state, whatever was left to it            *)
(* (clean_env.go, clean_db_steps.go).                                      *)
THEOREM RetriesComplete == Spec => []RetryCompletes
<1>1. Init => RetryCompletes
  BY DEF Init, RetryCompletes
<1>2. QED  BY <1>1, NextExcuses, PTL DEF Spec

-----------------------------------------------------------------------------
(* Steps only take away: a file, directory or process of a host is there   *)
(* after a step only if it was before.  What comes back is a process.      *)
Shrinks ==
    /\ \A h \in Hosts : /\ dirs'[h] \subseteq dirs[h] /\ files'[h] \subseteq files[h]
                        /\ procs'[h] \subseteq procs[h]
    /\ disks' => disks

LEMMA OptionsTyped ==
    ASSUME NEW o \in Options
    PROVE  /\ o.targets \in Seq(Hosts) /\ 1 \in DOMAIN o.targets
           /\ DOMAIN o.targets = 1..Len(o.targets) /\ Len(o.targets) \in Nat
           /\ o.disks \in BOOLEAN /\ o.skip \in BOOLEAN /\ o.force \in BOOLEAN
<1>1. IsOption(o)
  BY OptionsAssumption
<1>2. o.targets \in Seq(Hosts) /\ o.targets # <<>>
  BY <1>1 DEF IsOption
<1>3. QED  BY <1>1, <1>2 DEF IsOption

LEMMA StepsDomain == DOMAIN Steps = 1..7 /\ Len(Steps) = 7
BY DEF Steps

(* Where a step leaves the run. *)
ControlTyped ==
    /\ lay \in Layouts /\ opt \in Options /\ run \in 0..Runs
    /\ at \in 1..Len(opt.targets) /\ step \in 1..7 /\ exit \in {"none", "ok", "error"}
    /\ validated \in BOOLEAN /\ paths \in BOOLEAN /\ disturbed \in BOOLEAN /\ blind \in BOOLEAN

LEMMA MovesTyped ==
    ASSUME ControlTyped, opt' = opt, lay' = lay, run' = run,
           Advance \/ (UNCHANGED <<at, step>> /\ exit' = "error"),
           validated' \in BOOLEAN, paths' \in BOOLEAN, disturbed' \in BOOLEAN, blind' \in BOOLEAN
    PROVE  ControlTyped'
<1>1. Len(opt.targets) \in Nat
  BY OptionsTyped DEF ControlTyped
<1>2. at' \in 1..Len(opt.targets) /\ step' \in 1..7 /\ exit' \in {"none", "ok", "error"}
  <2>1. CASE Advance
    <3>1. \/ step < 7 /\ step' = step + 1 /\ at' = at /\ exit' = exit
          \/ step = 7 /\ step' = 1 /\ at < Len(opt.targets) /\ at' = at + 1 /\ exit' = exit
          \/ step = 7 /\ step' = 7 /\ at' = at /\ exit' = "ok"
      BY <2>1, Advances DEF ControlTyped
    <3>2. QED  BY <1>1, <3>1 DEF ControlTyped
  <2>2. CASE UNCHANGED <<at, step>> /\ exit' = "error"
    BY <2>2 DEF ControlTyped
  <2>3. QED  BY <2>1, <2>2
<1>3. QED  BY <1>1, <1>2 DEF ControlTyped

LEMMA PassTyped ==
    ASSUME ControlTyped, NEW v, NEW p, Pass(v, p)
    PROVE  ControlTyped' /\ Advance /\ UNCHANGED <<lay, opt, run, disturbed>>
<1>1. validated' \in BOOLEAN /\ paths' \in BOOLEAN /\ UNCHANGED <<lay, opt, run, disturbed, blind>> /\ Advance
  BY DEF Pass
<1>2. QED  BY <1>1, MovesTyped DEF ControlTyped

LEMMA FailTyped ==
    ASSUME ControlTyped, Fail
    PROVE  ControlTyped' /\ exit' = "error" /\ UNCHANGED <<lay, opt, run>>
BY MovesTyped DEF ControlTyped, Fail

(* What a step does to the hosts. *)
HostsTyped ==
    /\ procs \in [Hosts -> SUBSET Processes] /\ neighbour \in [Hosts -> SUBSET Processes]
    /\ unit \subseteq Hosts /\ members \subseteq Hosts
    /\ dirs \in [Hosts -> SUBSET Dirs] /\ files \in [Hosts -> SUBSET Files]
    /\ disks \in BOOLEAN

LEMMA Typed == TypeOK <=> ControlTyped /\ HostsTyped
<1>1. opt \in Options => DOMAIN opt.targets = 1..Len(opt.targets)
  BY OptionsTyped
<1>2. QED  BY <1>1, StepsDomain DEF TypeOK, ControlTyped, HostsTyped

LEMMA UntouchedShrinks ==
    ASSUME HostsTyped, UNCHANGED cluster
    PROVE  HostsTyped' /\ Shrinks
BY DEF HostsTyped, Shrinks, cluster

(* What no pattern finds.                                                  *)
Missed == IF lay.default THEN lay.mute ELSE {}

LEMMA KillShrinks ==
    ASSUME HostsTyped, t \in Hosts, Kill, UNCHANGED <<dirs, files, members, disks>>
    PROVE  HostsTyped' /\ Shrinks /\ procs'[t] \subseteq Missed
<1>1. \A p \in Processes : p \in Matched("own") \/ p \in Missed
  BY DEF Matched, Missed
<1>2. procs' = [procs EXCEPT ![t] = procs[t] \ Matched("own")]
  BY DEF Kill
<1>3. neighbour' \in [Hosts -> SUBSET Processes]
  BY DEF Kill, HostsTyped
<1>4. unit' \subseteq Hosts
  BY DEF Kill, UnitsAfterStop, HostsTyped
<1>5. procs' \in [Hosts -> SUBSET Processes] /\ \A h \in Hosts : procs'[h] \subseteq procs[h]
  BY <1>2 DEF HostsTyped
<1>6. procs'[t] \subseteq Missed
  BY <1>1, <1>2 DEF HostsTyped
<1>7. QED  BY <1>3, <1>4, <1>5, <1>6 DEF HostsTyped, Shrinks

LEMMA RemovedShrinks ==
    ASSUME HostsTyped, t \in Hosts, Removed(t)
    PROVE  HostsTyped' /\ Shrinks
<1>1. PICK gone \in SUBSET {"link"} : files' = [files EXCEPT ![t] = files[t] \ gone]
  BY DEF Removed
<1>2. files' \in [Hosts -> SUBSET Files] /\ \A h \in Hosts : files'[h] \subseteq files[h]
  BY <1>1 DEF HostsTyped
<1>3. procs' \in [Hosts -> SUBSET Processes] /\ \A h \in Hosts : procs'[h] \subseteq procs[h]
  BY DEF HostsTyped, Removed
<1>4. dirs' \in [Hosts -> SUBSET Dirs] /\ \A h \in Hosts : dirs'[h] \subseteq dirs[h]
  BY DEF HostsTyped, Removed
<1>6. members' \subseteq Hosts /\ UNCHANGED <<neighbour, unit, disks>>
  BY DEF HostsTyped, Removed
<1>7. QED  BY <1>2, <1>3, <1>4, <1>6 DEF HostsTyped, Shrinks

LEMMA DirsShrink ==
    ASSUME HostsTyped, t \in Hosts, NEW kept \in SUBSET dirs[t],
           dirs' = [dirs EXCEPT ![t] = kept],
           UNCHANGED <<procs, neighbour, unit, files, members, disks>>
    PROVE  HostsTyped' /\ Shrinks /\ dirs'[t] = kept
BY DEF HostsTyped, Shrinks

LEMMA FilesShrink ==
    ASSUME HostsTyped, t \in Hosts, NEW kept \in SUBSET files[t],
           files' = [files EXCEPT ![t] = kept],
           UNCHANGED <<procs, neighbour, unit, dirs, members, disks>>
    PROVE  HostsTyped' /\ Shrinks /\ files'[t] = kept
BY DEF HostsTyped, Shrinks

LEMMA TargetIsHost == ControlTyped => t \in Hosts
BY OptionsTyped DEF ControlTyped, t

(* What every step of the command keeps to. *)
StepEffect ==
    /\ ControlTyped' /\ HostsTyped' /\ Shrinks
    /\ Running /\ UNCHANGED <<lay, opt, run>> /\ (exit' = "error" \/ Advance)
    /\ disturbed => disturbed'

LEMMA QueryEffect ==
    ASSUME ControlTyped, HostsTyped, QuerySkipped \/ QueryDisks
    PROVE  StepEffect
<1>1. Running /\ UNCHANGED cluster
  BY DEF QuerySkipped, QueryDisks, Skip, Here
<1>2. Fail \/ (\E v, p : Pass(v, p))
  BY DEF QuerySkipped, QueryDisks, Skip
<1>3. QED  BY <1>1, <1>2, UntouchedShrinks, PassTyped, FailTyped DEF StepEffect, Fail

LEMMA DetachEffect ==
    ASSUME ControlTyped, HostsTyped,
           \/ DetachSkipped \/ DetachUnanswered \/ OMUnreachable \/ DetachDecides \/ DetachBlind
           \/ NodeRemove \/ NodeRemoveFails \/ StillListed \/ StillListedUnseen
    PROVE  StepEffect
<1>0. Running
  BY DEF DetachSkipped, DetachUnanswered, OMUnreachable, DetachDecides, DetachBlind, NodeRemove,
         NodeRemoveFails, StillListed, StillListedUnseen, Detaching, Removing, Here
<1>1. HostsTyped' /\ Shrinks
  <2>1. UNCHANGED cluster \/ Removed(t)
    BY DEF DetachSkipped, DetachUnanswered, OMUnreachable, DetachDecides, DetachBlind, NodeRemove,
           NodeRemoveFails, StillListed, StillListedUnseen, Skip
  <2>2. QED  BY <2>1, TargetIsHost, UntouchedShrinks, RemovedShrinks
<1>2. CASE Fail \/ \E v, p : Pass(v, p)
  BY <1>0, <1>1, <1>2, PassTyped, FailTyped DEF StepEffect, Fail
<1>3. CASE OMUnreachable \/ DetachBlind \/ StillListedUnseen \/ NodeRemove
  <2>1. /\ Advance /\ disturbed' \in BOOLEAN /\ (disturbed => disturbed')
        /\ blind' \in BOOLEAN /\ UNCHANGED <<lay, run, opt, validated, paths>>
    BY <1>3 DEF OMUnreachable, DetachBlind, StillListedUnseen, NodeRemove, ControlTyped
  <2>2. ControlTyped'
    BY <2>1, MovesTyped DEF ControlTyped
  <2>3. QED  BY <1>0, <1>1, <2>1, <2>2 DEF StepEffect
<1>4. CASE NodeRemoveFails
  <2>1. /\ exit' = "error" /\ disturbed' = (disturbed \/ "agent" \in procs[t])
        /\ UNCHANGED <<lay, opt, run, at, step, validated, paths, blind>>
    BY <1>4 DEF NodeRemoveFails
  <2>2. ControlTyped'
    BY <2>1, MovesTyped DEF ControlTyped
  <2>3. QED  BY <1>0, <1>1, <2>1, <2>2 DEF StepEffect
<1>5. QED
  BY <1>2, <1>3, <1>4 DEF DetachSkipped, DetachUnanswered, DetachDecides, StillListed, Skip

LEMMA LocalEffect ==
    ASSUME ControlTyped, HostsTyped,
           \/ StopProcesses \/ RemoveDirectories \/ RemoveOneFails \/ RemoveConfig \/ RemoveConfigFails \/ CleanDisks
           \/ FinalCheck \/ Unprepared \/ StepFails
    PROVE  StepEffect
<1>0. Running /\ t \in Hosts
  BY TargetIsHost DEF StopProcesses, RemoveDirectories, RemoveOneFails, RemoveConfig, RemoveConfigFails, CleanDisks,
                      FinalCheck, Unprepared, StepFails, Here
<1>1. CASE StopProcesses \/ FinalCheck
  BY <1>0, <1>1, KillShrinks, PassTyped DEF StopProcesses, FinalCheck, StepEffect
<1>2. CASE RemoveDirectories
  BY <1>0, <1>2, DirsShrink, PassTyped DEF RemoveDirectories, StepEffect
<1>3. CASE RemoveOneFails
  <2>1. PICK d \in dirs[t] : dirs' = [dirs EXCEPT ![t] = {d}]
    BY <1>3 DEF RemoveOneFails
  <2>2. HostsTyped' /\ Shrinks
    <3>1. {d} \in SUBSET dirs[t]
      OBVIOUS
    <3>2. QED  BY <1>0, <1>3, <2>1, <3>1, DirsShrink DEF RemoveOneFails
  <2>3. ControlTyped' /\ Advance /\ disturbed' = TRUE /\ UNCHANGED <<lay, opt, run>>
    BY <1>3, MovesTyped DEF RemoveOneFails, ControlTyped
  <2>4. QED  BY <1>0, <2>2, <2>3 DEF StepEffect
<1>4. CASE RemoveConfig
  <2>1. HostsTyped' /\ Shrinks
    <3>1. {} \in SUBSET files[t]
      OBVIOUS
    <3>2. QED  BY <1>0, <1>4, <3>1, FilesShrink DEF RemoveConfig
  <2>2. QED  BY <1>0, <1>4, <2>1, PassTyped DEF RemoveConfig, StepEffect
<1>4a. CASE RemoveConfigFails
  <2>1. PICK kept \in SUBSET files[t] : files' = [files EXCEPT ![t] = kept]
    BY <1>4a DEF RemoveConfigFails
  <2>2. HostsTyped' /\ Shrinks
    BY <1>0, <1>4a, <2>1, FilesShrink DEF RemoveConfigFails
  <2>3. ControlTyped' /\ Advance /\ disturbed' = TRUE /\ UNCHANGED <<lay, opt, run>>
    BY <1>4a, MovesTyped DEF RemoveConfigFails, ControlTyped
  <2>4. QED  BY <1>0, <2>2, <2>3 DEF StepEffect
<1>5. CASE CleanDisks
  <2>1. disks' = (disks /\ ~(opt.disks /\ paths)) /\ UNCHANGED <<procs, neighbour, unit, dirs, files, members>>
    BY <1>5 DEF CleanDisks
  <2>2. HostsTyped' /\ Shrinks
    BY <2>1 DEF HostsTyped, Shrinks
  <2>3. QED  BY <1>0, <1>5, <2>2, PassTyped DEF CleanDisks, StepEffect
<1>6. CASE Unprepared
  BY <1>0, <1>6, UntouchedShrinks, FailTyped DEF Unprepared, StepEffect, Fail
<1>7. CASE StepFails
  <2>1. ControlTyped' /\ exit' = "error" /\ disturbed' = TRUE /\ UNCHANGED <<lay, opt, run>>
    BY <1>7, MovesTyped DEF StepFails, ControlTyped
  <2>2. HostsTyped' /\ Shrinks
    <3>1. UNCHANGED <<procs, neighbour, unit, files, members, disks>>
      BY <1>7 DEF StepFails
    <3>2. CASE UNCHANGED dirs
      BY <3>1, <3>2, UntouchedShrinks DEF cluster
    <3>3. ASSUME NEW kept, dirs' = [dirs EXCEPT ![t] = dirs[t] \cap kept]
          PROVE  HostsTyped' /\ Shrinks
      BY <1>0, <3>1, <3>3, DirsShrink
    <3>4. QED  BY <1>7, <3>2, <3>3 DEF StepFails
  <2>3. QED  BY <1>0, <2>1, <2>2 DEF StepEffect
<1>8. QED  BY <1>1, <1>2, <1>3, <1>4, <1>4a, <1>5, <1>6, <1>7

(* A new run touches nothing, and what comes back is a process of a host   *)
(* that still has its home.                                                *)
LEMMA StartTyped ==
    ASSUME ControlTyped, HostsTyped, Start
    PROVE  ControlTyped' /\ HostsTyped'
<1>1. opt' \in Options /\ run' = run + 1 /\ run < Runs /\ at' = 1 /\ step' = 1 /\ exit' = "none"
  BY DEF Start
<1>2. 1 \in 1..Len(opt'.targets)
  BY <1>1, OptionsTyped
<1>3. run' \in 0..Runs
  BY <1>1, RunsAssumption DEF ControlTyped
<1>4. validated' \in BOOLEAN /\ paths' \in BOOLEAN /\ disturbed' \in BOOLEAN /\ blind' \in BOOLEAN
  BY DEF Start
<1>5. step' \in 1..7 /\ lay' \in Layouts
  BY <1>1 DEF Start, ControlTyped
<1>6. ControlTyped'
  BY <1>1, <1>2, <1>3, <1>4, <1>5 DEF ControlTyped
<1>7. QED  BY <1>6, UntouchedShrinks DEF Start

LEMMA ComesBackTyped ==
    ASSUME ControlTyped, HostsTyped, ComesBack
    PROVE  /\ ControlTyped' /\ HostsTyped'
           /\ UNCHANGED <<lay, dirs, files, disks, opt, control>>
           /\ \A h \in Hosts : dirs[h] = {} => procs'[h] = procs[h]
<1>1. PICK h \in unit :
          /\ "home" \in dirs[h]
          /\ procs' = [procs EXCEPT ![h] = IF "data" \in dirs[h] THEN Processes ELSE {"monit", "agent"}]
  BY DEF ComesBack
<1>2. h \in Hosts
  BY DEF HostsTyped
<1>3. UNCHANGED <<lay, neighbour, unit, dirs, files, members, disks, opt, control>>
  BY DEF ComesBack
<1>4. procs' \in [Hosts -> SUBSET Processes]
  BY <1>1, <1>2 DEF HostsTyped, Processes
<1>5. \A g \in Hosts : dirs[g] = {} => procs'[g] = procs[g]
  BY <1>1, <1>2 DEF HostsTyped
<1>6. ControlTyped'
  BY <1>3 DEF ControlTyped, control
<1>7. HostsTyped'
  BY <1>3, <1>4 DEF HostsTyped
<1>8. QED  BY <1>3, <1>5, <1>6, <1>7

-----------------------------------------------------------------------------
(* How far the run has come: its target i is through with step s.          *)
After(i, s) == i < at \/ (i = at /\ (s < step \/ ~Running))

(* What has been cleaned stays clean.                                      *)
Cleaned ==
    \A i \in DOMAIN opt.targets :
        /\ After(i, 4) => dirs[opt.targets[i]] = {}
        /\ After(i, 5) => files[opt.targets[i]] = {}
        /\ After(i, 7) => procs[opt.targets[i]] \subseteq Missed

(* A target whose disks were not asked for is refused from the third step  *)
(* on, so that nobody gets past the sixth without having cleaned them.     *)
DisksKnown ==
    /\ step \in 2..3 /\ Running => paths \/ (~validated /\ ~CanPrepare(t))
    /\ step \in 4..6 /\ Running => paths
    /\ at > 1 \/ step = 7 => ~disks
EndsLast == exit = "ok" /\ run > 0 => at = Len(opt.targets) /\ step = 7

(* The inductive invariant. *)
Progress ==
    /\ ControlTyped /\ HostsTyped /\ EndsLast
    /\ ~disturbed /\ exit # "error" /\ run > 0 => Cleaned /\ (opt.disks => DisksKnown)

LEMMA AfterAdvances ==
    ASSUME ControlTyped, Running, Advance, opt' = opt, run' = run,
           NEW i \in DOMAIN opt.targets, NEW s \in 1..7, After(i, s)'
    PROVE  After(i, s) \/ (i = at /\ s = step)
<1>1. \/ step < 7 /\ step' = step + 1 /\ at' = at /\ exit' = exit
      \/ step = 7 /\ step' = 1 /\ at < Len(opt.targets) /\ at' = at + 1 /\ exit' = exit
      \/ step = 7 /\ step' = 7 /\ at' = at /\ exit' = "ok"
  BY Advances DEF ControlTyped
<1>2. i \in Int /\ at \in Int /\ step \in 1..7
  BY OptionsTyped DEF ControlTyped
<1>3. CASE step < 7
  BY <1>1, <1>2, <1>3 DEF After, Running
<1>4. CASE step = 7
  BY <1>1, <1>2, <1>4 DEF After, Running
<1>5. QED  BY <1>2, <1>3, <1>4

LEMMA StaysCleaned ==
    ASSUME ControlTyped, Cleaned, Shrinks, Running, Advance, opt' = opt, run' = run,
           step = 4 => dirs'[t] = {}, step = 5 => files'[t] = {}, step = 7 => procs'[t] \subseteq Missed, lay' = lay
    PROVE  Cleaned'
<1> SUFFICES ASSUME NEW i \in DOMAIN opt.targets
             PROVE  /\ After(i, 4)' => dirs'[opt.targets[i]] = {}
                    /\ After(i, 5)' => files'[opt.targets[i]] = {}
                    /\ After(i, 7)' => procs'[opt.targets[i]] \subseteq Missed
  BY DEF Cleaned, Missed
<1>1. opt.targets[i] \in Hosts
  BY OptionsTyped DEF ControlTyped
<1>2. ASSUME After(i, 4)'
      PROVE  dirs'[opt.targets[i]] = {}
  <2>1. After(i, 4) \/ (i = at /\ step = 4)
    BY <1>2, AfterAdvances
  <2>2. QED  BY <1>1, <2>1 DEF Cleaned, Shrinks, t
<1>3. ASSUME After(i, 5)'
      PROVE  files'[opt.targets[i]] = {}
  <2>1. After(i, 5) \/ (i = at /\ step = 5)
    BY <1>3, AfterAdvances
  <2>2. QED  BY <1>1, <2>1 DEF Cleaned, Shrinks, t
<1>4. ASSUME After(i, 7)'
      PROVE  procs'[opt.targets[i]] \subseteq Missed
  <2>1. After(i, 7) \/ (i = at /\ step = 7)
    BY <1>4, AfterAdvances
  <2>2. QED  BY <1>1, <2>1 DEF Cleaned, Shrinks, t
<1>5. QED  BY <1>2, <1>3, <1>4

(* A step that goes on keeps the invariant, if it did its own part.        *)
LEMMA ProgressOnwards ==
    ASSUME Progress, StepEffect, Advance, run > 0,
           ~disturbed' => \/ step # 4 \/ dirs'[t] = {},
           ~disturbed' => \/ step # 5 \/ files'[t] = {},
           ~disturbed' => \/ step # 7 \/ procs'[t] \subseteq Missed,
           ~disturbed' /\ opt.disks /\ DisksKnown => DisksKnown'
    PROVE  Progress'
<1>1. ControlTyped /\ Running /\ exit = "none" /\ opt' = opt /\ run' = run
  BY DEF Progress, StepEffect, Running
<1>2. EndsLast'
  <2>1. \/ step < 7 /\ step' = step + 1 /\ at' = at /\ exit' = exit
        \/ step = 7 /\ step' = 1 /\ at < Len(opt.targets) /\ at' = at + 1 /\ exit' = exit
        \/ step = 7 /\ step' = 7 /\ at' = at /\ exit' = "ok"
    BY <1>1, Advances DEF ControlTyped
  <2>2. CASE step = 7 /\ ~(at < Len(opt.targets))
    <3>1. at' = Len(opt'.targets) /\ step' = 7
      BY <1>1, <2>1, <2>2, OptionsTyped DEF ControlTyped
    <3>2. QED  BY <3>1 DEF EndsLast
  <2>3. CASE ~(step = 7 /\ ~(at < Len(opt.targets)))
    <3>1. exit' = "none"
      BY <1>1, <2>1, <2>3, StepsDomain DEF Advance, ControlTyped
    <3>2. QED  BY <3>1 DEF EndsLast
  <2>4. QED  BY <2>2, <2>3
<1>3. ASSUME ~disturbed'
      PROVE  Cleaned' /\ (opt'.disks => DisksKnown')
  <2>1. ~disturbed
    BY <1>3 DEF StepEffect
  <2>2. Cleaned /\ (opt.disks => DisksKnown)
    BY <1>1, <2>1 DEF Progress
  <2>3. Cleaned'
    BY <1>1, <1>3, <2>2, StaysCleaned DEF StepEffect
  <2>4. QED  BY <1>1, <1>3, <2>2, <2>3
<1>4. QED  BY <1>2, <1>3 DEF Progress, StepEffect

LEMMA ProgressFails ==
    ASSUME Progress, StepEffect, exit' = "error"
    PROVE  Progress'
BY DEF Progress, StepEffect, EndsLast

(* The positions of the steps that set something. *)
LEMMA StepsAt ==
    ASSUME ControlTyped
    PROVE  /\ Here("query") => step = 1
           /\ Here("detach") => step = 2
           /\ Here("stop") => step = 3
           /\ Here("dirs") => step = 4
           /\ Here("config") => step = 5
           /\ Here("disks") => step = 6
           /\ Here("final") => step = 7
BY Positions DEF ControlTyped

(* Where the disks stand when a step has passed. *)
LEMMA DisksOnwards ==
    ASSUME ControlTyped, HostsTyped, Running, Advance, UNCHANGED <<opt, run, lay>>, disks' => disks, DisksKnown,
           step \in 1..2 => paths' \/ (~validated' /\ ~CanPrepare(t)'),
           step \in 3..5 => paths',
           step = 6 => ~disks'
    PROVE  DisksKnown'
<1>1. \/ step < 7 /\ step' = step + 1 /\ at' = at /\ exit' = exit
      \/ step = 7 /\ step' = 1 /\ at < Len(opt.targets) /\ at' = at + 1 /\ exit' = exit
      \/ step = 7 /\ step' = 7 /\ at' = at /\ exit' = "ok"
  BY Advances DEF ControlTyped
<1>2. at \in Nat \ {0} /\ step \in 1..7
  BY OptionsTyped DEF ControlTyped
<1>3. at' > 1 \/ step' = 7 => ~disks'
  BY <1>1, <1>2 DEF DisksKnown
<1>4. step' \in 2..3 /\ Running' => paths' \/ (~validated' /\ ~CanPrepare(t)')
  BY <1>1, <1>2
<1>5. step' \in 4..6 /\ Running' => paths'
  BY <1>1, <1>2
<1>6. QED  BY <1>3, <1>4, <1>5 DEF DisksKnown

(* A step that leaves the target an env file lets nobody be prepared for   *)
(* the disks who could not be before.                                      *)
LEMMA PreparedNoMore ==
    ASSUME HostsTyped, t \in Hosts, opt.disks, Shrinks, UNCHANGED <<opt, lay, at>>,
           EnvFile(t) => EnvFile(t)', ~CanPrepare(t)
    PROVE  ~CanPrepare(t)'
<1>1. dirs'[t] \subseteq dirs[t] /\ files'[t] \subseteq files[t] /\ t' = t
  BY DEF Shrinks, t
<1>2. EnvFile(t)' <=> EnvFile(t)
  <2>1. EnvFile(t)' => EnvFile(t)
    BY <1>1 DEF EnvFile, Generated
  <2>2. QED  BY <2>1
<1>3. YascsKnown(t)' => YascsKnown(t)
  BY <1>1 DEF YascsKnown, Generated
<1>4. CASE EnvFile(t)
  BY <1>1, <1>2, <1>3, <1>4 DEF CanPrepare
<1>5. CASE ~EnvFile(t)
  BY <1>1, <1>2, <1>5 DEF CanPrepare
<1>6. QED  BY <1>4, <1>5

LEMMA QueryProgress ==
    ASSUME Progress, QuerySkipped \/ QueryDisks
    PROVE  Progress'
<1>0. StepEffect /\ ControlTyped /\ HostsTyped /\ step = 1 /\ Running /\ run > 0
  BY QueryEffect, StepsAt DEF Progress, QuerySkipped, QueryDisks, Here, Running
<1>1. CASE Fail
  BY <1>0, <1>1, ProgressFails DEF Fail
<1>2. ASSUME ~Fail
      PROVE  Progress'
  <2>1. Advance /\ UNCHANGED cluster /\ UNCHANGED opt /\ UNCHANGED lay
    BY <1>2 DEF QuerySkipped, QueryDisks, Skip, Pass
  <2>2. step' = 2 /\ at' = at
    BY <1>0, <2>1, Advances DEF ControlTyped
  <2>3. opt.disks => paths' \/ (~validated' /\ ~CanPrepare(t)')
    <3>1. CASE QueryDisks
      <4>1. Pass(TRUE, TRUE)
        BY <1>2, <3>1 DEF QueryDisks
      <4>2. ~LastStep
        BY <1>0, StepsDomain DEF LastStep
      <4>3. QED  BY <4>1, <4>2 DEF Pass
    <3>2. CASE QuerySkipped
      <4>1. opt.disks => ~validated /\ ~CanPrepare(t)
        BY <3>2 DEF QuerySkipped, Prepared
      <4>2. ~validated => ~validated'
        BY <3>2 DEF QuerySkipped, Skip, Pass
      <4>3. opt.disks /\ ~CanPrepare(t) => ~CanPrepare(t)'
        BY <2>1, <2>2 DEF CanPrepare, EnvFile, Generated, YascsKnown, t, cluster
      <4>4. QED  BY <4>1, <4>2, <4>3
    <3>3. QED  BY <3>1, <3>2
  <2>4. opt.disks /\ DisksKnown => DisksKnown'
    BY <1>0, <2>1, <2>3, DisksOnwards DEF StepEffect, Shrinks
  <2>5. QED  BY <1>0, <2>1, <2>4, ProgressOnwards
<1>3. QED  BY <1>1, <1>2

LEMMA DetachProgress ==
    ASSUME Progress,
           \/ DetachSkipped \/ DetachUnanswered \/ OMUnreachable \/ DetachDecides \/ DetachBlind
           \/ NodeRemove \/ NodeRemoveFails \/ StillListed \/ StillListedUnseen
    PROVE  Progress'
<1>0. StepEffect /\ ControlTyped /\ HostsTyped /\ t \in Hosts
  BY DetachEffect, TargetIsHost DEF Progress
<1>1. step = 2 /\ Running /\ run > 0
  <2>1. Here("detach")
    BY DEF DetachSkipped, DetachUnanswered, OMUnreachable, DetachDecides, DetachBlind, NodeRemove,
           NodeRemoveFails, StillListed, StillListedUnseen, Detaching, Removing
  <2>2. QED  BY <1>0, <2>1, StepsAt DEF Here, Running
<1>2. CASE exit' = "error"
  BY <1>0, <1>2, ProgressFails
<1>3. CASE Advance /\ disturbed' = TRUE
  BY <1>0, <1>1, <1>3, ProgressOnwards
<1>4. CASE (Pass(validated, paths) /\ UNCHANGED cluster) \/ NodeRemove
  <2>1. Advance /\ step' = 3 /\ at' = at /\ UNCHANGED opt /\ UNCHANGED lay
    BY <1>0, <1>1, <1>4, Advances DEF Pass, NodeRemove, ControlTyped
  <2>2. ~disturbed' /\ EnvFile(t) => EnvFile(t)'
    <3>1. CASE UNCHANGED cluster
      BY <2>1, <3>1 DEF EnvFile, Generated, t, cluster
    <3>2. CASE NodeRemove
      <4>1. SUFFICES ASSUME ~disturbed', EnvFile(t)
                     PROVE  EnvFile(t)'
        OBVIOUS
      <4>2. files' = files \/ "wrapper" \in files[t] \/ lay.default
        <5>1. disturbed' = (disturbed \/ (files' # files /\ "wrapper" \notin files[t] /\ ~lay.default))
          BY <3>2 DEF NodeRemove
        <5>2. QED  BY <4>1, <5>1, Zenon
      <4>3. dirs'[t] = dirs[t] \ {"data"}
        BY <1>0, <3>2 DEF NodeRemove, Removed, HostsTyped
      <4>4. "wrapper" \in files[t] => "wrapper" \in files'[t]
        <5>1. PICK gone \in SUBSET {"link"} : files' = [files EXCEPT ![t] = files[t] \ gone]
          BY <3>2 DEF NodeRemove, Removed
        <5>2. QED  BY <1>0, <5>1 DEF HostsTyped
      <4>5. t' = t /\ lay' = lay
        BY <2>1 DEF t
      <4>6. QED  BY <4>1, <4>2, <4>3, <4>4, <4>5 DEF EnvFile, Generated
    <3>3. QED  BY <1>4, <3>1, <3>2
  <2>3. validated' => validated
    BY <1>4 DEF Pass, NodeRemove
  <2>4. paths => paths'
    <3>1. ~LastStep
      BY <1>1, StepsDomain DEF LastStep
    <3>2. QED  BY <1>4, <3>1 DEF Pass, NodeRemove
  <2>5. ~disturbed' /\ opt.disks /\ DisksKnown => DisksKnown'
    <3>1. SUFFICES ASSUME ~disturbed', opt.disks, DisksKnown
                   PROVE  DisksKnown'
      OBVIOUS
    <3>2. paths \/ (~validated /\ ~CanPrepare(t))
      BY <1>1, <3>1 DEF DisksKnown
    <3>3. ~CanPrepare(t) => ~CanPrepare(t)'
      BY <1>0, <2>1, <2>2, <3>1, PreparedNoMore DEF StepEffect
    <3>4. paths' \/ (~validated' /\ ~CanPrepare(t)')
      BY <2>3, <2>4, <3>2, <3>3
    <3>5. disks' => disks
      BY <1>0 DEF StepEffect, Shrinks
    <3>6. QED  BY <1>0, <1>1, <2>1, <3>1, <3>4, <3>5, DisksOnwards DEF StepEffect
  <2>6. QED  BY <1>0, <1>1, <2>1, <2>5, ProgressOnwards
<1>5. QED
  BY <1>2, <1>3, <1>4 DEF DetachSkipped, DetachUnanswered, OMUnreachable, DetachDecides, DetachBlind,
     NodeRemove, NodeRemoveFails, StillListed, StillListedUnseen, Skip, Fail

(* A step that wants the target prepared has its disks.                    *)
LEMMA PreparedHasPaths ==
    ASSUME ControlTyped, HostsTyped, Running, disks' => disks, DisksKnown,
           Prepared, step \in 3..5, Pass(TRUE, paths)
    PROVE  DisksKnown'
<1>1. step = 3 => paths
  BY DEF Prepared, DisksKnown
<1>2. paths
  BY <1>1 DEF DisksKnown
<1>3. ~LastStep
  BY StepsDomain DEF LastStep
<1>4. paths'
  BY <1>2, <1>3 DEF Pass
<1>5. Advance /\ UNCHANGED <<opt, run, lay>>
  BY DEF Pass
<1>6. QED  BY <1>4, <1>5, DisksOnwards

LEMMA LocalProgress ==
    ASSUME Progress,
           \/ StopProcesses \/ RemoveDirectories \/ RemoveOneFails \/ RemoveConfig \/ RemoveConfigFails \/ CleanDisks
           \/ FinalCheck \/ Unprepared \/ StepFails
    PROVE  Progress'
<1>0. StepEffect /\ ControlTyped /\ HostsTyped /\ Running /\ t \in Hosts
  BY LocalEffect, TargetIsHost DEF Progress, StepEffect
<1>1. run > 0 /\ (disks' => disks) /\ UNCHANGED <<opt, run, lay>>
  BY <1>0 DEF Running, StepEffect, Shrinks
<1>2. CASE exit' = "error"
  BY <1>0, <1>2, ProgressFails
<1>3. CASE StopProcesses
  <2>1. step = 3 /\ Pass(TRUE, paths) /\ Prepared
    BY <1>0, <1>3, StepsAt DEF StopProcesses
  <2>2. opt.disks /\ DisksKnown => DisksKnown'
    BY <1>0, <1>1, <2>1, PreparedHasPaths
  <2>3. QED  BY <1>0, <1>1, <2>1, <2>2, ProgressOnwards DEF Pass
<1>4. CASE RemoveDirectories
  <2>1. step = 4 /\ Pass(TRUE, paths) /\ Prepared
    BY <1>0, <1>4, StepsAt DEF RemoveDirectories
  <2>2. opt.disks /\ DisksKnown => DisksKnown'
    BY <1>0, <1>1, <2>1, PreparedHasPaths
  <2>3. dirs'[t] = {}
    BY <1>0, <1>4 DEF RemoveDirectories, HostsTyped
  <2>4. QED  BY <1>0, <1>1, <2>1, <2>2, <2>3, ProgressOnwards DEF Pass
<1>5. CASE RemoveOneFails \/ RemoveConfigFails
  BY <1>0, <1>1, <1>5, ProgressOnwards DEF RemoveOneFails, RemoveConfigFails
<1>6. CASE RemoveConfig
  <2>1. step = 5 /\ Pass(TRUE, paths) /\ Prepared
    BY <1>0, <1>6, StepsAt DEF RemoveConfig
  <2>2. opt.disks /\ DisksKnown => DisksKnown'
    BY <1>0, <1>1, <2>1, PreparedHasPaths
  <2>3. files'[t] = {}
    BY <1>0, <1>6 DEF RemoveConfig, HostsTyped
  <2>4. QED  BY <1>0, <1>1, <2>1, <2>2, <2>3, ProgressOnwards DEF Pass
<1>7. CASE CleanDisks
  <2>1. step = 6 /\ Pass(validated, paths)
    BY <1>0, <1>7, StepsAt DEF CleanDisks
  <2>2. opt.disks /\ DisksKnown => DisksKnown'
    <3>1. SUFFICES ASSUME opt.disks, DisksKnown
                   PROVE  DisksKnown'
      OBVIOUS
    <3>2. paths
      BY <1>0, <2>1, <3>1 DEF DisksKnown
    <3>3. ~disks'
      BY <1>7, <3>1, <3>2 DEF CleanDisks
    <3>4. Advance
      BY <2>1 DEF Pass
    <3>5. QED  BY <1>0, <1>1, <2>1, <3>1, <3>3, <3>4, DisksOnwards
  <2>3. QED  BY <1>0, <1>1, <2>1, <2>2, ProgressOnwards DEF Pass
<1>8. CASE FinalCheck
  <2>1. step = 7 /\ Pass(TRUE, paths)
    BY <1>0, <1>8, StepsAt DEF FinalCheck
  <2>2. opt.disks /\ DisksKnown => DisksKnown'
    <3>1. Advance
      BY <2>1 DEF Pass
    <3>2. QED  BY <1>0, <1>1, <2>1, <3>1, DisksOnwards
  <2>3. procs'[t] \subseteq Missed
    BY <1>0, <1>8, KillShrinks DEF FinalCheck
  <2>4. QED  BY <1>0, <1>1, <2>1, <2>2, <2>3, ProgressOnwards DEF Pass
<1>9. QED
  BY <1>2, <1>3, <1>4, <1>5, <1>6, <1>7, <1>8 DEF Unprepared, StepFails, Fail

LEMMA NextProgress == Progress /\ [Next]_vars => Progress'
<1> SUFFICES ASSUME Progress, [Next]_vars
             PROVE  Progress'
  OBVIOUS
<1>0. ControlTyped /\ HostsTyped
  BY DEF Progress
<1>1. CASE Start
  <2>1. ControlTyped' /\ HostsTyped' /\ EndsLast'
    BY <1>0, <1>1, StartTyped DEF Start, EndsLast
  <2>2. at' = 1 /\ step' = 1 /\ Running'
    BY <1>1, RunsAssumption DEF Start, Running, Progress, ControlTyped
  <2>3. DOMAIN opt'.targets = 1..Len(opt'.targets)
    BY <2>1, OptionsTyped DEF ControlTyped
  <2>4. Cleaned'
    BY <2>2, <2>3 DEF Cleaned, After
  <2>5. DisksKnown'
    BY <2>2 DEF DisksKnown
  <2>6. QED  BY <2>1, <2>4, <2>5 DEF Progress
<1>2. CASE ComesBack
  <2>1. /\ ControlTyped' /\ HostsTyped'
        /\ UNCHANGED <<lay, dirs, files, disks, opt, control>>
        /\ \A h \in Hosts : dirs[h] = {} => procs'[h] = procs[h]
    BY <1>0, <1>2, ComesBackTyped
  <2>2. EndsLast'
    BY <2>1 DEF Progress, EndsLast, control
  <2>3. Cleaned => Cleaned'
    <3>1. SUFFICES ASSUME Cleaned, NEW i \in DOMAIN opt.targets
                   PROVE  /\ After(i, 4) => dirs[opt.targets[i]] = {}
                          /\ After(i, 5) => files[opt.targets[i]] = {}
                          /\ After(i, 7) => procs'[opt.targets[i]] \subseteq Missed
      BY <2>1 DEF Cleaned, After, Running, control, Missed
    <3>2. opt.targets[i] \in Hosts
      BY <1>0, OptionsTyped DEF ControlTyped
    <3>3. After(i, 7) => After(i, 4)
      BY <1>0 DEF After, ControlTyped
    <3>4. QED  BY <2>1, <3>1, <3>2, <3>3 DEF Cleaned
  <2>4. opt.disks /\ DisksKnown => DisksKnown'
    BY <2>1 DEF DisksKnown, Running, CanPrepare, EnvFile, Generated, YascsKnown, t, control
  <2>5. QED  BY <2>1, <2>2, <2>3, <2>4 DEF Progress, control
<1>3. CASE Done \/ UNCHANGED vars
  <2>1. UNCHANGED <<lay, cluster, opt, control>>
    BY <1>3 DEF Done, vars
  <2>2. ControlTyped' /\ HostsTyped' /\ EndsLast'
    BY <1>0, <2>1 DEF Progress, ControlTyped, HostsTyped, EndsLast, cluster, control
  <2>3. Cleaned => Cleaned'
    BY <2>1 DEF Cleaned, After, Running, cluster, control, Missed
  <2>4. DisksKnown => DisksKnown'
    BY <2>1 DEF DisksKnown, Running, CanPrepare, EnvFile, Generated, YascsKnown, t, cluster, control
  <2>5. QED  BY <2>1, <2>2, <2>3, <2>4 DEF Progress, control
<1>4. QED
  BY <1>1, <1>2, <1>3, QueryProgress, DetachProgress, LocalProgress DEF Next

LEMMA InitProgress == Init => Progress
<1> SUFFICES ASSUME Init
             PROVE  Progress
  OBVIOUS
<1>1. lay.yac \in BOOLEAN
  BY LayoutsAssumption DEF Init, IsLayout
<1>2. disks \in BOOLEAN /\ unit \subseteq Hosts /\ members \subseteq Hosts
  BY <1>1 DEF Init
<1>3. procs \in [Hosts -> SUBSET Processes] /\ neighbour \in [Hosts -> SUBSET Processes]
  BY DEF Init, Processes
<1>4. dirs \in [Hosts -> SUBSET Dirs] /\ files \in [Hosts -> SUBSET Files]
  BY DEF Init
<1>6. ControlTyped
  <2>1. at \in 1..Len(opt.targets)
    BY OptionsTyped DEF Init
  <2>2. run \in 0..Runs /\ step \in 1..7
    BY RunsAssumption DEF Init
  <2>3. QED  BY <2>1, <2>2 DEF Init, ControlTyped
<1>7. EndsLast /\ ~(run > 0)
  BY DEF Init, EndsLast
<1>8. QED  BY <1>2, <1>3, <1>4, <1>6, <1>7 DEF Progress, HostsTyped

(* Every variable keeps to its type, whatever the runs and interruptions.  *)
THEOREM CleanTypes == Spec => []TypeOK
<1>1. Progress => TypeOK
  BY Typed DEF Progress
<1>2. QED  BY <1>1, InitProgress, NextProgress, PTL DEF Spec

LEMMA ProgressCleans == Progress => SuccessIsClean
<1> SUFFICES ASSUME Progress, exit = "ok", run > 0, ~disturbed
             PROVE  /\ \A h \in ToSet(opt.targets) : procs[h] \subseteq Missed /\ dirs[h] = {} /\ files[h] = {}
                    /\ opt.disks => ~disks
  BY DEF SuccessIsClean, Missed
<1>1. Cleaned /\ (opt.disks => DisksKnown) /\ at = Len(opt.targets) /\ step = 7 /\ ~Running
  BY DEF Progress, EndsLast, Running
<1>2. opt.disks => ~disks
  BY <1>1 DEF DisksKnown
<1>3. ASSUME NEW h \in ToSet(opt.targets)
      PROVE  procs[h] \subseteq Missed /\ dirs[h] = {} /\ files[h] = {}
  <2>1. PICK i \in DOMAIN opt.targets : h = opt.targets[i]
    BY <1>3 DEF ToSet
  <2>2. i \in 1..Len(opt.targets) /\ Len(opt.targets) \in Nat
    BY <2>1, OptionsTyped DEF Progress, ControlTyped
  <2>3. After(i, 4) /\ After(i, 5) /\ After(i, 7)
    BY <1>1, <2>2 DEF After
  <2>4. QED  BY <1>1, <2>1, <2>3 DEF Cleaned
<1>4. QED  BY <1>2, <1>3

(* A run that ends well and in which nothing was lost leaves no process,   *)
(* directory or setting of the cluster on its targets and, if it was told  *)
(* so, no header on the shared disks: whatever earlier runs left behind,   *)
(* and although the autostart unit restarts monit between its steps.  On   *)
(* the default port the processes that show nothing of the cluster remain  *)
(* (clean_db_steps.go, clean_env.go).                                      *)
THEOREM SuccessCleans == Spec => []SuccessIsClean
<1>1. QED  BY InitProgress, NextProgress, ProgressCleans, PTL DEF Spec

==============================================================================
