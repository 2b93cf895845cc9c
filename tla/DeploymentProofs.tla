-------------------------- MODULE DeploymentProofs --------------------------
(***************************************************************************)
(* What Deployment guarantees for any layouts, options and number of runs, *)
(* whatever fails, is cut off or stopped in between.                       *)
(***************************************************************************)
EXTENDS Deployment, FiniteSetTheorems, SequenceTheorems, WellFoundedInduction, TLAPS

(* The place of a step in the list, and that a run is past it.             *)
Place(s) == CHOOSE p \in DOMAIN Steps : Steps[p] = s
Past(s) == pos > Place(s)

Kinds == {"stage", "install", "data"}
Contents == {"none", "alien", "empty", "used"}

ControlTyped ==
    /\ lay \in Layouts /\ opt \in [force : BOOLEAN, resume : BOOLEAN]
    /\ pos \in DOMAIN Steps /\ run \in Nat /\ from \in DOMAIN Steps
    /\ exit \in {"none", "ok", "error"}
    /\ disturbed \in BOOLEAN /\ swallowed \in BOOLEAN
    /\ exit # "ok" => run > 0

HostsTyped ==
    /\ dir \in [Hosts -> [Kinds -> Contents]]
    /\ soft \in [Hosts -> SUBSET {"link", "env"}]
    /\ procs \in [Hosts -> SUBSET {"agent", "db"}]
    /\ DOMAIN inst = {"built", "spfile", "active", "made"}
    /\ DOMAIN par = {"public", "inter", "vips", "scan"}
    /\ up0 \subseteq Hosts

-----------------------------------------------------------------------------
(* The configuration grows edit by edit, and the database is built from it.*)
Configured ==
    /\ ~swallowed /\ Past("gen") => toml = Asked \cap {s \in Edits : Past(s)}
    /\ ~swallowed /\ Past("deploy") => inst.built = Asked

(* What has been written to the SPFILE since the database was built takes  *)
(* effect with the restart.                                                *)
Value(s) == CASE s = "profile" -> "date" [] s = "spfile" -> "params" [] s = "tpcc" -> "tpcc"
Spoken ==
    /\ Past("deploy") =>
          inst.spfile = {v \in {"date"} \cup (lay.want \cap {"params", "tpcc"}) :
                            \E s \in {"profile", "spfile", "tpcc"} : Past(s) /\ v = Value(s)}
    /\ Past("restart") => inst.active = inst.spfile

(* What has been created in it.                                            *)
Created ==
    /\ ~swallowed /\ Past("archdg") /\ ArchdgWanted => {"arch", "dest"} \subseteq inst.made
    /\ Past("pdb") => lay.want \cap {"pdb"} \subseteq inst.made
    /\ Past("audit") /\ "audit" \in lay.want => {"policies", "jobs"} \subseteq inst.made
    /\ Past("sql") => lay.want \cap {"sql"} \subseteq inst.made

(* What a reboot needs, and the names.                                     *)
Startable ==
    /\ Past("deploy") => \A h \in Hosts : Installed(h)
    /\ Past("env") => Hosts \subseteq wrapper
    /\ ~swallowed /\ Past("service") => \A h \in Hosts : unit[h] = ServiceArg
    /\ ~swallowed /\ Past("hosts") /\ lay.yac /\ lay.mode = "local" =>
          \A h \in Hosts : \E e \in names[h] : e[1] = "scan"

AskedInv == Configured /\ Spoken /\ Created /\ Startable

-----------------------------------------------------------------------------
(* A full run that finds a running database does not get past C-002.       *)
Survives == run > 0 /\ from = 1 /\ up0 # {} => ~Past("port")
KeepInv == Survives /\ RunningDatabaseSurvives

-----------------------------------------------------------------------------
(* The names: what a run knows of the VIPs and what it has written of them. *)
Named ==
    /\ run > 0 /\ lay.vips # <<>> => par.vips = lay.vips
    /\ run > 0 /\ RequiresVIP /\ from \in 1..9 /\ Past("vip") => par.vips # <<>>
    /\ run > 0 /\ RequiresVIP /\ ~swallowed /\ Past("hosts") =>
          \A h \in Hosts : \A i \in DOMAIN par.vips : <<"vip", par.vips[i]>> \in names[h]
    /\ RequiresVIP /\ lay.mode = "vip" /\ ~swallowed /\ Past("gen") =>
          \A h \in Hosts : HasEntry(h, "vip")

-----------------------------------------------------------------------------
(* The addresses. *)
Connects(cidr) == cidr # None => \A i \in DOMAIN lay.nets : On(lay.nets[i], cidr) # {}
Connected == lay.yac /\ Past("check") => Connects(lay.inter) /\ Connects(par.inter)
Given ==
    /\ par.vips \in Seq(0..Top)
    /\ Running /\ ~Past("vip") => par.vips = lay.vips
    /\ Running /\ ~Past("hosts") => par.scan = lay.scan
FreshVIPs == run > 0 /\ par.vips # lay.vips => Fresh(par.vips)
FreshSCAN ==
    run > 0 /\ par.scan # lay.scan =>
        par.scan \notin {None} \cup ToSet(lay.addr) \cup ToSet(par.vips) \cup lay.others
AddressInv == Connected /\ Given /\ FreshVIPs /\ FreshSCAN

-----------------------------------------------------------------------------
(* A full, forced run in which nothing failed of itself, on hosts where    *)
(* nothing ran when it began: what it may rely on when it is past a step.  *)
Unaudited(made) == "policies" \notin made /\ "jobs" \notin made
Forced == run > 0 /\ opt.force /\ from = 1 /\ ~disturbed
Relies ==
    /\ ~Past("home") => \A h \in Hosts : procs[h] # {} => h \in live0
    /\ Past("check") /\ lay.yac => par.inter # None /\ par.public # None
    /\ Past("vip") /\ RequiresVIP => par.vips # <<>>
    /\ Past("extract") => dir[First].stage = "used"
    /\ Past("gen") => toml # {}
    /\ Past("software") => \A h \in Hosts : Installed(h)
    /\ Past("deploy") => \A h \in Hosts : procs[h] = {"agent", "db"}
    /\ Past("deploy") /\ ~Past("audit") => Unaudited(inst.made)
    /\ Past("env") => Hosts \subseteq wrapper
ForcedInv == Forced => IF Running THEN Relies ELSE ForcedRunRecovers

-----------------------------------------------------------------------------
(* The list of steps, and where each of them is.                           *)

LEMMA StepCount == DOMAIN Steps = 1..34 /\ Len(Steps) = 34
BY DEF Steps

LEMMA StepList ==
    /\ Steps[1] = "check" /\ Steps[2] = "port" /\ Steps[3] = "home" /\ Steps[4] = "stage"
    /\ Steps[5] = "dirs" /\ Steps[6] = "owner" /\ Steps[7] = "extract" /\ Steps[8] = "bashrc"
    /\ Steps[9] = "vip" /\ Steps[10] = "hosts" /\ Steps[11] = "scandns" /\ Steps[12] = "scanname"
    /\ Steps[13] = "gen" /\ Steps[14] = "tz" /\ Steps[15] = "charset" /\ Steps[16] = "noarch"
    /\ Steps[17] = "redo" /\ Steps[18] = "native" /\ Steps[19] = "tune" /\ Steps[20] = "software"
    /\ Steps[21] = "deploy" /\ Steps[22] = "archdg" /\ Steps[23] = "env" /\ Steps[24] = "pdb"
    /\ Steps[25] = "profile" /\ Steps[26] = "spfile" /\ Steps[27] = "tpcc" /\ Steps[28] = "audit"
    /\ Steps[29] = "sql" /\ Steps[30] = "restart" /\ Steps[31] = "verify" /\ Steps[32] = "script"
    /\ Steps[33] = "service" /\ Steps[34] = "status"
BY DEF Steps

LEMMA Places ==
    /\ Place("check") = 1 /\ Place("port") = 2 /\ Place("home") = 3 /\ Place("stage") = 4
    /\ Place("dirs") = 5 /\ Place("owner") = 6 /\ Place("extract") = 7 /\ Place("bashrc") = 8
    /\ Place("vip") = 9 /\ Place("hosts") = 10 /\ Place("scandns") = 11 /\ Place("scanname") = 12
    /\ Place("gen") = 13 /\ Place("tz") = 14 /\ Place("charset") = 15 /\ Place("noarch") = 16
    /\ Place("redo") = 17 /\ Place("native") = 18 /\ Place("tune") = 19 /\ Place("software") = 20
    /\ Place("deploy") = 21 /\ Place("archdg") = 22 /\ Place("env") = 23 /\ Place("pdb") = 24
    /\ Place("profile") = 25 /\ Place("spfile") = 26 /\ Place("tpcc") = 27 /\ Place("audit") = 28
    /\ Place("sql") = 29 /\ Place("restart") = 30 /\ Place("verify") = 31 /\ Place("script") = 32
    /\ Place("service") = 33 /\ Place("status") = 34
<1>1. \A p, q \in 1..34 : Steps[p] = Steps[q] => p = q
  BY StepList
<1>2. \A p \in 1..34 : Place(Steps[p]) = p
  BY <1>1, StepCount DEF Place
<1>3. QED  BY <1>2, StepList

LEMMA HereIs ==
    ASSUME ControlTyped, NEW s, Here(s)
    PROVE  pos = Place(s) /\ Running
<1>1. \A p, q \in 1..34 : Steps[p] = Steps[q] => p = q
  BY StepList
<1>2. QED  BY <1>1, StepCount DEF Place, Here, ControlTyped

-----------------------------------------------------------------------------
(* What the steps have in common: a step of the run goes on to the next    *)
(* one or ends the run where it is; between the runs, and when monit acts, *)
(* only processes change.                                                  *)
Goes ==
    /\ Running /\ UNCHANGED fixed
    /\ Advance \/ (exit' = "error" /\ UNCHANGED pos)
    /\ swallowed' \in {swallowed, TRUE} /\ disturbed' \in {disturbed, TRUE}

Stirs ==
    /\ UNCHANGED <<lay, opt, from, run, live0, pos, exit, par, dir, toml, soft, inst, wrapper,
                   unit, names, swallowed>>
    /\ up0' \in {up0, {}} /\ disturbed' \in {disturbed, TRUE}

LEMMA ChecksGo ==
    ASSUME ControlTyped,
           Check \/ PortCheck \/ HomeCheck \/ VIPCheck \/ WriteHostsSkipped \/ SCANDNSCheck
             \/ SCANNameCheck \/ SoftwareSkipped \/ SoftwareRefused \/ DeployRefused
             \/ ArchdgSkipped \/ ArchdgFails \/ ArchdgExists \/ AuditSkipped \/ AuditFails
             \/ VerifyInstall \/ AutostartScript \/ ServiceSkipped \/ ShowClusterStatus
             \/ SetDirOwnership \/ TuneFails \/ StepFails
    PROVE  Goes /\ UNCHANGED host
<1> USE DEF Goes, Here, Pass, PassOver, Fail, Cut, ControlTyped
<1>1. CASE Check
  BY <1>1 DEF Check
<1>2. CASE VIPCheck
  BY <1>2 DEF VIPCheck
<1>3. CASE PortCheck \/ HomeCheck \/ SetDirOwnership
  BY <1>3 DEF PortCheck, HomeCheck, SetDirOwnership
<1>4. CASE WriteHostsSkipped \/ SCANDNSCheck \/ SCANNameCheck
  BY <1>4 DEF WriteHostsSkipped, SCANDNSCheck, SCANNameCheck
<1>5. CASE SoftwareSkipped \/ SoftwareRefused \/ DeployRefused
  BY <1>5 DEF SoftwareSkipped, SoftwareRefused, DeployRefused
<1>6. CASE ArchdgSkipped \/ ArchdgFails \/ ArchdgExists
  BY <1>6 DEF ArchdgSkipped, ArchdgFails, ArchdgExists
<1>7. CASE AuditSkipped \/ AuditFails \/ VerifyInstall
  BY <1>7 DEF AuditSkipped, AuditFails, VerifyInstall
<1>8. CASE AutostartScript \/ ServiceSkipped \/ ShowClusterStatus
  BY <1>8 DEF AutostartScript, ServiceSkipped, ShowClusterStatus
<1>9. CASE TuneFails \/ StepFails
  BY <1>9 DEF TuneFails, StepFails
<1>10. QED
  BY <1>1, <1>2, <1>3, <1>4, <1>5, <1>6, <1>7, <1>8, <1>9

LEMMA OthersGo ==
    ASSUME ControlTyped,
           CreateInstallDir \/ CreateDataDirs \/ ExtractPackage \/ CleanStaleBashrc \/ WriteHosts
             \/ GenConfig \/ SetDBTimezone \/ SetCharacterSet \/ DisableArchivelog
             \/ ConfigureRedo \/ SetNativeType \/ TuneYfsParams
             \/ InstallSoftware \/ DeployDatabase \/ CreateArchdg \/ SetEnvVars \/ CreatePDBs
             \/ ConfigureDefaultProfile \/ ApplySpfileParams \/ ConfigureTPCC
             \/ ConfigureUnifiedAudit \/ ExecuteCustomSQL
             \/ RestartDatabase \/ RestartCut \/ AutostartService
    PROVE  Goes
<1> USE DEF Goes, Here, Pass, PassOver, Fail, Cut, PassOrCut, ControlTyped
<1>1. CASE CreateInstallDir \/ CreateDataDirs
  BY <1>1 DEF CreateInstallDir, CreateDataDirs, Recreate
<1>2. CASE ExtractPackage \/ CleanStaleBashrc
  BY <1>2 DEF ExtractPackage, CleanStaleBashrc
<1>3. CASE WriteHosts
  <2>1. pos = 10 /\ Running
    BY <1>3, HereIs, Places DEF WriteHosts
  <2>2. /\ UNCHANGED fixed /\ UNCHANGED swallowed /\ disturbed' \in {disturbed, TRUE}
        /\ (pos' = pos + 1 /\ UNCHANGED exit) \/ (exit' = "error" /\ UNCHANGED pos)
    BY <1>3 DEF WriteHosts
  <2>3. Advance \/ (exit' = "error" /\ UNCHANGED pos)
    BY <2>1, <2>2, StepCount DEF Advance
  <2>4. QED  BY <2>1, <2>2, <2>3
<1>4. CASE GenConfig
  BY <1>4 DEF GenConfig
<1>5. CASE SetDBTimezone \/ SetCharacterSet \/ DisableArchivelog \/ ConfigureRedo
             \/ SetNativeType \/ TuneYfsParams
  BY <1>5 DEF SetDBTimezone, SetCharacterSet, DisableArchivelog, ConfigureRedo, SetNativeType,
              TuneYfsParams, Edit
<1>6. CASE InstallSoftware
  BY <1>6 DEF InstallSoftware
<1>7. CASE DeployDatabase
  BY <1>7 DEF DeployDatabase
<1>8. CASE CreateArchdg \/ ConfigureUnifiedAudit
  BY <1>8 DEF CreateArchdg, ConfigureUnifiedAudit
<1>9. CASE SetEnvVars \/ AutostartService
  BY <1>9 DEF SetEnvVars, AutostartService
<1>10. CASE CreatePDBs \/ ConfigureDefaultProfile \/ ApplySpfileParams \/ ConfigureTPCC
              \/ ExecuteCustomSQL
  BY <1>10 DEF CreatePDBs, ConfigureDefaultProfile, ApplySpfileParams, ConfigureTPCC,
               ExecuteCustomSQL, ToSPFILE, WithInst
<1>11. CASE RestartDatabase \/ RestartCut
  BY <1>11 DEF RestartDatabase, RestartCut
<1>12. QED
  BY <1>1, <1>2, <1>3, <1>4, <1>5, <1>6, <1>7, <1>8, <1>9, <1>10, <1>11

LEMMA OutsideStirs ==
    ASSUME ControlTyped, Stopped \/ ComesBack \/ Done \/ UNCHANGED vars
    PROVE  Stirs
BY DEF Stopped, ComesBack, Done, vars, fixed, host, Stirs

(* The steps by what they do to a run.                                     *)
LEMMA StepsOfTheRun ==
    ASSUME ControlTyped, [Next]_vars
    PROVE  Start \/ Goes \/ Stirs
BY ChecksGo, OthersGo, OutsideStirs DEF Next

LEMMA ControlKeeps ==
    ASSUME ControlTyped, [Next]_vars
    PROVE  ControlTyped'
<1> USE StepCount DEF ControlTyped
<1>1. CASE Start
  <2>1. disturbed' \in BOOLEAN /\ swallowed' \in BOOLEAN
    BY <1>1 DEF Start
  <2>2. lay' = lay /\ run' = run + 1 /\ exit' = "none" /\ opt' \in Options
    BY <1>1 DEF Start
  <2>3. pos' = from' /\ from' \in {1, pos}
    BY <1>1 DEF Start
  <2>4. QED  BY <2>1, <2>2, <2>3, OptionsAssumption
<1>2. CASE Goes
  <2>1. disturbed' \in BOOLEAN /\ swallowed' \in BOOLEAN
    BY <1>2 DEF Goes
  <2>2. UNCHANGED <<lay, opt, run, from>> /\ run > 0
    BY <1>2 DEF Goes, fixed, Running
  <2>3. pos' \in 1..34 /\ exit' \in {"none", "ok", "error"}
    BY <1>2 DEF Goes, Advance, Running
  <2>4. QED  BY <2>1, <2>2, <2>3
<1>3. CASE Stirs
  BY <1>3 DEF Stirs
<1>4. QED  BY <1>1, <1>2, <1>3, StepsOfTheRun

LEMMA LayoutKept ==
    ASSUME ControlTyped, [Next]_vars
    PROVE  /\ lay' = lay /\ Hosts' = Hosts /\ First' = First
           /\ First \in Hosts /\ IsLayout(lay)
<1>1. lay' = lay
  BY StepsOfTheRun DEF Start, Goes, Stirs, fixed
<1>2. Hosts' = Hosts /\ First' = First
  BY <1>1 DEF Hosts, HostList, First
<1>3. IsLayout(lay)
  BY LayoutsAssumption DEF ControlTyped
<1>4. lay.hosts \in Seq(ToSet(lay.hosts)) /\ lay.hosts # <<>>
  BY <1>3 DEF IsLayout
<1>5. 1 \in DOMAIN lay.hosts
  BY <1>4
<1>6. First \in Hosts
  BY <1>5 DEF First, Hosts, HostList, ToSet
<1>7. QED  BY <1>1, <1>2, <1>3, <1>6

LEMMA SameLayout ==
    ASSUME lay' = lay
    PROVE  Hosts' = Hosts /\ First' = First /\ (RequiresVIP' <=> RequiresVIP)
BY DEF Hosts, HostList, First, RequiresVIP

(* What a step that makes directories anew does to them.                   *)
LEMMA Recreated ==
    ASSUME HostsTyped, NEW ds \in SUBSET Kinds, Recreate(ds)
    PROVE  /\ dir' \in [Hosts -> [Kinds -> Contents]]
           /\ \A h \in Hosts, d \in Kinds :
                 dir'[h][d] = dir[h][d] \/ (d \in ds /\ dir'[h][d] \in {"empty", "none"})
           /\ UNCHANGED <<soft, procs, wrapper, unit, names, par>>
           /\ toml' \in {toml, {}} /\ inst' \in {inst, NoDatabase}
<1>1. PICK done \in Reached : \E torn \in {{}} \cup {{h} : h \in Hosts \ done} :
        dir' = [h \in Hosts |-> [d \in DOMAIN dir[h] |->
               CASE d \in ds /\ h \in done -> "empty"
                 [] d \in ds /\ h \in torn -> "none"
                 [] OTHER -> dir[h][d]]]
  BY DEF Recreate
<1>2. PICK torn \in {{}} \cup {{h} : h \in Hosts \ done} :
        dir' = [h \in Hosts |-> [d \in DOMAIN dir[h] |->
               CASE d \in ds /\ h \in done -> "empty"
                 [] d \in ds /\ h \in torn -> "none"
                 [] OTHER -> dir[h][d]]]
  BY <1>1
<1>3. ASSUME NEW h \in Hosts
      PROVE  /\ dir'[h] \in [Kinds -> Contents]
             /\ \A d \in Kinds :
                   dir'[h][d] = dir[h][d] \/ (d \in ds /\ dir'[h][d] \in {"empty", "none"})
  <2>1. dir[h] \in [Kinds -> Contents] /\ DOMAIN dir[h] = Kinds
    BY DEF HostsTyped
  <2>2. dir'[h] = [d \in Kinds |->
               CASE d \in ds /\ h \in done -> "empty"
                 [] d \in ds /\ h \in torn -> "none"
                 [] OTHER -> dir[h][d]]
    BY <1>2, <2>1
  <2>3. ASSUME NEW d \in Kinds
        PROVE  dir'[h][d] = dir[h][d] \/ (d \in ds /\ dir'[h][d] \in {"empty", "none"})
    BY <2>2
  <2>4. \A d \in Kinds : dir'[h][d] \in Contents
    BY <2>1, <2>3 DEF Contents
  <2>5. QED  BY <2>2, <2>3, <2>4
<1>4. dir' = [h \in Hosts |-> dir'[h]]
  BY <1>2
<1>5. dir' \in [Hosts -> [Kinds -> Contents]]
  BY <1>3, <1>4
<1>6. /\ UNCHANGED <<soft, procs, wrapper, unit, names, par>>
      /\ toml' \in {toml, {}} /\ inst' \in {inst, NoDatabase}
  BY DEF Recreate, PassOrCut, Pass, Cut
<1>7. QED  BY <1>3, <1>5, <1>6

LEMMA HostsKeep ==
    ASSUME ControlTyped, HostsTyped, [Next]_vars
    PROVE  HostsTyped'
<1>l. lay' = lay /\ Hosts' = Hosts /\ First' = First /\ First \in Hosts
  BY LayoutKept
<1> USE DEF HostsTyped, Kinds, Contents
<1>1. CASE Start
  BY <1>1, <1>l DEF Start, host
<1>2. CASE Stirs /\ (Stopped \/ ComesBack \/ Done \/ UNCHANGED vars)
  <2>1. CASE Stopped
    BY <1>2, <2>1, <1>l DEF Stopped, Stirs
  <2>2. CASE ComesBack
    BY <1>2, <2>2, <1>l DEF ComesBack, Stirs
  <2>3. CASE Done \/ UNCHANGED vars
    BY <1>2, <2>3, <1>l DEF Done, vars, Stirs, host
  <2>4. QED  BY <1>2, <2>1, <2>2, <2>3
<1>3. CASE Goes /\ UNCHANGED host /\ UNCHANGED par
  BY <1>3, <1>l DEF Goes, fixed, host
<1>4. CASE CreateInstallDir \/ CreateDataDirs
  <2>1. CASE Fail
    BY <1>3, <1>4, <2>1, OthersGo DEF Fail
  <2>2. CASE Recreate({"stage"}) \/ Recreate({"install", "data"})
    <3>1. {"stage"} \in SUBSET Kinds /\ {"install", "data"} \in SUBSET Kinds
      OBVIOUS
    <3>2. /\ dir' \in [Hosts -> [Kinds -> Contents]]
          /\ UNCHANGED <<soft, procs, par>> /\ inst' \in {inst, NoDatabase}
      BY <2>2, <3>1, Recreated
    <3>3. up0' = up0
      BY <1>4, OthersGo DEF Goes, fixed
    <3>4. QED  BY <1>l, <3>2, <3>3 DEF NoDatabase
  <2>3. QED  BY <1>4, <2>1, <2>2 DEF CreateInstallDir, CreateDataDirs
<1>5. CASE ExtractPackage
  <2>1. UNCHANGED <<soft, procs, inst, up0, par>>
    BY <1>5, OthersGo DEF ExtractPackage, Goes, fixed, Fail, Pass, Cut, host
  <2>2. dir' \in {dir, [dir EXCEPT ![First].stage = "used"]}
    BY <1>5 DEF ExtractPackage, Fail, host
  <2>3. QED  BY <1>l, <2>1, <2>2
<1>6. CASE CleanStaleBashrc \/ WriteHosts \/ GenConfig \/ SetEnvVars \/ AutostartService
  <2>1. UNCHANGED <<dir, soft, procs, inst, up0>>
    BY <1>6, OthersGo DEF CleanStaleBashrc, WriteHosts, GenConfig, SetEnvVars, AutostartService, Goes,
                          fixed, host, Fail
  <2>2. DOMAIN par' = DOMAIN par
    BY <1>6 DEF CleanStaleBashrc, WriteHosts, GenConfig, SetEnvVars, AutostartService, Fail, Pass, Cut, PassOrCut
  <2>3. QED  BY <1>l, <2>1, <2>2
<1>7. CASE SetDBTimezone \/ SetCharacterSet \/ DisableArchivelog \/ ConfigureRedo
             \/ SetNativeType \/ TuneYfsParams
  <2>1. UNCHANGED <<dir, soft, procs, inst, up0, par>>
    BY <1>7, OthersGo DEF SetDBTimezone, SetCharacterSet, DisableArchivelog, ConfigureRedo,
                          SetNativeType, TuneYfsParams, Edit, Goes, fixed, host, Fail, Pass
  <2>2. QED  BY <1>l, <2>1
<1>8. CASE InstallSoftware
  <2>1. UNCHANGED <<inst, up0, par>>
    BY <1>8, OthersGo DEF InstallSoftware, Goes, fixed, PassOrCut, Pass, Cut
  <2>2. PICK done \in Reached :
          /\ soft' = [h \in Hosts |-> IF h \in done THEN {"link", "env"} ELSE {}]
          /\ procs' = [h \in Hosts |-> (procs[h] \ {"agent"}) \cup IF h \in done THEN {"agent"} ELSE {}]
          /\ dir' = [h \in Hosts |-> IF h \in done THEN [dir[h] EXCEPT !.install = "used"] ELSE dir[h]]
    BY <1>8 DEF InstallSoftware
  <2>3. soft' \in [Hosts -> SUBSET {"link", "env"}] /\ procs' \in [Hosts -> SUBSET {"agent", "db"}]
    BY <2>2
  <2>4. dir' \in [Hosts -> [Kinds -> Contents]]
    BY <2>2
  <2>5. QED  BY <1>l, <2>1, <2>3, <2>4
<1>9. CASE DeployDatabase
  <2>1. UNCHANGED <<soft, up0, par>>
    BY <1>9, OthersGo DEF DeployDatabase, Goes, fixed, PassOrCut, Pass, Cut
  <2>2. PICK done \in Reached :
          /\ dir' = [h \in Hosts |-> [dir[h] EXCEPT !.data = IF h \in done THEN "used" ELSE "empty"]]
          /\ procs' = [h \in Hosts |-> {"agent"} \cup IF h \in done THEN {"db"} ELSE {}]
          /\ inst' = [NoDatabase EXCEPT !.built = IF done = {} THEN {} ELSE toml]
    BY <1>9 DEF DeployDatabase
  <2>3. DOMAIN inst' = {"built", "spfile", "active", "made"}
    BY <2>2 DEF NoDatabase
  <2>4. procs' \in [Hosts -> SUBSET {"agent", "db"}]
    BY <2>2
  <2>5. dir' \in [Hosts -> [Kinds -> Contents]]
    BY <2>2
  <2>6. QED  BY <1>l, <2>1, <2>3, <2>4, <2>5
<1>10. CASE CreateArchdg \/ ConfigureUnifiedAudit \/ CreatePDBs \/ ConfigureDefaultProfile
              \/ ApplySpfileParams \/ ConfigureTPCC \/ ExecuteCustomSQL
  <2>1. UNCHANGED <<dir, soft, procs, up0, par>> /\ DOMAIN inst' = DOMAIN inst
    BY <1>10, OthersGo DEF CreateArchdg, ConfigureUnifiedAudit, CreatePDBs, ConfigureDefaultProfile,
           ApplySpfileParams, ConfigureTPCC, ExecuteCustomSQL, ToSPFILE, WithInst, Goes, fixed, host,
           Fail, Pass, Cut
  <2>2. QED  BY <1>l, <2>1
<1>11. CASE RestartDatabase \/ RestartCut
  <2>1. UNCHANGED <<dir, soft, up0, par>> /\ DOMAIN inst' = DOMAIN inst
    BY <1>11, OthersGo DEF RestartDatabase, RestartCut, Goes, fixed, host, Fail, Pass, Cut
  <2>2. procs' = procs \/ procs' = [h \in Hosts |-> IF Bootable THEN procs[h] \cup {"db"} ELSE procs[h] \ {"db"}]
           \/ procs' = [h \in Hosts |-> procs[h] \ {"db"}]
    BY <1>11 DEF RestartDatabase, RestartCut, Fail, host
  <2>3. QED  BY <1>l, <2>1, <2>2
<1>12. CASE Check \/ VIPCheck
  <2>1. UNCHANGED <<dir, soft, procs, inst, up0>> /\ DOMAIN par' = DOMAIN par
    BY <1>12, ChecksGo DEF Check, VIPCheck, Goes, fixed, host, Fail, Pass
  <2>2. QED  BY <1>l, <2>1
<1>13. CASE \/ PortCheck \/ HomeCheck \/ WriteHostsSkipped \/ SCANDNSCheck
           \/ SCANNameCheck \/ SoftwareSkipped \/ SoftwareRefused \/ DeployRefused
           \/ ArchdgSkipped \/ ArchdgFails \/ ArchdgExists \/ AuditSkipped \/ AuditFails
           \/ VerifyInstall \/ AutostartScript \/ ServiceSkipped \/ ShowClusterStatus
           \/ SetDirOwnership \/ TuneFails \/ StepFails
  <2>1. UNCHANGED par
    BY <1>13 DEF PortCheck, HomeCheck, WriteHostsSkipped, SCANDNSCheck, SCANNameCheck,
           SoftwareSkipped, SoftwareRefused, DeployRefused, ArchdgSkipped, ArchdgFails, ArchdgExists,
           AuditSkipped, AuditFails, VerifyInstall, AutostartScript, ServiceSkipped,
           ShowClusterStatus, SetDirOwnership, TuneFails, StepFails, Pass, PassOver, Fail, Cut
  <2>2. QED  BY <1>3, <1>13, <2>1, ChecksGo
<1>14. QED
  BY <1>1, <1>2, <1>4, <1>5, <1>6, <1>7, <1>8, <1>9, <1>10, <1>11, <1>12, <1>13, OutsideStirs DEF Next

-----------------------------------------------------------------------------
(* The steps that leave the hosts as they are.                             *)
Quiet ==
    \/ Check \/ PortCheck \/ HomeCheck \/ VIPCheck \/ WriteHostsSkipped \/ SCANDNSCheck
    \/ SCANNameCheck \/ SoftwareSkipped \/ SoftwareRefused \/ DeployRefused
    \/ ArchdgSkipped \/ ArchdgFails \/ ArchdgExists \/ AuditSkipped \/ AuditFails
    \/ VerifyInstall \/ AutostartScript \/ ServiceSkipped \/ ShowClusterStatus
    \/ SetDirOwnership \/ TuneFails \/ StepFails

(* Why such a step may be passed: it is one that only looks, or there was  *)
(* nothing to do, or the failure was passed over.                          *)
Harmless ==
    \/ pos' = pos
    \/ pos \in {1, 2, 3, 6, 9, 11, 12, 20, 31, 32, 34}
    \/ pos \in {10, 19, 22, 33} /\ swallowed'
    \/ pos = 10 /\ ~lay.yac
    \/ pos = 22 /\ (ArchdgWanted => {"arch", "dest"} \subseteq inst.made)
    \/ pos = 28 /\ "audit" \notin lay.want

LEMMA QuietSteps ==
    ASSUME ControlTyped, Quiet
    PROVE  Goes /\ UNCHANGED host /\ Harmless
<1>g. Goes /\ UNCHANGED host
  BY ChecksGo DEF Quiet
<1>1. CASE Check \/ PortCheck \/ HomeCheck \/ SetDirOwnership \/ VIPCheck
  <2>1. Here("check") \/ Here("port") \/ Here("home") \/ Here("owner") \/ Here("vip")
    BY <1>1 DEF Check, PortCheck, HomeCheck, SetDirOwnership, VIPCheck
  <2>2. QED  BY <1>g, <2>1, HereIs, Places DEF Harmless
<1>2. CASE SCANDNSCheck \/ SCANNameCheck \/ SoftwareSkipped \/ VerifyInstall
             \/ AutostartScript \/ ShowClusterStatus
  <2>1. Here("scandns") \/ Here("scanname") \/ Here("software") \/ Here("verify") \/ Here("script")
          \/ Here("status")
    BY <1>2 DEF SCANDNSCheck, SCANNameCheck, SoftwareSkipped, VerifyInstall, AutostartScript,
                ShowClusterStatus
  <2>2. QED  BY <1>g, <2>1, HereIs, Places DEF Harmless
<1>3. CASE SoftwareRefused \/ DeployRefused \/ ArchdgFails \/ AuditFails \/ StepFails
  BY <1>g, <1>3 DEF SoftwareRefused, DeployRefused, ArchdgFails, AuditFails, StepFails, Fail, Cut, Harmless
<1>4. CASE WriteHostsSkipped
  <2>1. pos = 10
    BY <1>4, HereIs, Places DEF WriteHostsSkipped
  <2>2. ~lay.yac \/ swallowed'
    BY <1>4 DEF WriteHostsSkipped, PassOver
  <2>3. QED  BY <1>g, <2>1, <2>2 DEF Harmless
<1>5. CASE TuneFails \/ ServiceSkipped
  <2>1. pos \in {19, 33}
    BY <1>5, HereIs, Places DEF TuneFails, ServiceSkipped
  <2>2. swallowed'
    BY <1>5 DEF TuneFails, ServiceSkipped, PassOver
  <2>3. QED  BY <1>g, <2>1, <2>2 DEF Harmless
<1>6. CASE ArchdgSkipped \/ ArchdgExists
  <2>1. pos = 22
    BY <1>6, HereIs, Places DEF ArchdgSkipped, ArchdgExists
  <2>2. swallowed' \/ (ArchdgWanted => {"arch", "dest"} \subseteq inst.made)
    BY <1>6 DEF ArchdgSkipped, ArchdgExists, PassOver
  <2>3. QED  BY <1>g, <2>1, <2>2 DEF Harmless
<1>7. CASE AuditSkipped
  <2>1. pos = 28 /\ "audit" \notin lay.want
    BY <1>7, HereIs, Places DEF AuditSkipped
  <2>2. QED  BY <1>g, <2>1 DEF Harmless
<1>8. QED
  BY <1>1, <1>2, <1>3, <1>4, <1>5, <1>6, <1>7 DEF Quiet

-----------------------------------------------------------------------------
(* The landmarks of a run that ends well.                                  *)

LEMMA QuietStepsKeepAsked ==
    ASSUME ControlTyped, AskedInv, Quiet
    PROVE  AskedInv'
<1>1. Goes /\ UNCHANGED host /\ Harmless
  BY QuietSteps
<1>2. /\ pos' = pos \/ pos' = pos + 1
      /\ UNCHANGED <<lay, dir, toml, soft, inst, wrapper, unit, names>>
  BY <1>1 DEF Goes, fixed, host, Advance
<1>s. swallowed => swallowed'
  BY <1>1 DEF Goes
<1>3. pos \in 1..34
  BY StepCount DEF ControlTyped
<1>4. Asked' = Asked /\ Hosts' = Hosts /\ ArchdgWanted' = ArchdgWanted /\ ServiceArg' = ServiceArg
  BY <1>2 DEF Asked, Hosts, HostList, ArchdgWanted, ServiceArg
<1> USE <1>2, <1>3, <1>4, <1>s, Places DEF Past
<1>5. Configured'
  <2>1. \A s \in Edits : Past(s)' /\ ~swallowed' => Past(s)
    BY <1>1 DEF Harmless, Edits
  <2>2. Past("deploy")' => Past("deploy")
    BY <1>1 DEF Harmless
  <2>3. \A s \in Edits : Past(s) => Past(s)'
    BY DEF Edits
  <2>4. QED  BY <2>1, <2>2, <2>3 DEF AskedInv, Configured, Edits
<1>6. Spoken'
  <2>1. \A s \in {"profile", "spfile", "tpcc", "restart", "deploy"} : Past(s)' <=> Past(s)
    BY <1>1 DEF Harmless
  <2>2. QED  BY <2>1 DEF AskedInv, Spoken, Value
<1>7. Created'
  <2>1. \A s \in {"pdb", "sql"} : Past(s)' <=> Past(s)
    BY <1>1 DEF Harmless
  <2>2. Past("archdg")' /\ ~swallowed' /\ ArchdgWanted => Past("archdg") \/ {"arch", "dest"} \subseteq inst.made
    BY <1>1 DEF Harmless
  <2>3. Past("audit")' /\ "audit" \in lay.want => Past("audit")
    BY <1>1 DEF Harmless
  <2>4. QED  BY <2>1, <2>2, <2>3 DEF AskedInv, Created
<1>8. Startable'
  <2>1. \A s \in {"deploy", "env"} : Past(s)' <=> Past(s)
    BY <1>1 DEF Harmless
  <2>2. Past("service")' /\ ~swallowed' => Past("service")
    BY <1>1 DEF Harmless
  <2>3. Past("hosts")' /\ ~swallowed' /\ lay.yac => Past("hosts")
    BY <1>1 DEF Harmless
  <2>4. QED  BY <2>1, <2>2, <2>3 DEF AskedInv, Startable, Installed
<1>9. QED  BY <1>5, <1>6, <1>7, <1>8 DEF AskedInv

(* Before C-010 no landmark has been reached.                              *)
LEMMA EarlyIsAsked == ControlTyped /\ pos \in 1..10 => AskedInv
BY Places DEF AskedInv, Configured, Spoken, Created, Startable, Past

LEMMA AskedFromTheStart ==
    ASSUME ControlTyped, AskedInv, Start
    PROVE  AskedInv'
<1>1. lay' = lay /\ UNCHANGED host /\ pos' \in {1, pos}
  BY DEF Start
<1>2. CASE pos' = 1
  <2>1. ControlTyped'
    BY ControlKeeps DEF Next
  <2>2. (pos \in 1..10)'
    BY <1>2
  <2>3. QED  BY <2>1, <2>2, EarlyIsAsked, PTL
<1>3. CASE pos' = pos /\ pos # 1
  <2>1. swallowed' = swallowed
    <3>1. from' # 1
      BY <1>3 DEF Start
    <3>2. QED  BY <3>1 DEF Start, ControlTyped
  <2>2. /\ Asked' = Asked /\ Hosts' = Hosts /\ ArchdgWanted' = ArchdgWanted /\ ServiceArg' = ServiceArg
        /\ UNCHANGED <<lay, dir, toml, soft, inst, wrapper, unit, names, pos, swallowed>>
    BY <1>1, <1>3, <2>1 DEF Asked, Hosts, HostList, ArchdgWanted, ServiceArg, host
  <2>3. Configured' /\ Spoken' /\ Created' /\ Startable'
    BY <2>2 DEF AskedInv, Configured, Spoken, Created, Startable, Past, Installed
  <2>4. QED  BY <2>3 DEF AskedInv
<1>4. QED  BY <1>1, <1>2, <1>3

(* The steps that make directories come before the landmarks.              *)
LEMMA AskedBeforeC010 ==
    ASSUME ControlTyped, AskedInv,
           CreateInstallDir \/ CreateDataDirs \/ ExtractPackage \/ CleanStaleBashrc
    PROVE  AskedInv'
<1>1. pos \in {4, 5, 7, 8} /\ Goes
  BY HereIs, Places, OthersGo DEF CreateInstallDir, CreateDataDirs, ExtractPackage, CleanStaleBashrc
<1>2. (pos \in 1..10)'
  BY <1>1 DEF Goes, Advance
<1>3. ControlTyped'
  BY ControlKeeps DEF Next
<1>4. QED  BY <1>2, <1>3, EarlyIsAsked, PTL

(* C-010 puts the SCAN name into every /etc/hosts.                         *)
LEMMA AskedAtC010 ==
    ASSUME ControlTyped, AskedInv, WriteHosts
    PROVE  AskedInv'
<1>1. pos = 10 /\ Goes /\ ControlTyped'
  BY HereIs, Places, OthersGo, ControlKeeps DEF WriteHosts, Next
<1>2. CASE pos' = 10
  <2>1. (pos \in 1..10)'
    BY <1>2
  <2>2. QED  BY <1>1, <2>1, EarlyIsAsked, PTL
<1>3. CASE pos' = 11
  <2>1. PICK done \in Reached :
          /\ names' = [h \in Hosts |-> IF h \in done THEN names[First] \cup Entries(SCAN) ELSE names[h]]
          /\ pos' = IF done = Hosts THEN pos + 1 ELSE pos
    BY DEF WriteHosts
  <2>2. lay.mode = "local" => \A h \in Hosts : <<"scan", SCAN>> \in names'[h]
    BY <1>1, <1>3, <2>1 DEF Entries
  <2>3. lay' = lay /\ Hosts' = Hosts
    BY <1>1 DEF Goes, fixed, Hosts, HostList
  <2>4. lay.mode = "local" => \A h \in Hosts : \E e \in names'[h] : e[1] = "scan"
    BY <2>2
  <2>5. QED  BY <1>3, <2>3, <2>4, Places DEF AskedInv, Configured, Spoken, Created, Startable, Past
<1>4. QED  BY <1>1, <1>2, <1>3 DEF Goes, Advance

(* C-014 .. C-020: the configuration is what the steps so far add to it.   *)
LEMMA AskedOfTheConfiguration ==
    ASSUME ControlTyped, AskedInv, NEW s \in Edits, Here(s), Goes,
           UNCHANGED <<dir, soft, inst, wrapper, unit, names>>,
           pos' = pos + 1,
           toml' = IF s = "gen" THEN {"gen"}
                   ELSE IF s \in Asked THEN toml \cup {s} ELSE toml
    PROVE  AskedInv'
<1>1. lay' = lay /\ Hosts' = Hosts /\ Asked' = Asked
  BY DEF Goes, fixed, Hosts, HostList, Asked
<1>2. pos = Place(s) /\ pos \in 13..19
  BY HereIs, Places DEF Edits
<1>3. swallowed => swallowed'
  BY DEF Goes
<1>4. Configured'
  <2>1. ASSUME ~swallowed'
        PROVE  toml' = Asked \cap {t \in Edits : pos + 1 > Place(t)}
    <3>1. s = "gen" => pos = 13
      BY <1>2, Places
    <3>2. s # "gen" => pos > 13 /\ toml = Asked \cap {t \in Edits : pos > Place(t)}
      BY <1>2, <1>3, <2>1, Places DEF AskedInv, Configured, Past, Edits
    <3>3. \A t \in Edits : pos + 1 > Place(t) <=> (pos > Place(t) \/ t = s)
      BY <1>2, Places DEF Edits
    <3>4. s = "gen" => \A t \in Edits : pos + 1 > Place(t) <=> t = "gen"
      BY <3>1, Places DEF Edits
    <3>5. "gen" \in Asked
      BY DEF Asked
    <3>6. QED  BY <3>2, <3>3, <3>4, <3>5
  <2>2. QED  BY <1>1, <1>2, <2>1, Places DEF Configured, Past
<1>5. Spoken' /\ Created'
  BY <1>2, Places DEF Spoken, Created, Past
<1>6. Startable'
  BY <1>1, <1>2, <1>3, Places DEF AskedInv, Startable, Past
<1>7. QED  BY <1>4, <1>5, <1>6 DEF AskedInv

(* Nothing is lost where a run stands still.                               *)
LEMMA AskedStands ==
    ASSUME ControlTyped, AskedInv,
           UNCHANGED <<lay, pos, dir, toml, soft, inst, wrapper, unit, names>>,
           swallowed => swallowed'
    PROVE  AskedInv'
<1>1. /\ Asked' = Asked /\ Hosts' = Hosts /\ ArchdgWanted' = ArchdgWanted /\ ServiceArg' = ServiceArg
  BY DEF Asked, Hosts, HostList, ArchdgWanted, ServiceArg
<1>2. Configured'
  BY <1>1 DEF AskedInv, Configured, Past
<1>3. Spoken' /\ Created'
  BY <1>1 DEF AskedInv, Spoken, Created, Past
<1>4. Startable'
  BY <1>1 DEF AskedInv, Startable, Past, Installed
<1>5. QED  BY <1>2, <1>3, <1>4 DEF AskedInv

LEMMA AskedOfTheEdits ==
    ASSUME ControlTyped, AskedInv,
           GenConfig \/ SetDBTimezone \/ SetCharacterSet \/ DisableArchivelog \/ ConfigureRedo
             \/ SetNativeType \/ TuneYfsParams
    PROVE  AskedInv'
<1>g. Goes
  BY OthersGo
<1>s. swallowed => swallowed'
  BY <1>g DEF Goes
<1>1. CASE Fail
  BY <1>1, <1>s, AskedStands DEF Fail, fixed, host
<1>2. ASSUME ~Fail, NEW s \in Edits \ {"gen"}, Edit(s, s \in Asked)
      PROVE  AskedInv'
  <2>1. Here(s) /\ UNCHANGED <<dir, soft, inst, wrapper, unit, names>> /\ Advance
    BY <1>2 DEF Edit, Pass
  <2>2. toml' = IF s \in Asked THEN toml \cup {s} ELSE toml
    BY <1>2 DEF Edit
  <2>3. pos' = pos + 1
    <3>1. pos \in 1..33
      BY <2>1, HereIs, Places DEF Edits
    <3>2. QED  BY <2>1, <3>1, StepCount DEF Advance
  <2>4. QED  BY <1>2, <1>g, <2>1, <2>2, <2>3, AskedOfTheConfiguration
<1>3. CASE GenConfig /\ ~Fail
  <2>1. Here("gen") /\ toml' = {"gen"} /\ UNCHANGED <<dir, soft, inst, wrapper, unit, names>> /\ Advance
    BY <1>3 DEF GenConfig, Pass
  <2>2. pos' = pos + 1
    BY <2>1, HereIs, Places, StepCount DEF Advance
  <2>3. "gen" \in Edits
    BY DEF Edits
  <2>4. QED  BY <1>g, <2>1, <2>2, <2>3, AskedOfTheConfiguration
<1>4. CASE ~Fail /\ ~GenConfig
  <2>1. \E s \in Edits \ {"gen"} : Edit(s, s \in Asked)
    <3>1. "tz" \in Asked /\ "redo" \in Asked
      BY DEF Asked
    <3>2. "charset" \in lay.want <=> "charset" \in Asked
      BY DEF Asked
    <3>3. "noarch" \in lay.want <=> "noarch" \in Asked
      BY DEF Asked
    <3>4. "native" \in lay.want <=> "native" \in Asked
      BY DEF Asked
    <3>5. (lay.yac /\ "tune" \in lay.want) <=> "tune" \in Asked
      BY DEF Asked
    <3>6. CASE SetDBTimezone
      BY <1>4, <3>1, <3>6 DEF SetDBTimezone, Edit, Edits
    <3>7. CASE SetCharacterSet
      BY <3>2, <3>7 DEF SetCharacterSet, Edit, Edits
    <3>8. CASE DisableArchivelog
      BY <3>3, <3>8 DEF DisableArchivelog, Edit, Edits
    <3>9. CASE ConfigureRedo
      BY <3>1, <3>9 DEF ConfigureRedo, Edit, Edits
    <3>10. CASE SetNativeType
      BY <3>4, <3>10 DEF SetNativeType, Edit, Edits
    <3>11. CASE TuneYfsParams
      BY <3>5, <3>11 DEF TuneYfsParams, Edit, Edits
    <3>12. QED  BY <1>4, <3>6, <3>7, <3>8, <3>9, <3>10, <3>11
  <2>2. QED  BY <1>2, <1>4, <2>1
<1>5. QED  BY <1>1, <1>3, <1>4

(* C-021 comes after the configuration and before the database.            *)
LEMMA AskedOfTheSoftware ==
    ASSUME ControlTyped, AskedInv, InstallSoftware
    PROVE  AskedInv'
<1>1. Goes /\ UNCHANGED <<toml, inst, wrapper, unit, names>>
  BY OthersGo DEF InstallSoftware
<1>2. pos = 20 /\ pos' \in {20, 21}
  BY <1>1, HereIs, Places DEF InstallSoftware, Goes, Advance
<1>3. lay' = lay /\ Hosts' = Hosts /\ Asked' = Asked
  BY <1>1 DEF Goes, fixed, Hosts, HostList, Asked
<1>4. swallowed => swallowed'
  BY <1>1 DEF Goes
<1>5. Configured'
  <2>1. \A s \in Edits : pos > Place(s) /\ pos' > Place(s)
    BY <1>2, Places DEF Edits
  <2>2. QED  BY <1>1, <1>2, <1>3, <1>4, <2>1, Places DEF AskedInv, Configured, Past
<1>6. Spoken' /\ Created'
  BY <1>2, Places DEF Spoken, Created, Past
<1>7. Startable'
  BY <1>1, <1>2, <1>3, <1>4, Places DEF AskedInv, Startable, Past
<1>8. QED  BY <1>5, <1>6, <1>7 DEF AskedInv

(* C-022 builds the database from the whole configuration, on every host.  *)
LEMMA AskedOfTheDatabase ==
    ASSUME ControlTyped, HostsTyped, AskedInv, DeployDatabase
    PROVE  AskedInv'
<1>1. Goes /\ UNCHANGED <<toml, soft, wrapper, unit, names>>
  BY OthersGo DEF DeployDatabase
<1>2. pos = 21 /\ pos' \in {21, 22}
  BY <1>1, HereIs, Places DEF DeployDatabase, Goes, Advance
<1>3. lay' = lay /\ Hosts' = Hosts /\ Asked' = Asked /\ Hosts # {}
  BY <1>1, LayoutKept DEF Goes, fixed, Hosts, HostList, Asked, Next
<1>4. swallowed => swallowed'
  BY <1>1 DEF Goes
<1>5. ~swallowed => toml = Asked
  <2>1. \A s \in Edits : pos > Place(s)
    BY <1>2, Places DEF Edits
  <2>2. Asked \subseteq Edits
    BY DEF Asked, Edits
  <2>3. QED  BY <1>2, <2>1, <2>2, Places DEF AskedInv, Configured, Past
<1>6. PICK done \in Reached :
        /\ dir' = [h \in Hosts |-> [dir[h] EXCEPT !.data = IF h \in done THEN "used" ELSE "empty"]]
        /\ inst' = [NoDatabase EXCEPT !.built = IF done = {} THEN {} ELSE toml]
        /\ PassOrCut(done)
  BY DEF DeployDatabase
<1>7. pos' = 22 => done = Hosts
  BY <1>2, <1>6 DEF PassOrCut, Cut
<1>8. Configured'
  <2>1. \A s \in Edits : pos' > Place(s)
    BY <1>2, Places DEF Edits
  <2>2. pos' = 22 => inst'.built = toml
    BY <1>3, <1>6, <1>7 DEF NoDatabase
  <2>3. Asked \subseteq Edits
    BY DEF Asked, Edits
  <2>4. QED  BY <1>1, <1>2, <1>3, <1>4, <1>5, <2>1, <2>2, <2>3, Places DEF Configured, Past
<1>9. Spoken'
  <2>1. inst'.spfile = {}
    BY <1>6 DEF NoDatabase
  <2>2. \A s \in {"profile", "spfile", "tpcc", "restart"} : ~(pos' > Place(s))
    BY <1>2, Places
  <2>3. QED  BY <2>1, <2>2 DEF Spoken, Past
<1>10. Created'
  BY <1>2, Places DEF Created, Past
<1>11. Startable'
  <2>1. \A h \in Hosts : Installed(h)
    BY DEF DeployDatabase
  <2>2. \A h \in Hosts : dir'[h].install = dir[h].install
    BY <1>6 DEF HostsTyped, Kinds
  <2>3. \A h \in Hosts : Installed(h)'
    BY <1>1, <2>1, <2>2 DEF Installed
  <2>4. QED  BY <1>1, <1>2, <1>3, <1>4, <2>3, Places DEF AskedInv, Startable, Past
<1>12. QED  BY <1>8, <1>9, <1>10, <1>11 DEF AskedInv

(* From C-023 on the database only gains, and a step that passes leaves    *)
(* what it is there for.                                                   *)
Gained ==
    /\ pos = 22 /\ ArchdgWanted => {"arch", "dest"} \subseteq inst'.made
    /\ pos = 23 => Hosts \subseteq wrapper'
    /\ pos = 24 => lay.want \cap {"pdb"} \subseteq inst'.made
    /\ pos = 28 /\ "audit" \in lay.want => {"policies", "jobs"} \subseteq inst'.made
    /\ pos = 29 => lay.want \cap {"sql"} \subseteq inst'.made

LEMMA AskedOfTheGains ==
    ASSUME ControlTyped, AskedInv, Goes, Spoken', pos \in 22..32,
           UNCHANGED <<dir, toml, soft, unit, names>>,
           inst'.built = inst.built, inst.made \subseteq inst'.made, wrapper \subseteq wrapper',
           pos' = pos \/ Gained
    PROVE  AskedInv'
<1>1. /\ Asked' = Asked /\ Hosts' = Hosts /\ ArchdgWanted' = ArchdgWanted /\ ServiceArg' = ServiceArg
      /\ lay' = lay
  BY DEF Goes, fixed, Asked, Hosts, HostList, ArchdgWanted, ServiceArg
<1>2. swallowed => swallowed'
  BY DEF Goes
<1>3. pos' = pos \/ pos' = pos + 1
  BY DEF Goes, Advance
<1>4. Configured'
  <2>1. \A s \in Edits : pos > Place(s) /\ pos' > Place(s)
    BY <1>3, Places DEF Edits
  <2>2. pos > Place("deploy") /\ pos > Place("gen")
    BY Places
  <2>3. QED  BY <1>1, <1>2, <2>1, <2>2 DEF AskedInv, Configured, Past
<1>5. Created'
  <2>1. ~swallowed' /\ pos' > 22 /\ ArchdgWanted => {"arch", "dest"} \subseteq inst'.made
    BY <1>2, <1>3, Places DEF Gained, AskedInv, Created, Past
  <2>2. pos' > 24 => lay.want \cap {"pdb"} \subseteq inst'.made
    BY <1>3, Places DEF Gained, AskedInv, Created, Past
  <2>3. pos' > 28 /\ "audit" \in lay.want => {"policies", "jobs"} \subseteq inst'.made
    BY <1>3, Places DEF Gained, AskedInv, Created, Past
  <2>4. pos' > 29 => lay.want \cap {"sql"} \subseteq inst'.made
    BY <1>3, Places DEF Gained, AskedInv, Created, Past
  <2>5. QED  BY <1>1, <2>1, <2>2, <2>3, <2>4, Places DEF Created, Past
<1>6. Startable'
  <2>1. pos' > 23 => Hosts \subseteq wrapper'
    BY <1>3, Places DEF Gained, AskedInv, Startable, Past
  <2>2. \A h \in Hosts : Installed(h)'
    BY Places DEF AskedInv, Startable, Past, Installed
  <2>3. ~(pos' > 33)
    BY <1>3
  <2>4. ~swallowed' /\ lay.yac /\ lay.mode = "local" => \A h \in Hosts : \E e \in names'[h] : e[1] = "scan"
    BY <1>2, Places DEF AskedInv, Startable, Past
  <2>5. QED  BY <1>1, <2>1, <2>2, <2>3, <2>4, Places DEF Startable, Past
<1>7. QED  BY <1>4, <1>5, <1>6 DEF AskedInv

LEMMA SpokenStands ==
    ASSUME ControlTyped, AskedInv, Goes, inst'.spfile = inst.spfile,
           pos \in (22..29) \ {25, 26, 27}
    PROVE  Spoken'
<1>1. lay' = lay /\ pos' \in {pos, pos + 1}
  BY DEF Goes, fixed, Advance
<1>2. \A s \in {"profile", "spfile", "tpcc", "deploy", "restart"} : Past(s)' <=> Past(s)
  BY <1>1, Places DEF Past
<1>3. ~Past("restart") /\ Past("deploy")
  BY Places DEF Past
<1>4. QED  BY <1>1, <1>2, <1>3 DEF AskedInv, Spoken, Value

LEMMA AskedOfTheDiskGroup ==
    ASSUME ControlTyped, HostsTyped, AskedInv, CreateArchdg
    PROVE  AskedInv'
<1>1. Goes /\ UNCHANGED <<dir, toml, soft, wrapper, unit, names>>
  BY OthersGo DEF CreateArchdg
<1>2. pos = 22
  BY HereIs, Places DEF CreateArchdg
<1>3. /\ inst'.built = inst.built /\ inst'.spfile = inst.spfile /\ inst.made \subseteq inst'.made
      /\ pos' = pos \/ {"arch", "dest"} \subseteq inst'.made
  BY DEF CreateArchdg, Cut, HostsTyped
<1>4. Spoken'
  BY <1>1, <1>2, <1>3, SpokenStands
<1>5. QED  BY <1>1, <1>2, <1>3, <1>4, AskedOfTheGains DEF Gained

LEMMA AskedOfTheEnvironment ==
    ASSUME ControlTyped, HostsTyped, AskedInv, SetEnvVars
    PROVE  AskedInv'
<1>1. Goes /\ UNCHANGED <<dir, toml, soft, inst, unit, names>>
  BY OthersGo DEF SetEnvVars
<1>2. pos = 23
  BY HereIs, Places DEF SetEnvVars
<1>3. PICK done \in Reached : wrapper' = wrapper \cup {h \in done : LinkMatches(h)} /\ PassOrCut(done)
  BY DEF SetEnvVars
<1>4. pos' = pos \/ Hosts \subseteq wrapper'
  <2>1. \A h \in Hosts : LinkMatches(h)
    BY <1>2, Places DEF AskedInv, Startable, Past, Installed, LinkMatches
  <2>2. QED  BY <1>3, <2>1 DEF PassOrCut, Cut
<1>5. Spoken'
  BY <1>1, <1>2, SpokenStands
<1>6. QED  BY <1>1, <1>2, <1>3, <1>4, <1>5, AskedOfTheGains DEF Gained

LEMMA AuditsAre == ToSet(Audits) = {"policies", "jobs"} /\ Audits[1] \in {"policies", "jobs"}
BY DEF Audits, ToSet

LEMMA AskedOfTheAudit ==
    ASSUME ControlTyped, HostsTyped, AskedInv, ConfigureUnifiedAudit
    PROVE  AskedInv'
<1>1. Goes /\ UNCHANGED <<dir, toml, soft, wrapper, unit, names>>
  BY OthersGo DEF ConfigureUnifiedAudit
<1>2. pos = 28
  BY HereIs, Places DEF ConfigureUnifiedAudit
<1>3. /\ inst'.built = inst.built /\ inst'.spfile = inst.spfile /\ inst.made \subseteq inst'.made
      /\ pos' = pos \/ {"policies", "jobs"} \subseteq inst'.made
  BY AuditsAre DEF ConfigureUnifiedAudit, Cut, HostsTyped
<1>4. Spoken'
  BY <1>1, <1>2, <1>3, SpokenStands
<1>5. QED  BY <1>1, <1>2, <1>3, <1>4, AskedOfTheGains DEF Gained

(* C-025 and C-030: a command in the database for each wish.               *)
LEMMA AskedOfTheObjects ==
    ASSUME ControlTyped, HostsTyped, AskedInv, CreatePDBs \/ ExecuteCustomSQL
    PROVE  AskedInv'
<1>1. Goes
  BY OthersGo
<1>s. swallowed => swallowed'
  BY <1>1 DEF Goes
<1>2. CASE Fail
  BY <1>2, <1>s, AskedStands DEF Fail, fixed, host
<1>3. CASE ~Fail
  <2>1. PICK s \in {"pdb", "sql"} : /\ Here(s)
           /\ IF s \in lay.want THEN WithInst(s, [inst EXCEPT !.made = @ \cup {s}])
                                ELSE Here(s) /\ Pass /\ UNCHANGED host
    <3>1. CASE CreatePDBs
      BY <3>1 DEF CreatePDBs, WithInst
    <3>2. CASE ExecuteCustomSQL
      BY <3>2 DEF ExecuteCustomSQL, WithInst
    <3>3. QED  BY <3>1, <3>2
  <2>2. UNCHANGED <<dir, toml, soft, wrapper, unit, names>>
    BY <1>3, <2>1 DEF WithInst, host
  <2>3. /\ inst'.built = inst.built /\ inst'.spfile = inst.spfile /\ inst.made \subseteq inst'.made
        /\ s \in lay.want => s \in inst'.made
    BY <1>3, <2>1 DEF WithInst, host, HostsTyped
  <2>4. pos \in {24, 29} /\ pos = Place(s)
    BY <2>1, HereIs, Places
  <2>5. Spoken'
    BY <1>1, <2>3, <2>4, SpokenStands
  <2>6. Gained
    BY <2>3, <2>4, Places DEF Gained
  <2>7. QED  BY <1>1, <2>2, <2>3, <2>4, <2>5, <2>6, AskedOfTheGains
<1>4. QED  BY <1>2, <1>3

(* C-026 .. C-028: each adds its value when it is wanted.                  *)
LEMMA AskedOfTheParameters ==
    ASSUME ControlTyped, HostsTyped, AskedInv,
           ConfigureDefaultProfile \/ ApplySpfileParams \/ ConfigureTPCC
    PROVE  AskedInv'
<1>1. Goes
  BY OthersGo
<1>s. swallowed => swallowed'
  BY <1>1 DEF Goes
<1>2. CASE Fail
  BY <1>2, <1>s, AskedStands DEF Fail, fixed, host
<1>3. CASE ~Fail
  <2> DEFINE Wanted == {"date"} \cup (lay.want \cap {"params", "tpcc"})
  <2>1. PICK s \in {"profile", "spfile", "tpcc"} :
           ToSPFILE(s, Value(s) \in Wanted, Value(s))
    <3>1. CASE ConfigureDefaultProfile
      BY <3>1 DEF ConfigureDefaultProfile, Value
    <3>2. CASE ApplySpfileParams
      BY <3>2 DEF ApplySpfileParams, Value, ToSPFILE
    <3>3. CASE ConfigureTPCC
      BY <3>3 DEF ConfigureTPCC, Value, ToSPFILE
    <3>4. QED  BY <3>1, <3>2, <3>3
  <2>2. UNCHANGED <<dir, toml, soft, wrapper, unit, names>> /\ Here(s) /\ Advance
    BY <1>3, <2>1 DEF ToSPFILE, WithInst, host, Pass
  <2>3. /\ inst'.built = inst.built /\ inst'.made = inst.made
        /\ inst'.spfile = IF Value(s) \in Wanted THEN inst.spfile \cup {Value(s)} ELSE inst.spfile
    BY <1>3, <2>1 DEF ToSPFILE, WithInst, host, HostsTyped
  <2>4. pos \in {25, 26, 27} /\ pos = Place(s) /\ pos' = pos + 1
    BY <2>2, HereIs, Places, StepCount DEF Advance
  <2>5. Spoken'
    <3>1. \A t \in {"profile", "spfile", "tpcc"} : Past(t)' <=> (Past(t) \/ t = s)
      BY <2>4, Places DEF Past
    <3>2. inst.spfile = {v \in Wanted : \E t \in {"profile", "spfile", "tpcc"} : Past(t) /\ v = Value(t)}
      BY <2>4, Places DEF AskedInv, Spoken, Past
    <3>3. inst'.spfile = {v \in Wanted : \E t \in {"profile", "spfile", "tpcc"} : Past(t)' /\ v = Value(t)}
      BY <2>3, <3>1, <3>2
    <3>4. ~Past("restart")' /\ lay' = lay
      BY <1>1, <2>4, Places DEF Past, Goes, fixed
    <3>5. QED  BY <3>3, <3>4 DEF Spoken, Value
  <2>6. Gained
    BY <2>4 DEF Gained
  <2>7. QED  BY <1>1, <2>2, <2>3, <2>4, <2>5, <2>6, AskedOfTheGains
<1>4. QED  BY <1>2, <1>3

LEMMA AskedOfTheRestart ==
    ASSUME ControlTyped, HostsTyped, AskedInv, RestartDatabase \/ RestartCut
    PROVE  AskedInv'
<1>1. Goes
  BY OthersGo
<1>s. swallowed => swallowed'
  BY <1>1 DEF Goes
<1>2. CASE Fail
  BY <1>2, <1>s, AskedStands DEF Fail, fixed, host
<1>3. CASE ~Fail
  <2>1. pos = 30 /\ UNCHANGED <<dir, toml, soft, wrapper, unit, names>>
    BY <1>3, HereIs, Places DEF RestartDatabase, RestartCut
  <2>2. /\ inst'.built = inst.built /\ inst'.made = inst.made /\ inst'.spfile = inst.spfile
    BY <1>3 DEF RestartDatabase, RestartCut, HostsTyped
  <2>3. pos' \in {30, 31} /\ (pos' = 31 => inst'.active = inst.spfile)
    <3>1. CASE RestartCut
      BY <2>1, <3>1 DEF RestartCut, Cut
    <3>2. CASE RestartDatabase /\ Bootable
      <4>1. inst' = [inst EXCEPT !.active = inst.spfile]
        BY <1>3, <3>2 DEF RestartDatabase
      <4>2. QED  BY <1>1, <2>1, <4>1 DEF HostsTyped, Goes, Advance
    <3>3. CASE RestartDatabase /\ ~Bootable
      BY <1>3, <2>1, <3>3 DEF RestartDatabase
    <3>4. QED  BY <3>1, <3>2, <3>3
  <2>4. Spoken'
    <3>1. \A s \in {"profile", "spfile", "tpcc", "deploy"} : Past(s)' /\ Past(s)
      BY <2>1, <2>3, Places DEF Past
    <3>2. lay' = lay
      BY <1>1 DEF Goes, fixed
    <3>3. Past("restart")' => inst'.active = inst'.spfile
      BY <2>2, <2>3, Places DEF Past
    <3>4. QED  BY <2>2, <3>1, <3>2, <3>3 DEF AskedInv, Spoken, Value
  <2>5. Gained
    BY <2>1 DEF Gained
  <2>6. QED  BY <1>1, <2>1, <2>2, <2>4, <2>5, AskedOfTheGains
<1>4. QED  BY <1>2, <1>3

LEMMA AskedOfTheService ==
    ASSUME ControlTyped, HostsTyped, AskedInv, AutostartService
    PROVE  AskedInv'
<1>1. Goes /\ UNCHANGED <<dir, toml, soft, inst, wrapper, names>>
  BY OthersGo DEF AutostartService
<1>2. pos = 33 /\ pos' \in {33, 34}
  BY <1>1, HereIs, Places DEF AutostartService, Goes, Advance
<1>3. PICK done \in Reached :
          /\ unit' = [h \in Hosts |-> IF h \in done THEN ServiceArg ELSE unit[h]] /\ PassOrCut(done)
  BY DEF AutostartService
<1>4. /\ Asked' = Asked /\ Hosts' = Hosts /\ ArchdgWanted' = ArchdgWanted /\ ServiceArg' = ServiceArg
      /\ lay' = lay
  BY <1>1 DEF Goes, fixed, Asked, Hosts, HostList, ArchdgWanted, ServiceArg
<1>5. pos' = 34 => \A h \in Hosts : unit'[h] = ServiceArg
  BY <1>2, <1>3 DEF PassOrCut, Cut
<1>6. swallowed => swallowed'
  BY <1>1 DEF Goes
<1>7. \A s \in Edits \cup {"deploy", "profile", "spfile", "tpcc", "restart", "archdg", "pdb", "audit",
                           "sql", "env", "hosts"} : pos > Place(s) /\ pos' > Place(s)
  BY <1>2, Places DEF Edits
<1>8. Configured'
  BY <1>1, <1>4, <1>6, <1>7 DEF AskedInv, Configured, Past, Edits
<1>9. Spoken' /\ Created'
  BY <1>1, <1>4, <1>6, <1>7 DEF AskedInv, Spoken, Created, Past, Value
<1>10. Startable'
  BY <1>1, <1>2, <1>4, <1>5, <1>6, <1>7, Places DEF AskedInv, Startable, Past, Installed
<1>11. QED  BY <1>8, <1>9, <1>10 DEF AskedInv

LEMMA AskedKeeps ==
    ASSUME ControlTyped, HostsTyped, AskedInv, [Next]_vars
    PROVE  AskedInv'
<1>1. CASE Stirs
  BY <1>1, AskedStands DEF Stirs
<1>2. CASE CreateInstallDir \/ CreateDataDirs \/ ExtractPackage \/ CleanStaleBashrc \/ WriteHosts
  BY <1>2, AskedBeforeC010, AskedAtC010
<1>3. CASE GenConfig \/ SetDBTimezone \/ SetCharacterSet \/ DisableArchivelog \/ ConfigureRedo
             \/ SetNativeType \/ TuneYfsParams
  BY <1>3, AskedOfTheEdits
<1>4. CASE InstallSoftware \/ DeployDatabase \/ CreateArchdg \/ SetEnvVars
  BY <1>4, AskedOfTheSoftware, AskedOfTheDatabase, AskedOfTheDiskGroup, AskedOfTheEnvironment
<1>5. CASE CreatePDBs \/ ConfigureDefaultProfile \/ ApplySpfileParams \/ ConfigureTPCC
             \/ ConfigureUnifiedAudit \/ ExecuteCustomSQL
  BY <1>5, AskedOfTheObjects, AskedOfTheParameters, AskedOfTheAudit
<1>6. CASE RestartDatabase \/ RestartCut \/ AutostartService
  BY <1>6, AskedOfTheRestart, AskedOfTheService
<1>7. CASE Quiet
  BY <1>7, QuietStepsKeepAsked
<1>8. QED
  BY <1>1, <1>2, <1>3, <1>4, <1>5, <1>6, <1>7, AskedFromTheStart, OutsideStirs DEF Next, Quiet

(* A run that ends well has passed the last step.                          *)
Finished == exit = "ok" /\ run > 0 => pos = 34

LEMMA FinishedKeeps ==
    ASSUME ControlTyped, Finished, [Next]_vars
    PROVE  Finished'
<1>1. CASE Start
  BY <1>1 DEF Start, Finished
<1>2. CASE Goes
  BY <1>2, StepCount DEF Goes, Advance, Running, Finished
<1>3. CASE Stirs
  BY <1>3 DEF Stirs, Finished
<1>4. QED  BY <1>1, <1>2, <1>3, StepsOfTheRun

-----------------------------------------------------------------------------
LEMMA Beginning == Init => ControlTyped /\ HostsTyped /\ AskedInv /\ Finished
<1> SUFFICES ASSUME Init PROVE ControlTyped /\ HostsTyped /\ AskedInv /\ Finished
  OBVIOUS
<1>1. ControlTyped
  <2>1. disturbed \in BOOLEAN /\ swallowed \in BOOLEAN
    BY DEF Init
  <2>2. lay \in Layouts /\ opt \in [force : BOOLEAN, resume : BOOLEAN]
    BY OptionsAssumption DEF Init
  <2>3. pos = 1 /\ from = 1 /\ run = 0 /\ exit = "ok"
    BY DEF Init
  <2>4. QED  BY <2>1, <2>2, <2>3, StepCount DEF ControlTyped
<1>2. dir \in [Hosts -> [Kinds -> Contents]]
  BY DEF Init, Kinds, Contents
<1>3. HostsTyped
  BY <1>2 DEF Init, HostsTyped, NoDatabase, NoParams
<1>4. pos \in 1..10 /\ Finished
  BY DEF Init, Finished
<1>5. QED  BY <1>1, <1>3, <1>4, EarlyIsAsked

LEMMA Typed == Spec => [](ControlTyped /\ HostsTyped /\ AskedInv /\ Finished)
<1>1. ControlTyped /\ HostsTyped /\ AskedInv /\ Finished /\ [Next]_vars
        => (ControlTyped /\ HostsTyped /\ AskedInv /\ Finished)'
  BY ControlKeeps, HostsKeep, AskedKeeps, FinishedKeeps
<1>2. QED  BY Beginning, <1>1, PTL DEF Spec

-----------------------------------------------------------------------------
(* A running database.  What is in a directory is not lost without force.  *)

LEMMA DataStands ==
    ASSUME ControlTyped, HostsTyped, Next, Goes, ~opt.force
    PROVE  \A h \in Hosts : dir[h].data = "used" => dir'[h].data = "used"
<1>1. CASE Quiet
  BY <1>1, QuietSteps DEF host
<1>2. CASE CreateInstallDir \/ CreateDataDirs
  <2>1. CASE Fail
    BY <2>1 DEF Fail, host
  <2>2. CASE Recreate({"stage"})
    BY <2>2, Recreated DEF Kinds
  <2>3. CASE CreateDataDirs /\ ~Refused({"install", "data"}) /\ Recreate({"install", "data"})
    <3>1. \A h \in Hosts : dir[h].data # "used"
      BY <2>3 DEF Refused, Filled
    <3>2. QED  BY <3>1
  <2>4. QED  BY <1>2, <2>1, <2>2, <2>3 DEF CreateInstallDir, CreateDataDirs
<1>3. CASE ExtractPackage
  <2>1. dir' \in {dir, [dir EXCEPT ![First].stage = "used"]}
    BY <1>3 DEF ExtractPackage, Fail, host
  <2>2. QED  BY <2>1 DEF HostsTyped, Kinds
<1>4. CASE InstallSoftware
  <2>1. PICK done \in Reached :
          dir' = [h \in Hosts |-> IF h \in done THEN [dir[h] EXCEPT !.install = "used"] ELSE dir[h]]
    BY <1>4 DEF InstallSoftware
  <2>2. QED  BY <2>1 DEF HostsTyped, Kinds
<1>5. CASE DeployDatabase
  <2>1. \A h \in Hosts : dir[h].data # "used"
    BY <1>5 DEF DeployDatabase
  <2>2. QED  BY <2>1
<1>6. CASE CleanStaleBashrc \/ WriteHosts \/ GenConfig \/ CreateArchdg \/ SetEnvVars
             \/ ConfigureUnifiedAudit \/ RestartDatabase \/ RestartCut \/ AutostartService
  BY <1>6 DEF CleanStaleBashrc, WriteHosts, GenConfig, CreateArchdg, SetEnvVars,
              ConfigureUnifiedAudit, RestartDatabase, RestartCut, AutostartService, Fail, host
<1>7. CASE SetDBTimezone \/ SetCharacterSet \/ DisableArchivelog \/ ConfigureRedo
             \/ SetNativeType \/ TuneYfsParams
  BY <1>7 DEF SetDBTimezone, SetCharacterSet, DisableArchivelog, ConfigureRedo, SetNativeType,
              TuneYfsParams, Edit, Fail, host
<1>8. CASE CreatePDBs \/ ConfigureDefaultProfile \/ ApplySpfileParams \/ ConfigureTPCC
              \/ ExecuteCustomSQL
  BY <1>8 DEF CreatePDBs, ConfigureDefaultProfile, ApplySpfileParams, ConfigureTPCC,
               ExecuteCustomSQL, ToSPFILE, WithInst, Fail, host
<1>9. CASE Stopped \/ ComesBack \/ Done \/ Start
  BY <1>9 DEF Stopped, ComesBack, Done, Start, vars, host
<1>10. QED
  BY <1>1, <1>2, <1>3, <1>4, <1>5, <1>6, <1>7, <1>8, <1>9 DEF Next, Quiet

(* The steps at the first two places of the list.                          *)
LEMMA FirstSteps ==
    ASSUME ControlTyped, Next, Goes, pos \in 1..2
    PROVE  Quiet /\ (pos' # pos => IF pos = 1 THEN Check ELSE PortCheck)
<1>1. \A s : Here(s) => Place(s) = pos
  BY HereIs
<1>2. CASE Quiet
  <2>1. CASE Check \/ PortCheck
    <3>1. Check => pos = 1
      BY HereIs, Places DEF Check
    <3>2. PortCheck => pos = 2
      BY HereIs, Places DEF PortCheck
    <3>3. QED  BY <1>2, <2>1, <3>1, <3>2
  <2>2. CASE HomeCheck \/ VIPCheck \/ WriteHostsSkipped \/ SCANDNSCheck \/ SCANNameCheck
               \/ SoftwareSkipped
    BY <1>1, <2>2, Places DEF HomeCheck, VIPCheck, WriteHostsSkipped, SCANDNSCheck,
               SCANNameCheck, SoftwareSkipped
  <2>3. CASE SoftwareRefused \/ DeployRefused \/ ArchdgFails \/ AuditFails \/ StepFails
    BY <1>2, <2>3 DEF SoftwareRefused, DeployRefused, ArchdgFails, AuditFails, StepFails, Fail, Cut
  <2>4. CASE ArchdgSkipped \/ ArchdgExists \/ AuditSkipped \/ VerifyInstall \/ AutostartScript
               \/ ServiceSkipped \/ ShowClusterStatus \/ SetDirOwnership \/ TuneFails
    BY <1>1, <2>4, Places DEF ArchdgSkipped, ArchdgExists, AuditSkipped, VerifyInstall,
               AutostartScript, ServiceSkipped, ShowClusterStatus, SetDirOwnership, TuneFails
  <2>5. QED  BY <1>2, <2>1, <2>2, <2>3, <2>4 DEF Quiet
<1>3. CASE Start
  BY <1>3 DEF Start, Goes
<1>4. CASE Stopped \/ ComesBack \/ Done
  <2>1. pos' = pos /\ exit' = exit
    BY <1>4, OutsideStirs DEF Stirs
  <2>2. QED  BY <2>1, StepCount DEF Goes, Advance, Running, ControlTyped
<1>5. CASE CreateInstallDir \/ CreateDataDirs \/ ExtractPackage \/ CleanStaleBashrc \/ WriteHosts
             \/ GenConfig
  BY <1>1, <1>5, Places DEF CreateInstallDir, CreateDataDirs, ExtractPackage, CleanStaleBashrc,
             WriteHosts, GenConfig
<1>6. CASE SetDBTimezone \/ SetCharacterSet \/ DisableArchivelog \/ ConfigureRedo
             \/ SetNativeType \/ TuneYfsParams
  BY <1>1, <1>6, Places DEF SetDBTimezone, SetCharacterSet, DisableArchivelog, ConfigureRedo,
             SetNativeType, TuneYfsParams, Edit
<1>7. CASE InstallSoftware \/ DeployDatabase \/ CreateArchdg \/ SetEnvVars
             \/ ConfigureUnifiedAudit \/ RestartDatabase \/ RestartCut \/ AutostartService
  BY <1>1, <1>7, Places DEF InstallSoftware, DeployDatabase, CreateArchdg, SetEnvVars,
             ConfigureUnifiedAudit, RestartDatabase, RestartCut, AutostartService
<1>8. CASE CreatePDBs \/ ConfigureDefaultProfile \/ ApplySpfileParams \/ ConfigureTPCC
              \/ ExecuteCustomSQL
  BY <1>1, <1>8, Places DEF CreatePDBs, ConfigureDefaultProfile, ApplySpfileParams, ConfigureTPCC,
               ExecuteCustomSQL, ToSPFILE, WithInst
<1>9. QED
  BY <1>2, <1>3, <1>4, <1>5, <1>6, <1>7, <1>8 DEF Next, Quiet

LEMMA KeepKeeps ==
    ASSUME ControlTyped, HostsTyped, KeepInv, [Next]_vars
    PROVE  KeepInv'
<1>l. Hosts' = Hosts /\ lay' = lay
  BY LayoutKept
<1>1. CASE Start
  <2>1. /\ run' > 0 /\ pos' = from' /\ UNCHANGED <<procs, dir>>
        /\ up0' = {h \in Hosts : "db" \in procs[h] /\ dir[h].data = "used"}
    BY <1>1 DEF Start, host, ControlTyped
  <2>2. Survives'
    BY <2>1, Places DEF Survives, Past
  <2>3. QED  BY <2>1, <2>2 DEF KeepInv, RunningDatabaseSurvives
<1>2. CASE Stopped \/ ComesBack \/ Done \/ UNCHANGED vars
  <2>1. /\ UNCHANGED <<opt, from, run, pos, dir>> /\ up0' \in {up0, {}}
    BY <1>2, OutsideStirs DEF Stirs
  <2>2. up0' = {} \/ \A h \in up0 : "db" \in procs[h] => "db" \in procs'[h]
    <3>1. CASE Stopped
      BY <3>1 DEF Stopped
    <3>2. CASE ComesBack
      <4>1. PICK h \in Hosts : procs' = [procs EXCEPT ![h] = @ \cup {"agent"} \cup
                         IF dir[h].data = "used" /\ Bootable THEN {"db"} ELSE {}]
        BY <3>2 DEF ComesBack
      <4>2. \A k \in Hosts : procs[k] \subseteq procs'[k]
        BY <4>1 DEF HostsTyped
      <4>3. QED  BY <4>2 DEF HostsTyped
    <3>3. CASE Done \/ UNCHANGED vars
      BY <3>3 DEF Done, vars, host
    <3>4. QED  BY <1>2, <3>1, <3>2, <3>3
  <2>3. QED  BY <2>1, <2>2 DEF KeepInv, Survives, RunningDatabaseSurvives, Past
<1>3. CASE Goes /\ Next
  <2>1. UNCHANGED <<opt, from, run, up0>> /\ pos' \in {pos, pos + 1} /\ pos \in 1..34
    BY <1>3, StepCount DEF Goes, fixed, Advance, ControlTyped
  <2>2. CASE run > 0 /\ from = 1 /\ up0 # {}
    <3>1. pos \in 1..2
      BY <2>1, <2>2, Places DEF KeepInv, Survives, Past
    <3>2. UNCHANGED host
      BY <1>3, <3>1, FirstSteps, QuietSteps
    <3>3. pos' \in 1..2
      <4>1. PICK h \in up0 : "db" \in procs[h]
        BY <2>2 DEF KeepInv, RunningDatabaseSurvives
      <4>2. h \in Hosts
        BY <4>1 DEF HostsTyped
      <4>3. PortCheck => pos' = pos
        BY <4>1, <4>2 DEF PortCheck, HostsToRun, Fail
      <4>4. QED  BY <1>3, <2>1, <3>1, <4>3, FirstSteps
    <3>4. Survives'
      BY <3>3, Places DEF Survives, Past
    <3>5. QED  BY <2>1, <3>2, <3>4 DEF KeepInv, RunningDatabaseSurvives, host
  <2>3. CASE run > 0 /\ from # 1 /\ ~opt.force
    <3>1. \A h \in up0 : dir'[h].data = "used"
      <4>1. \A h \in Hosts : dir[h].data = "used" => dir'[h].data = "used"
        BY <1>3, <2>3, DataStands
      <4>2. up0 \subseteq Hosts /\ \A h \in up0 : dir[h].data = "used"
        BY <2>3 DEF KeepInv, RunningDatabaseSurvives, HostsTyped
      <4>3. QED  BY <4>1, <4>2
    <3>2. QED  BY <2>1, <2>3, <3>1 DEF KeepInv, Survives, RunningDatabaseSurvives
  <2>4. QED  BY <2>1, <2>2, <2>3 DEF KeepInv, Survives, RunningDatabaseSurvives
<1>4. QED  BY <1>1, <1>2, <1>3, ChecksGo, OthersGo DEF Next

(* A full run, forced or not, leaves a database that runs on its data when *)
(* it starts, running, on whichever host: C-002 stops it on every host, and*)
(* nothing has been changed by then; a run that takes up a step keeps the  *)
(* data unless it is forced.                                               *)
THEOREM DatabasesSurvive == Spec => []RunningDatabaseSurvives
<1>1. Init => KeepInv
  BY DEF Init, KeepInv, Survives, RunningDatabaseSurvives
<1>2. ControlTyped /\ HostsTyped /\ KeepInv /\ [Next]_vars => KeepInv'
  BY KeepKeeps
<1>3. KeepInv => RunningDatabaseSurvives
  BY DEF KeepInv
<1>4. QED  BY Typed, <1>1, <1>2, <1>3, PTL DEF Spec

-----------------------------------------------------------------------------
(* How ClusterNetwork picks addresses.                                     *)

LEMMA LeastOf ==
    ASSUME NEW S, S \subseteq Nat, S # {}
    PROVE  Min(S) \in S
<1>1. PICK i \in S : \A j \in S : <<j, i>> \notin OpToRel(<, Nat)
  BY NatLessThanWellFounded, WFMin, Zenon
<1>2. \A j \in S : ~(j < i)
  BY <1>1, Zenon DEF OpToRel
<1>3. \E k \in S : \A j \in S : k <= j
  BY <1>2
<1>4. QED  BY <1>3 DEF Min

LEMMA SearchFinds ==
    ASSUME NEW a \in Nat, NEW taken
    PROVE  /\ Search(a, taken) \in 0..Top
           /\ Search(a, taken) # None => Search(a, taken) \notin taken
<1> DEFINE free == Candidates(a) \ taken
<1>1. free \subseteq 1..Top /\ free \subseteq Nat
  BY TopAssumption DEF Candidates
<1>2. CASE free = {}
  BY <1>2, TopAssumption DEF Search, None
<1>3. CASE free # {}
  <2>1. Min(free) \in free
    BY <1>1, <1>3, LeastOf
  <2>2. Search(a, taken) = Min(free)
    BY <1>3 DEF Search
  <2>3. QED  BY <1>1, <2>1, <2>2
<1>4. QED  BY <1>2, <1>3

(* What is chosen for the first n hosts.                                   *)
Chosen(hosts, others, n, vips) ==
    \A i \in 1..n :
        vips[i] = Search(hosts[i], ToSet(hosts) \cup {vips[j] : j \in 1..(i - 1)} \cup others)

LEMMA ChoiceExists ==
    ASSUME NEW hosts \in Seq(1..Top), NEW others
    PROVE  \E vips \in [1..Len(hosts) -> 0..Top] : Chosen(hosts, others, Len(hosts), vips)
<1> DEFINE Bad == {n \in 0..Len(hosts) : ~\E vips \in [1..n -> 0..Top] : Chosen(hosts, others, n, vips)}
<1>1. ASSUME Bad # {}
      PROVE  FALSE
  <2>1. Bad \subseteq Nat
    OBVIOUS
  <2>2. PICK n \in Bad : \A j \in Bad : <<j, n>> \notin OpToRel(<, Nat)
    BY <1>1, <2>1, NatLessThanWellFounded, WFMin, Zenon
  <2>3. \A j \in Bad : ~(j < n)
    BY <2>1, <2>2, Zenon DEF OpToRel
  <2>4. n # 0
    <3>1. [i \in 1..0 |-> 0] \in [1..0 -> 0..Top] /\ Chosen(hosts, others, 0, [i \in 1..0 |-> 0])
      BY DEF Chosen
    <3>2. 0 \notin Bad
      BY <3>1
    <3>3. QED  BY <3>2
  <2>5. n \in 1..Len(hosts) /\ n - 1 \in 0..Len(hosts) /\ n - 1 \notin Bad
    <3>1. Len(hosts) \in Nat /\ n \in 0..Len(hosts)
      OBVIOUS
    <3>2. n \in 1..Len(hosts) /\ n - 1 \in 0..Len(hosts) /\ n - 1 < n
      BY <2>4, <3>1
    <3> HIDE DEF Bad
    <3>3. QED  BY <2>3, <3>2
  <2>6. PICK v \in [1..(n - 1) -> 0..Top] : Chosen(hosts, others, n - 1, v)
    BY <2>5
  <2> DEFINE last == Search(hosts[n], ToSet(hosts) \cup {v[j] : j \in 1..(n - 1)} \cup others)
             w == [i \in 1..n |-> IF i < n THEN v[i] ELSE last]
  <2>7. last \in 0..Top
    <3>1. hosts[n] \in Nat
      BY <2>5, TopAssumption
    <3>2. QED  BY <3>1, SearchFinds
  <2> HIDE DEF last
  <2>8. w \in [1..n -> 0..Top]
    <3>1. ASSUME NEW i \in 1..n, i < n
          PROVE  v[i] \in 0..Top
      <4>1. i \in 1..(n - 1)
        BY <2>5, <3>1
      <4>2. QED  BY <2>6, <4>1
    <3>2. QED  BY <2>7, <3>1
  <2>9. ASSUME NEW i \in 1..n
        PROVE  w[i] = Search(hosts[i], ToSet(hosts) \cup {w[j] : j \in 1..(i - 1)} \cup others)
    <3>1. {w[j] : j \in 1..(i - 1)} = {v[j] : j \in 1..(i - 1)}
      <4>1. \A j \in 1..(i - 1) : j \in 1..n /\ j < n
        BY <2>5
      <4>2. QED  BY <4>1
    <3>2. CASE i < n
      <4>1. i \in 1..(n - 1) /\ w[i] = v[i]
        BY <2>5, <3>2
      <4>2. QED  BY <2>6, <3>1, <4>1 DEF Chosen
    <3>3. CASE i = n
      <4>1. w[i] = last
        BY <2>5, <3>3
      <4>2. QED  BY <3>1, <3>3, <4>1 DEF last
    <3>4. QED  BY <2>5, <3>2, <3>3
  <2> HIDE DEF w
  <2>10. Chosen(hosts, others, n, w)
    BY <2>9 DEF Chosen
  <2>11. QED  BY <2>8, <2>10
<1>2. Len(hosts) \in 0..Len(hosts) /\ Len(hosts) \notin Bad
  BY <1>1
<1>3. QED  BY <1>2

(* One VIP per host, none of them taken, no two the same.                  *)
LEMMA ChosenVIPs ==
    ASSUME NEW hosts \in Seq(1..Top), NEW others
    PROVE  /\ ChooseVIPs(hosts, others) \in [DOMAIN hosts -> 0..Top]
           /\ None \notin ToSet(ChooseVIPs(hosts, others)) =>
                 /\ IsInjective(ChooseVIPs(hosts, others))
                 /\ ToSet(ChooseVIPs(hosts, others)) \cap (ToSet(hosts) \cup others) = {}
<1> DEFINE vips == ChooseVIPs(hosts, others)
<1>1. DOMAIN hosts = 1..Len(hosts) /\ Len(hosts) \in Nat
  OBVIOUS
<1>2. \E v \in [DOMAIN hosts -> 0..Top] :
        \A i \in DOMAIN hosts :
            v[i] = Search(hosts[i], ToSet(hosts) \cup {v[j] : j \in 1..(i - 1)} \cup others)
  <2>1. PICK v \in [1..Len(hosts) -> 0..Top] : Chosen(hosts, others, Len(hosts), v)
    BY ChoiceExists
  <2>2. \A i \in 1..Len(hosts) :
            v[i] = Search(hosts[i], ToSet(hosts) \cup {v[j] : j \in 1..(i - 1)} \cup others)
    BY <2>1 DEF Chosen
  <2>3. QED  BY <1>1, <2>1, <2>2
<1>3. /\ vips \in [DOMAIN hosts -> 0..Top]
      /\ \A i \in DOMAIN hosts :
            vips[i] = Search(hosts[i], ToSet(hosts) \cup {vips[j] : j \in 1..(i - 1)} \cup others)
  BY <1>2 DEF ChooseVIPs
<1> HIDE DEF vips
<1>4. ASSUME None \notin ToSet(vips), NEW i \in DOMAIN hosts
      PROVE  vips[i] \notin ToSet(hosts) \cup {vips[j] : j \in 1..(i - 1)} \cup others
  <2>1. hosts[i] \in Nat
    BY <1>1, TopAssumption
  <2>2. vips[i] # None
    BY <1>3, <1>4 DEF ToSet
  <2>3. QED  BY <1>3, <2>1, <2>2, SearchFinds
<1>5. ASSUME None \notin ToSet(vips)
      PROVE  IsInjective(vips)
  <2>1. ASSUME NEW i \in DOMAIN hosts, NEW j \in DOMAIN hosts, j < i
        PROVE  vips[i] # vips[j]
    <3>1. j \in 1..(i - 1)
      BY <1>1, <2>1
    <3>2. QED  BY <1>4, <1>5, <3>1
  <2>2. \A i, j \in DOMAIN hosts : i = j \/ i < j \/ j < i
    BY <1>1
  <2>3. QED  BY <1>3, <2>1, <2>2 DEF IsInjective
<1>6. ASSUME None \notin ToSet(vips)
      PROVE  ToSet(vips) \cap (ToSet(hosts) \cup others) = {}
  <2>1. \A i \in DOMAIN hosts : vips[i] \notin ToSet(hosts) \cup others
    BY <1>4, <1>6
  <2>2. QED  BY <1>3, <2>1 DEF ToSet
<1>7. QED  BY <1>3, <1>5, <1>6 DEF vips

LEMMA InterconnectConnects ==
    ASSUME NEW nets, 1 \in DOMAIN nets, \A i \in DOMAIN nets : nets[i] \in Seq(Interfaces),
           NEW public, \A i \in DOMAIN nets : nets[i] # <<>> /\ nets[i][1].cidr = public,
           NEW given, InterconnectOf(nets, public, given) # None
    PROVE  /\ \A i \in DOMAIN nets : On(nets[i], InterconnectOf(nets, public, given)) # {}
           /\ given # None => InterconnectOf(nets, public, given) = given
<1>1. CASE given # None
  BY <1>1 DEF InterconnectOf, Everywhere
<1>2. CASE given = None /\ Shared(nets) = {}
  <2>1. InterconnectOf(nets, public, given) = public
    BY <1>2 DEF InterconnectOf, ChooseInterconnect
  <2>2. \A i \in DOMAIN nets : 1 \in DOMAIN nets[i]
    OBVIOUS
  <2>3. QED  BY <1>2, <2>1, <2>2 DEF On
<1>3. CASE given = None /\ Shared(nets) # {}
  <2> DEFINE cidrs == {net.cidr : net \in Shared(nets)}
  <2>1. nets[1] \in Seq(Interfaces) /\ nets[1] # <<>>
    OBVIOUS
  <2>2. Shared(nets) \subseteq Interfaces
    BY <2>1 DEF Shared, ToSet
  <2>3. cidrs \subseteq Nat /\ cidrs # {}
    BY <1>3, <2>2 DEF Interfaces
  <2>4. Min(cidrs) \in cidrs
    BY <2>3, LeastOf
  <2>5. PICK net \in Shared(nets) : Min(cidrs) = net.cidr
    BY <2>4
  <2>6. InterconnectOf(nets, public, given) = net.cidr
    BY <1>3, <2>5 DEF InterconnectOf, ChooseInterconnect
  <2>7. ASSUME NEW i \in DOMAIN nets
        PROVE  On(nets[i], net.cidr) # {}
    <3>1. nets[i] \in Seq(Interfaces) /\ nets[i] # <<>> /\ net \in ToSet(Tail(nets[i]))
      BY <2>5 DEF Shared
    <3>2. PICK k \in DOMAIN Tail(nets[i]) : net = Tail(nets[i])[k]
      BY <3>1 DEF ToSet
    <3>3. k + 1 \in DOMAIN nets[i] /\ nets[i][k + 1] = net
      BY <3>1, <3>2
    <3>4. QED  BY <3>3 DEF On
  <2>8. QED  BY <1>3, <2>6, <2>7
<1>4. QED  BY <1>1, <1>2, <1>3

-----------------------------------------------------------------------------
(* The addresses of a run.                                                 *)

LEMMA FunctionsAreSequences ==
    ASSUME NEW S, NEW n \in Nat, NEW f \in [1..n -> S]
    PROVE  f \in Seq(S) /\ Len(f) = n /\ DOMAIN f = 1..n
<1>1. f \in Seq(S)
  BY SeqDef, Zenon
<1>2. DOMAIN f = 1..n
  OBVIOUS
<1>3. Len(f) = n
  BY <1>1, <1>2
<1>4. QED  BY <1>1, <1>2, <1>3

LEMMA LayoutTyped ==
    ASSUME IsLayout(lay)
    PROVE  /\ lay.addr \in Seq(1..Top) /\ lay.addr # <<>> /\ lay.vips \in Seq(0..Top)
           /\ lay.nets \in [DOMAIN lay.addr -> Seq(Interfaces)]
           /\ \A i \in DOMAIN lay.nets : lay.nets[i] # <<>> /\ lay.nets[i][1].cidr = CIDR(lay.addr[i])
<1>1. lay.hosts \in Seq(ToSet(lay.hosts)) /\ lay.hosts # <<>>
  BY DEF IsLayout
<1>2. DOMAIN lay.hosts = 1..Len(lay.hosts) /\ Len(lay.hosts) \in Nat \ {0}
  BY <1>1
<1>3. lay.addr \in [1..Len(lay.hosts) -> 1..Top]
  BY <1>2 DEF IsLayout
<1>4. lay.addr \in Seq(1..Top) /\ Len(lay.addr) = Len(lay.hosts) /\ DOMAIN lay.addr = DOMAIN lay.hosts
  BY <1>2, <1>3, FunctionsAreSequences
<1>5. lay.addr # <<>>
  BY <1>2, <1>4
<1>6. lay.vips \in Seq(0..Top)
  <2>1. lay.vips \in Seq(1..Top)
    BY DEF IsLayout
  <2>2. 1..Top \subseteq 0..Top
    BY TopAssumption
  <2>3. QED  BY <2>1, <2>2, SeqMonotonic
<1>7. /\ lay.nets \in [DOMAIN lay.addr -> Seq(Interfaces)]
      /\ \A i \in DOMAIN lay.nets : lay.nets[i] # <<>> /\ lay.nets[i][1].cidr = CIDR(lay.addr[i])
  <2>1. /\ lay.nets \in [DOMAIN lay.hosts -> Seq(Interfaces)]
        /\ \A i \in DOMAIN lay.nets : lay.nets[i] # <<>> /\ lay.nets[i][1].cidr = CIDR(lay.addr[i])
    BY Zenon DEF IsLayout
  <2>2. DOMAIN lay.addr = DOMAIN lay.hosts
    BY <1>4
  <2>3. QED  BY <2>1, <2>2, Zenon
<1>8. QED  BY <1>4, <1>5, <1>6, <1>7

(* C-001: the interconnect is a network that every host is on.             *)
LEMMA CheckConnects ==
    ASSUME ControlTyped, HostsTyped, IsLayout(lay), lay.yac, Check, pos' # pos
    PROVE  Connects(lay.inter) /\ Connects(par'.inter)
<1> DEFINE public == PublicOf(lay.addr, lay.nets, lay.public)
<1> DEFINE inter == InterconnectOf(lay.nets, public, lay.inter)
<1>1. public # None /\ inter # None /\ par' = [par EXCEPT !.public = public, !.inter = inter]
  BY DEF Check, Fail
<1>2. par'.inter = inter
  BY <1>1 DEF HostsTyped
<1>3. /\ \A i \in DOMAIN lay.nets : On(lay.nets[i], inter) # {}
      /\ lay.inter # None => inter = lay.inter
  <2>1. /\ lay.addr \in Seq(1..Top) /\ lay.addr # <<>>
        /\ lay.nets \in [DOMAIN lay.addr -> Seq(Interfaces)]
        /\ \A i \in DOMAIN lay.nets : lay.nets[i] # <<>> /\ lay.nets[i][1].cidr = CIDR(lay.addr[i])
    BY LayoutTyped
  <2>2. \A i \in DOMAIN lay.addr : CIDR(lay.addr[i]) = public
    BY <1>1 DEF PublicOf
  <2>3. \A i \in DOMAIN lay.nets : lay.nets[i] # <<>> /\ lay.nets[i][1].cidr = public
    BY <2>1, <2>2
  <2> HIDE DEF public
  <2>4. inter = InterconnectOf(lay.nets, public, lay.inter) /\ inter # None
    BY <1>1
  <2> HIDE DEF inter
  <2>5. 1 \in DOMAIN lay.nets /\ \A i \in DOMAIN lay.nets : lay.nets[i] \in Seq(Interfaces)
    BY <2>1
  <2>6. InterconnectOf(lay.nets, public, lay.inter) # None
    BY <2>4, Zenon
  <2>7. /\ \A i \in DOMAIN lay.nets : On(lay.nets[i], InterconnectOf(lay.nets, public, lay.inter)) # {}
        /\ lay.inter # None => InterconnectOf(lay.nets, public, lay.inter) = lay.inter
    BY <2>3, <2>5, <2>6, InterconnectConnects
  <2>8. QED  BY <2>4, <2>7, Zenon
<1>4. QED  BY <1>2, <1>3 DEF Connects

(* C-009: VIPs given are taken over, others are chosen.                    *)
LEMMA VIPsAreFresh ==
    ASSUME ControlTyped, HostsTyped, IsLayout(lay), VIPCheck, par.vips = lay.vips
    PROVE  /\ par' = par \/ par' = [par EXCEPT !.vips = par'.vips]
           /\ par'.vips \in Seq(0..Top)
           /\ par'.vips # lay.vips => Fresh(par'.vips) /\ lay.vips = <<>>
<1>1. CASE par' = par
  BY <1>1, LayoutTyped
<1>2. CASE par' # par
  <2> DEFINE vips == VIPsOf(lay.addr, par.vips, lay.others)
  <2>1. par' = [par EXCEPT !.vips = vips] /\ None \notin ToSet(vips)
    BY <1>2 DEF VIPCheck, Pass, Fail
  <2>2. par'.vips = vips
    BY <2>1 DEF HostsTyped
  <2>3. CASE par.vips # <<>>
    <3>1. vips = par.vips \/ vips = <<None>>
      BY <2>3 DEF VIPsOf, GivenVIPs
    <3>2. None \in ToSet(<<None>>)
      BY DEF ToSet
    <3>3. QED  BY <2>1, <2>2, <3>1, <3>2, LayoutTyped
  <2>4. CASE par.vips = <<>>
    <3>1. vips = ChooseVIPs(lay.addr, lay.others)
      BY <2>4 DEF VIPsOf
    <3>2. /\ vips \in [DOMAIN lay.addr -> 0..Top]
          /\ IsInjective(vips) /\ ToSet(vips) \cap (ToSet(lay.addr) \cup lay.others) = {}
      BY <2>1, <3>1, LayoutTyped, ChosenVIPs
    <3>3. vips \in Seq(0..Top)
      <4>1. lay.addr \in Seq(1..Top)
        BY LayoutTyped
      <4>2. vips \in [1..Len(lay.addr) -> 0..Top] /\ Len(lay.addr) \in Nat
        BY <3>2, <4>1
      <4> HIDE DEF vips
      <4>3. QED  BY <4>2, FunctionsAreSequences
    <3>4. QED  BY <2>1, <2>2, <2>4, <3>2, <3>3 DEF Fresh
  <2>5. QED  BY <2>1, <2>2, <2>3, <2>4
<1>3. QED  BY <1>1, <1>2

(* C-010: a SCAN address that was not given is none of the VIPs either.    *)
LEMMA SCANIsFresh ==
    ASSUME ControlTyped, HostsTyped, IsLayout(lay), AddressInv, run > 0, par.scan = lay.scan,
           lay.scan # SCAN, SCAN # None
    PROVE  SCAN \notin {None} \cup ToSet(lay.addr) \cup ToSet(par.vips) \cup lay.others
<1>1. SCAN = ChooseSCAN(lay.addr, par.vips, lay.others)
  BY DEF SCAN, SCANOf
<1>2. par.vips \in Seq(0..Top)
  BY DEF AddressInv, Given
<1>3. Last(lay.addr \o par.vips) \in Nat
  <2>1. lay.addr \in Seq(0..Top) /\ lay.addr # <<>>
    <3>1. 1..Top \subseteq 0..Top
      BY TopAssumption
    <3>2. QED  BY <3>1, LayoutTyped, SeqMonotonic
  <2>2. /\ lay.addr \o par.vips \in Seq(0..Top) /\ Len(lay.addr \o par.vips) = Len(lay.addr) + Len(par.vips)
        /\ Len(lay.addr) \in Nat \ {0} /\ Len(par.vips) \in Nat
    BY <1>2, <2>1, ConcatProperties
  <2>3. Len(lay.addr \o par.vips) \in 1..Len(lay.addr \o par.vips)
    <3>1. \A m \in Nat \ {0}, n \in Nat : m + n \in 1..(m + n)
      OBVIOUS
    <3>2. QED  BY <2>2, <3>1
  <2>4. Last(lay.addr \o par.vips) \in 0..Top
    BY <2>2, <2>3, ElementOfSeq DEF Last
  <2>5. QED  BY <2>4, TopAssumption
<1>4. SCAN \in 0..Top /\ SCAN \notin ToSet(lay.addr) \cup ToSet(par.vips) \cup lay.others
  BY <1>1, <1>3, SearchFinds DEF ChooseSCAN
<1>5. QED  BY <1>4

(* Which steps fill in parameters.                                         *)
LEMMA ParametersKept ==
    ASSUME ControlTyped, Next, ~Start, ~Check, ~VIPCheck, ~WriteHosts
    PROVE  par' = par
<1>1. CASE \/ PortCheck \/ HomeCheck \/ WriteHostsSkipped \/ SCANDNSCheck
           \/ SCANNameCheck \/ SoftwareSkipped \/ SoftwareRefused \/ DeployRefused
           \/ ArchdgSkipped \/ ArchdgFails \/ ArchdgExists \/ AuditSkipped \/ AuditFails
           \/ VerifyInstall \/ AutostartScript \/ ServiceSkipped \/ ShowClusterStatus
           \/ SetDirOwnership \/ TuneFails \/ StepFails
  BY <1>1 DEF PortCheck, HomeCheck, WriteHostsSkipped, SCANDNSCheck, SCANNameCheck,
           SoftwareSkipped, SoftwareRefused, DeployRefused, ArchdgSkipped, ArchdgFails, ArchdgExists,
           AuditSkipped, AuditFails, VerifyInstall, AutostartScript, ServiceSkipped,
           ShowClusterStatus, SetDirOwnership, TuneFails, StepFails, Pass, PassOver, Fail, Cut
<1>2. CASE CreateInstallDir \/ CreateDataDirs \/ ExtractPackage \/ CleanStaleBashrc
             \/ GenConfig \/ InstallSoftware \/ DeployDatabase
  BY <1>2 DEF CreateInstallDir, CreateDataDirs, Recreate, ExtractPackage, CleanStaleBashrc,
             GenConfig, InstallSoftware, DeployDatabase, PassOrCut, Pass, Fail, Cut
<1>3. CASE SetDBTimezone \/ SetCharacterSet \/ DisableArchivelog \/ ConfigureRedo
             \/ SetNativeType \/ TuneYfsParams
  BY <1>3 DEF SetDBTimezone, SetCharacterSet, DisableArchivelog, ConfigureRedo, SetNativeType,
              TuneYfsParams, Edit, Fail, Pass
<1>4. CASE CreateArchdg \/ SetEnvVars \/ ConfigureUnifiedAudit \/ RestartDatabase \/ RestartCut
             \/ AutostartService
  BY <1>4 DEF CreateArchdg, SetEnvVars, ConfigureUnifiedAudit, RestartDatabase, RestartCut,
              AutostartService, PassOrCut, Pass, Fail, Cut
<1>5. CASE CreatePDBs \/ ConfigureDefaultProfile \/ ApplySpfileParams \/ ConfigureTPCC
              \/ ExecuteCustomSQL
  BY <1>5 DEF CreatePDBs, ConfigureDefaultProfile, ApplySpfileParams, ConfigureTPCC,
               ExecuteCustomSQL, ToSPFILE, WithInst, Pass, Fail
<1>6. CASE Stopped \/ ComesBack \/ Done
  BY <1>6, OutsideStirs DEF Stirs
<1>7. QED  BY <1>1, <1>2, <1>3, <1>4, <1>5, <1>6 DEF Next

(* The addresses stay; a place before C-009 or C-010 is not come back to.  *)
LEMMA AddressesStand ==
    ASSUME ControlTyped, AddressInv, lay' = lay, par' = par, run' = run,
           pos' \in {pos, pos + 1}, Running' => Running, pos = 1 => pos' = 1
    PROVE  AddressInv'
<1>1. pos \in 1..34
  BY StepCount DEF ControlTyped
<1>2. Past("check")' => Past("check")
  BY <1>1, Places DEF Past
<1>3. Connected'
  BY <1>2 DEF AddressInv, Connected, Connects
<1>4. ~Past("vip")' => ~Past("vip")
  BY <1>1, Places DEF Past
<1>5. ~Past("hosts")' => ~Past("hosts")
  BY <1>1, Places DEF Past
<1>6. Given'
  BY <1>4, <1>5 DEF AddressInv, Given
<1>7. FreshVIPs' /\ FreshSCAN'
  BY DEF AddressInv, FreshVIPs, FreshSCAN, Fresh
<1>8. QED  BY <1>3, <1>6, <1>7 DEF AddressInv

LEMMA AddressKeeps ==
    ASSUME ControlTyped, HostsTyped, AddressInv, [Next]_vars
    PROVE  AddressInv'
<1>l. lay' = lay /\ IsLayout(lay)
  BY LayoutKept
<1>p. pos \in 1..34
  BY StepCount DEF ControlTyped
<1>1. CASE Start
  <2>1. /\ par'.vips = lay.vips /\ par'.scan = lay.scan /\ par'.inter = lay.inter
        /\ pos' \in {1, pos}
    BY <1>1 DEF Start
  <2>2. par'.vips \in Seq(0..Top)
    BY <1>l, <2>1, LayoutTyped
  <2>3. Past("check")' => Past("check")
    BY <1>p, <2>1, Places DEF Past
  <2>4. Connected'
    BY <1>l, <2>1, <2>3 DEF AddressInv, Connected, Connects
  <2>5. Given' /\ FreshVIPs' /\ FreshSCAN'
    BY <1>l, <2>1, <2>2 DEF Given, FreshVIPs, FreshSCAN
  <2>6. QED  BY <2>4, <2>5 DEF AddressInv
<1>2. CASE Check
  <2>1. Goes /\ pos = 1 /\ Running
    BY <1>2, ChecksGo, HereIs, Places DEF Check
  <2>2. pos' \in {1, 2} /\ run' = run
    BY <2>1 DEF Goes, Advance, fixed
  <2>3. par'.vips = par.vips /\ par'.scan = par.scan
    BY <1>2 DEF Check, HostsTyped, Pass, Fail
  <2>4. Connected'
    <3>1. CASE pos' = pos
      BY <1>l, <2>1, <3>1, Places DEF Connected, Past
    <3>2. CASE pos' # pos
      BY <1>2, <1>l, <3>2, CheckConnects DEF Connected, Connects
    <3>3. QED  BY <3>1, <3>2
  <2>5. par.vips = lay.vips /\ par.scan = lay.scan /\ par.vips \in Seq(0..Top)
    <3>1. ~Past("vip") /\ ~Past("hosts")
      BY <2>1, Places DEF Past
    <3>2. QED  BY <2>1, <3>1 DEF AddressInv, Given
  <2>6. Given' /\ FreshVIPs' /\ FreshSCAN'
    BY <1>l, <2>3, <2>5 DEF Given, FreshVIPs, FreshSCAN
  <2>7. QED  BY <2>4, <2>6 DEF AddressInv
<1>3. CASE VIPCheck
  <2>1. Goes /\ pos = 9 /\ Running
    BY <1>3, ChecksGo, HereIs, Places DEF VIPCheck
  <2>2. pos' \in {9, 10} /\ run' = run /\ run > 0
    BY <2>1 DEF Goes, Advance, fixed, ControlTyped, Running
  <2>3. Running' /\ pos' = 9 => par' = par
    BY <1>3, <2>1, StepCount DEF VIPCheck, Fail, Pass, Advance, Running
  <2>4. par.vips = lay.vips /\ par.scan = lay.scan
    <3>1. ~Past("vip") /\ ~Past("hosts")
      BY <2>1, Places DEF Past
    <3>2. QED  BY <2>1, <3>1 DEF AddressInv, Given
  <2>5. /\ par' = par \/ par' = [par EXCEPT !.vips = par'.vips]
        /\ par'.vips \in Seq(0..Top)
        /\ par'.vips # lay.vips => Fresh(par'.vips) /\ lay.vips = <<>>
    BY <1>3, <1>l, <2>4, VIPsAreFresh
  <2>6. par'.inter = par.inter /\ par'.scan = par.scan
    BY <2>5 DEF HostsTyped
  <2>7. Connected'
    BY <1>l, <2>1, <2>6, Places DEF AddressInv, Connected, Connects, Past
  <2>8. Given'
    <3>1. ~Past("vip")' => pos' = 9
      BY <2>2, Places DEF Past
    <3>2. QED  BY <1>l, <2>3, <2>4, <2>5, <2>6, <3>1 DEF Given
  <2>9. FreshVIPs' /\ FreshSCAN'
    BY <1>l, <2>4, <2>5, <2>6 DEF FreshVIPs, FreshSCAN, Fresh
  <2>10. QED  BY <2>7, <2>8, <2>9 DEF AddressInv
<1>4. CASE WriteHosts
  <2>1. Goes /\ pos = 10 /\ Running
    BY <1>4, OthersGo, HereIs, Places DEF WriteHosts
  <2>2. pos' \in {10, 11} /\ run' = run /\ run > 0 /\ (pos' = 10 => ~Running')
    BY <2>1, StepCount DEF Goes, Advance, fixed, ControlTyped, Running
  <2>3. par.scan = lay.scan
    <3>1. ~Past("hosts")
      BY <2>1, Places DEF Past
    <3>2. QED  BY <2>1, <3>1 DEF AddressInv, Given
  <2>4. par'.scan = (IF lay.mode = "local" THEN SCAN ELSE par.scan) /\ par'.vips = par.vips /\ par'.inter = par.inter
    BY <1>4 DEF WriteHosts, HostsTyped
  <2>5. par'.scan # lay.scan =>
            par'.scan \notin {None} \cup ToSet(lay.addr) \cup ToSet(par'.vips) \cup lay.others
    <3>1. SUFFICES ASSUME par'.scan # lay.scan
                   PROVE  par'.scan \notin {None} \cup ToSet(lay.addr) \cup ToSet(par'.vips) \cup lay.others
      OBVIOUS
    <3>2. par'.scan = SCAN /\ SCAN # None
      BY <1>4, <2>3, <2>4, <3>1 DEF WriteHosts
    <3>3. SCAN \notin {None} \cup ToSet(lay.addr) \cup ToSet(par.vips) \cup lay.others
      BY <1>l, <2>2, <2>3, <3>1, <3>2, SCANIsFresh
    <3>4. QED  BY <2>4, <3>2, <3>3
  <2>6. Connected'
    BY <1>l, <2>1, <2>4, Places DEF AddressInv, Connected, Connects, Past
  <2>7. Given'
    <3>1. ~Past("hosts")' => pos' = 10
      BY <2>2, Places DEF Past
    <3>2. Past("vip")'
      BY <2>2, Places DEF Past
    <3>3. QED  BY <2>2, <2>4, <3>1, <3>2 DEF AddressInv, Given
  <2>8. FreshVIPs' /\ FreshSCAN'
    BY <1>l, <2>2, <2>4, <2>5 DEF AddressInv, FreshVIPs, FreshSCAN, Fresh
  <2>9. QED  BY <2>6, <2>7, <2>8 DEF AddressInv
<1>5. CASE ~Start /\ ~Check /\ ~VIPCheck /\ ~WriteHosts
  <2>1. par' = par
    BY <1>5, ParametersKept DEF vars
  <2>2. run' = run /\ pos' \in {pos, pos + 1} /\ (Running' => Running)
    BY <1>5, StepsOfTheRun DEF Goes, Stirs, Advance, fixed, Running
  <2>3. pos = 1 => pos' = 1
    <3>1. CASE Goes /\ Next
      BY <1>5, <3>1, FirstSteps
    <3>2. CASE Stirs
      BY <3>2 DEF Stirs
    <3>3. QED  BY <1>5, <3>1, <3>2, StepsOfTheRun, OutsideStirs
  <2>4. QED  BY <1>l, <2>1, <2>2, <2>3, AddressesStand
<1>6. QED  BY <1>1, <1>2, <1>3, <1>4, <1>5

LEMMA Addressed == Spec => []AddressInv
<1>1. Init => AddressInv
  <2> SUFFICES ASSUME Init PROVE AddressInv
    OBVIOUS
  <2>1. ~Past("check") /\ ~Running /\ par.vips = <<>> /\ run = 0
    BY Places DEF Init, NoParams, Past, Running
  <2>2. QED  BY <2>1 DEF AddressInv, Connected, Given, FreshVIPs, FreshSCAN
<1>2. ControlTyped /\ HostsTyped /\ AddressInv /\ [Next]_vars => AddressInv'
  BY AddressKeeps
<1>3. QED  BY Typed, <1>1, <1>2, PTL DEF Spec

(* Addresses that a run picks for itself are nobody's: no host's, no two   *)
(* the same, and none that was in use when it looked; and once C-001 is    *)
(* past, every host is on the interconnect.                                *)
THEOREM AddressesAreFree == Spec => []AddressesFree
<1>1. ControlTyped /\ AddressInv => AddressesFree
  BY Places DEF AddressInv, Connected, FreshVIPs, FreshSCAN, AddressesFree, Past, Running, Connects, ControlTyped
<1>2. QED  BY Typed, Addressed, <1>1, PTL

-----------------------------------------------------------------------------
(* The names of a run that ends well.                                      *)

LEMMA VIPsNonempty ==
    ASSUME ControlTyped, HostsTyped, IsLayout(lay), RequiresVIP, VIPCheck, pos' # pos
    PROVE  par'.vips # <<>> /\ (par.vips # <<>> => par'.vips = par.vips)
<1> DEFINE vips == VIPsOf(lay.addr, par.vips, lay.others)
<1>1. None \notin ToSet(vips) /\ par' = [par EXCEPT !.vips = vips]
  BY DEF VIPCheck, Fail
<1>2. par'.vips = vips
  BY <1>1 DEF HostsTyped
<1>3. CASE par.vips # <<>>
  <2>1. vips = par.vips \/ vips = <<None>>
    BY <1>3 DEF VIPsOf, GivenVIPs
  <2>2. None \in ToSet(<<None>>)
    BY DEF ToSet
  <2>3. QED  BY <1>1, <1>2, <1>3, <2>1, <2>2
<1>4. CASE par.vips = <<>>
  <2>1. vips \in [DOMAIN lay.addr -> 0..Top]
    BY <1>4, LayoutTyped, ChosenVIPs DEF VIPsOf
  <2>2. 1 \in DOMAIN lay.addr
    BY LayoutTyped
  <2> HIDE DEF vips
  <2>3. 1 \in DOMAIN vips
    BY <2>1, <2>2
  <2>4. QED  BY <1>2, <1>4, <2>3
<1>5. QED  BY <1>3, <1>4

(* Between C-010 and the next C-009 neither the VIPs nor the names change. *)
LEMMA NamedStands ==
    ASSUME ControlTyped, Named, lay' = lay, run' = run, from' = from, names' = names,
           par'.vips = par.vips, swallowed => swallowed',
           Past("vip")' => Past("vip"),
           RequiresVIP /\ ~swallowed' /\ Past("hosts")' => Past("hosts"),
           RequiresVIP /\ lay.mode = "vip" /\ ~swallowed' /\ Past("gen")' => Past("gen")
    PROVE  Named'
<1>1. Hosts' = Hosts /\ (RequiresVIP' <=> RequiresVIP)
  BY SameLayout
<1>2. QED  BY <1>1 DEF Named, HasEntry

LEMMA NamedFromTheStart ==
    ASSUME ControlTyped, Named, Start
    PROVE  Named'
<1>1. /\ lay' = lay /\ names' = names /\ par'.vips = lay.vips /\ pos' = from' /\ pos' \in {1, pos}
      /\ pos' = 1 \/ (exit = "error" /\ pos' = pos)
  BY DEF Start, host
<1>2. Hosts' = Hosts /\ (RequiresVIP' <=> RequiresVIP)
  BY <1>1, SameLayout
<1>3. CASE pos' = 1
  BY <1>1, <1>2, <1>3, Places DEF Named, Past
<1>4. CASE pos' # 1
  <2>1. run > 0 /\ pos' = pos /\ (swallowed' <=> swallowed)
    BY <1>1, <1>4 DEF Start, ControlTyped
  <2>2. ~(from' \in 1..9 /\ Past("vip")')
    BY <1>1, Places DEF Past
  <2>3. lay.vips # <<>> => par'.vips = par.vips
    BY <1>1, <2>1 DEF Named
  <2>4. lay.vips = <<>> => DOMAIN par'.vips = {}
    BY <1>1
  <2>5. RequiresVIP /\ ~swallowed' /\ Past("hosts")' =>
          \A h \in Hosts : \A i \in DOMAIN par'.vips : <<"vip", par'.vips[i]>> \in names[h]
    BY <2>1, <2>3, <2>4 DEF Named, Past
  <2>6. RequiresVIP /\ lay.mode = "vip" /\ ~swallowed' /\ Past("gen")' =>
          \A h \in Hosts : HasEntry(h, "vip")
    BY <2>1 DEF Named, Past
  <2>7. QED  BY <1>1, <1>2, <2>2, <2>5, <2>6 DEF Named, HasEntry
<1>5. QED  BY <1>3, <1>4

(* C-009 and C-010.                                                        *)
LEMMA NamedAtC009 ==
    ASSUME ControlTyped, HostsTyped, IsLayout(lay), Named, VIPCheck
    PROVE  Named'
<1>1. Goes /\ names' = names /\ pos = 9
  BY ChecksGo, HereIs, Places DEF VIPCheck, host
<1>2. /\ lay' = lay /\ run' = run /\ run > 0 /\ from' = from /\ pos' \in {9, 10}
  BY <1>1 DEF Goes, fixed, Advance, Running, ControlTyped
<1>3. Hosts' = Hosts /\ (RequiresVIP' <=> RequiresVIP)
  BY <1>2, SameLayout
<1>4. ~Past("hosts")' /\ ~Past("gen")'
  BY <1>2, Places DEF Past
<1>5. pos' # pos /\ RequiresVIP => par'.vips # <<>> /\ (par.vips # <<>> => par'.vips = par.vips)
  BY VIPsNonempty
<1>6. pos' = pos \/ ~RequiresVIP => par'.vips = par.vips
  BY <1>1, StepCount DEF VIPCheck, Fail, Pass, Advance
<1>7. lay.vips # <<>> => par'.vips = lay.vips
  BY <1>2, <1>5, <1>6 DEF Named
<1>8. Past("vip")' => pos' # pos
  BY <1>1, Places DEF Past
<1>9. QED  BY <1>2, <1>3, <1>4, <1>5, <1>7, <1>8 DEF Named

LEMMA NamedAtC010 ==
    ASSUME ControlTyped, HostsTyped, Named, WriteHosts
    PROVE  Named'
<1>1. Goes /\ pos = 10
  BY OthersGo, HereIs, Places DEF WriteHosts
<1>2. /\ lay' = lay /\ run' = run /\ run > 0 /\ from' = from /\ pos' \in {10, 11}
  BY <1>1 DEF Goes, fixed, Advance, Running, ControlTyped
<1>3. Hosts' = Hosts /\ (RequiresVIP' <=> RequiresVIP)
  BY <1>2, SameLayout
<1>4. par'.vips = par.vips
  BY DEF WriteHosts, HostsTyped
<1>5. ~Past("gen")' /\ Past("vip") /\ (Past("hosts")' => pos' = 11)
  BY <1>1, <1>2, Places DEF Past
<1>6. ASSUME pos' = 11, RequiresVIP
      PROVE  \A h \in Hosts : \A i \in DOMAIN par.vips : <<"vip", par.vips[i]>> \in names'[h]
  <2>1. PICK done \in Reached :
          /\ names' = [h \in Hosts |-> IF h \in done THEN names[First] \cup Entries(SCAN) ELSE names[h]]
          /\ pos' = IF done = Hosts THEN pos + 1 ELSE pos
    BY DEF WriteHosts
  <2>2. done = Hosts
    BY <1>1, <1>6, <2>1
  <2>3. \A i \in DOMAIN par.vips : <<"vip", par.vips[i]>> \in Entries(SCAN)
    BY <1>6 DEF Entries
  <2>4. QED  BY <2>1, <2>2, <2>3
<1>7. QED  BY <1>2, <1>3, <1>4, <1>5, <1>6 DEF Named

(* C-014 wants VIPs in access mode vip: they have been written.            *)
LEMMA NamedAtC014 ==
    ASSUME ControlTyped, HostsTyped, AddressInv, Named, GenConfig
    PROVE  Named'
<1>1. Goes /\ pos = 13 /\ names' = names
  BY OthersGo, HereIs, Places DEF GenConfig, Fail, host
<1>2. /\ lay' = lay /\ run' = run /\ run > 0 /\ from' = from /\ pos' \in {13, 14}
  BY <1>1 DEF Goes, fixed, Advance, Running, ControlTyped
<1>s. swallowed => swallowed'
  BY <1>1 DEF Goes
<1>3. Hosts' = Hosts /\ (RequiresVIP' <=> RequiresVIP)
  BY <1>2, SameLayout
<1>4. par' = par
  BY DEF GenConfig, Fail, Pass
<1>5. Past("vip") /\ Past("hosts") /\ (Past("gen")' => pos' # pos)
  BY <1>1, Places DEF Past
<1>6. ASSUME pos' # pos, RequiresVIP, lay.mode = "vip", ~swallowed', NEW h \in Hosts
      PROVE  HasEntry(h, "vip")
  <2>1. par.vips # <<>>
    BY <1>6 DEF GenConfig, Fail, Flagged, RequiresVIP
  <2>2. 1 \in DOMAIN par.vips
    BY <2>1 DEF AddressInv, Given
  <2>3. <<"vip", par.vips[1]>> \in names[h]
    BY <1>2, <1>s, <1>5, <1>6, <2>2 DEF Named
  <2>4. QED  BY <2>3 DEF HasEntry
<1>7. QED  BY <1>1, <1>2, <1>s, <1>3, <1>4, <1>5, <1>6 DEF Named, HasEntry

LEMMA NamesStand ==
    ASSUME ControlTyped, [Next]_vars, ~WriteHosts
    PROVE  names' = names
<1>1. CASE Quiet
  BY <1>1, QuietSteps DEF host
<1>2. CASE CreateInstallDir \/ CreateDataDirs \/ ExtractPackage \/ CleanStaleBashrc \/ GenConfig
  BY <1>2 DEF CreateInstallDir, CreateDataDirs, Recreate, ExtractPackage, CleanStaleBashrc,
              GenConfig, Fail, host
<1>3. CASE InstallSoftware \/ DeployDatabase \/ CreateArchdg \/ SetEnvVars \/ ConfigureUnifiedAudit
             \/ RestartDatabase \/ RestartCut \/ AutostartService
  BY <1>3 DEF InstallSoftware, DeployDatabase, CreateArchdg, SetEnvVars, ConfigureUnifiedAudit,
              RestartDatabase, RestartCut, AutostartService, Fail, host
<1>4. CASE SetDBTimezone \/ SetCharacterSet \/ DisableArchivelog \/ ConfigureRedo
             \/ SetNativeType \/ TuneYfsParams
  BY <1>4 DEF SetDBTimezone, SetCharacterSet, DisableArchivelog, ConfigureRedo, SetNativeType,
              TuneYfsParams, Edit, Fail, host
<1>5. CASE CreatePDBs \/ ConfigureDefaultProfile \/ ApplySpfileParams \/ ConfigureTPCC
              \/ ExecuteCustomSQL
  BY <1>5 DEF CreatePDBs, ConfigureDefaultProfile, ApplySpfileParams, ConfigureTPCC,
               ExecuteCustomSQL, ToSPFILE, WithInst, Fail, host
<1>6. CASE Stopped \/ ComesBack \/ Done \/ Start \/ UNCHANGED vars
  BY <1>6 DEF Stopped, ComesBack, Done, Start, vars, host
<1>7. QED
  BY <1>1, <1>2, <1>3, <1>4, <1>5, <1>6 DEF Next, Quiet

(* The steps that a run passes C-009, C-010 and C-014 with.                *)
LEMMA NamingSteps ==
    ASSUME ControlTyped, Next, Goes, pos' # pos, pos \in {9, 10, 13}
    PROVE  /\ pos = 9 => VIPCheck
           /\ pos = 10 => WriteHosts \/ WriteHostsSkipped
           /\ pos = 13 => GenConfig
<1>1. \A s : Here(s) => Place(s) = pos
  BY HereIs
<1>2. CASE VIPCheck \/ WriteHosts \/ WriteHostsSkipped \/ GenConfig
  BY <1>1, <1>2, Places DEF VIPCheck, WriteHosts, WriteHostsSkipped, GenConfig
<1>3. CASE Check \/ PortCheck \/ HomeCheck \/ SCANDNSCheck \/ SCANNameCheck \/ SoftwareSkipped
             \/ ArchdgSkipped \/ ArchdgExists \/ AuditSkipped \/ VerifyInstall \/ AutostartScript
             \/ ServiceSkipped \/ ShowClusterStatus \/ SetDirOwnership \/ TuneFails
  BY <1>1, <1>3, Places DEF Check, PortCheck, HomeCheck, SCANDNSCheck, SCANNameCheck,
             SoftwareSkipped, ArchdgSkipped, ArchdgExists, AuditSkipped, VerifyInstall,
             AutostartScript, ServiceSkipped, ShowClusterStatus, SetDirOwnership, TuneFails
<1>4. CASE SoftwareRefused \/ DeployRefused \/ ArchdgFails \/ AuditFails \/ StepFails
  BY <1>4 DEF SoftwareRefused, DeployRefused, ArchdgFails, AuditFails, StepFails, Fail, Cut
<1>5. CASE Start
  BY <1>5 DEF Start, Goes
<1>6. CASE Stopped \/ ComesBack \/ Done
  BY <1>6, OutsideStirs DEF Stirs
<1>7. CASE CreateInstallDir \/ CreateDataDirs \/ ExtractPackage \/ CleanStaleBashrc
  BY <1>1, <1>7, Places DEF CreateInstallDir, CreateDataDirs, ExtractPackage, CleanStaleBashrc
<1>8. CASE SetDBTimezone \/ SetCharacterSet \/ DisableArchivelog \/ ConfigureRedo
             \/ SetNativeType \/ TuneYfsParams
  BY <1>1, <1>8, Places DEF SetDBTimezone, SetCharacterSet, DisableArchivelog, ConfigureRedo,
             SetNativeType, TuneYfsParams, Edit
<1>9. CASE InstallSoftware \/ DeployDatabase \/ CreateArchdg \/ SetEnvVars
             \/ ConfigureUnifiedAudit \/ RestartDatabase \/ RestartCut \/ AutostartService
  BY <1>1, <1>9, Places DEF InstallSoftware, DeployDatabase, CreateArchdg, SetEnvVars,
             ConfigureUnifiedAudit, RestartDatabase, RestartCut, AutostartService
<1>10. CASE CreatePDBs \/ ConfigureDefaultProfile \/ ApplySpfileParams \/ ConfigureTPCC
              \/ ExecuteCustomSQL
  BY <1>1, <1>10, Places DEF CreatePDBs, ConfigureDefaultProfile, ApplySpfileParams, ConfigureTPCC,
               ExecuteCustomSQL, ToSPFILE, WithInst
<1>11. QED
  BY <1>2, <1>3, <1>4, <1>5, <1>6, <1>7, <1>8, <1>9, <1>10 DEF Next

LEMMA NamedKeeps ==
    ASSUME ControlTyped, HostsTyped, AddressInv, Named, [Next]_vars
    PROVE  Named'
<1>l. lay' = lay /\ IsLayout(lay)
  BY LayoutKept
<1>p. pos \in 1..34
  BY StepCount DEF ControlTyped
<1>1. CASE Start
  BY <1>1, NamedFromTheStart
<1>2. CASE VIPCheck \/ WriteHosts \/ GenConfig
  BY <1>l, <1>2, NamedAtC009, NamedAtC010, NamedAtC014
<1>3. CASE ~Start /\ ~VIPCheck /\ ~WriteHosts /\ ~GenConfig
  <2>1. names' = names
    BY <1>3, NamesStand
  <2>2. par'.vips = par.vips
    <3>1. CASE Check
      BY <3>1 DEF Check, HostsTyped, Fail
    <3>2. CASE ~Check
      BY <1>3, <3>2, ParametersKept DEF vars
    <3>3. QED  BY <3>1, <3>2
  <2>s. swallowed => swallowed'
    BY <1>3, StepsOfTheRun DEF Goes, Stirs
  <2>3. run' = run /\ from' = from /\ pos' \in {pos, pos + 1}
    BY <1>3, StepsOfTheRun DEF Goes, Stirs, Advance, fixed
  <2>4. pos' # pos => Goes /\ Next
    BY <1>3, StepsOfTheRun, OutsideStirs DEF Stirs, vars
  <2>5. /\ pos \in {9, 13} => pos' = pos
        /\ pos = 10 /\ pos' # pos => WriteHostsSkipped
    BY <1>3, <2>4, NamingSteps
  <2>6. WriteHostsSkipped => ~RequiresVIP \/ swallowed'
    BY DEF WriteHostsSkipped, RequiresVIP, PassOver
  <2>7. /\ Past("vip")' => Past("vip")
        /\ RequiresVIP /\ ~swallowed' /\ Past("hosts")' => Past("hosts")
        /\ Past("gen")' => Past("gen")
    BY <1>p, <2>3, <2>5, <2>6, Places DEF Past
  <2>8. QED  BY <1>l, <2>1, <2>2, <2>s, <2>3, <2>7, NamedStands
<1>4. QED  BY <1>1, <1>2, <1>3

(* A run that ends well, also one that takes up where an earlier one       *)
(* failed, has a database built and started with everything asked for, and *)
(* again after a reboot, and the VIPs it knows in every /etc/hosts: the    *)
(* steps C-009 .. C-034, whatever failed or was cut off before, unless a   *)
(* failure was passed over; that there are VIPs, unless it was taken up    *)
(* after C-009 without any.                                                *)
THEOREM AskedIsDone == Spec => []SuccessIsAsked
<1>1. ControlTyped /\ HostsTyped /\ AskedInv /\ Finished /\ AddressInv /\ Named => SuccessIsAsked
  <2> SUFFICES ASSUME ControlTyped, HostsTyped, AskedInv, Finished, AddressInv, Named,
                      exit = "ok", run > 0, ~swallowed
               PROVE  SuccessIsAsked
    BY DEF SuccessIsAsked
  <2>1. \A s \in {"deploy", "profile", "spfile", "tpcc", "restart", "archdg", "pdb", "audit",
                  "sql", "env", "service", "hosts", "vip", "gen"} : Past(s)
    BY Places DEF Finished, Past
  <2>2. inst.built = Asked
    BY <2>1 DEF AskedInv, Configured
  <2>3. {"date"} \cup (lay.want \cap {"params", "tpcc"}) = inst.active
    BY <2>1 DEF AskedInv, Spoken, Value
  <2>4. /\ lay.want \cap {"pdb", "sql"} \subseteq inst.made
        /\ "audit" \in lay.want => {"policies", "jobs"} \subseteq inst.made
        /\ ArchdgWanted => {"arch", "dest"} \subseteq inst.made
    BY <2>1 DEF AskedInv, Created
  <2>5. \A h \in Hosts : UnitWorks(h) \/ (lay.default /\ lay.crowd)
    BY <2>1 DEF AskedInv, Startable, UnitWorks, ServiceArg, Installed, LinkMatches
  <2>6. lay.yac /\ lay.mode = "local" => \A h \in Hosts : HasEntry(h, "scan")
    BY <2>1 DEF AskedInv, Startable, HasEntry
  <2>7. RequiresVIP => \A h \in Hosts, i \in DOMAIN par.vips : <<"vip", par.vips[i]>> \in names[h]
    BY <2>1 DEF Named
  <2>8. ASSUME RequiresVIP, KnowsVIPs, NEW h \in Hosts
        PROVE  HasEntry(h, "vip")
    <3>1. CASE lay.mode = "vip"
      BY <2>1, <2>8, <3>1 DEF Named
    <3>2. CASE lay.mode # "vip"
      <4>1. par.vips # <<>>
        BY <2>1, <2>8, <3>2 DEF Named, KnowsVIPs
      <4>2. 1 \in DOMAIN par.vips
        BY <4>1 DEF AddressInv, Given
      <4>3. QED  BY <2>7, <2>8, <4>2 DEF HasEntry
    <3>3. QED  BY <3>1, <3>2
  <2>9. QED  BY <2>2, <2>3, <2>4, <2>5, <2>6, <2>7, <2>8 DEF SuccessIsAsked
<1>2. Init => Named
  BY Places DEF Init, Named, Past
<1>3. ControlTyped /\ HostsTyped /\ AddressInv /\ Named /\ [Next]_vars => Named'
  BY NamedKeeps
<1>4. QED  BY Typed, Addressed, <1>1, <1>2, <1>3, PTL DEF Spec

-----------------------------------------------------------------------------
(* A forced run.                                                           *)

LEMMA NextPlace ==
    ASSUME ControlTyped, pos' = pos + 1
    PROVE  /\ (Past("home")' <=> pos > 2) /\ (Past("check")' <=> pos > 0) /\ (Past("vip")' <=> pos > 8)
           /\ (Past("extract")' <=> pos > 6) /\ (Past("gen")' <=> pos > 12)
           /\ (Past("software")' <=> pos > 19) /\ (Past("deploy")' <=> pos > 20)
           /\ (Past("audit")' <=> pos > 27) /\ (Past("env")' <=> pos > 22)
<1>1. pos \in 1..34
  BY StepCount DEF ControlTyped
<1>2. QED  BY <1>1, Places DEF Past

(* What Relies says at the place of the run, the borders of the places,    *)
(* and that the hosts are those of the layout.                             *)
LEMMA ReliesHere ==
    ASSUME ControlTyped, Relies
    PROVE  /\ pos <= 3 => \A h \in Hosts : procs[h] # {} => h \in live0
           /\ pos > 1 /\ lay.yac => par.inter # None /\ par.public # None
           /\ pos > 9 /\ RequiresVIP => par.vips # <<>>
           /\ pos > 7 => dir[First].stage = "used"
           /\ pos > 13 => toml # {}
           /\ pos > 20 => \A h \in Hosts : Installed(h)
           /\ pos > 21 => \A h \in Hosts : procs[h] = {"agent", "db"}
           /\ pos > 21 /\ pos <= 28 => Unaudited(inst.made)
           /\ pos > 23 => Hosts \subseteq wrapper
<1>1. /\ pos <= 3 => ~Past("home")
      /\ pos > 1 => Past("check")
      /\ pos > 9 => Past("vip")
      /\ pos > 7 => Past("extract")
      /\ pos > 13 => Past("gen")
      /\ pos > 20 => Past("software")
      /\ pos > 21 => Past("deploy")
      /\ pos <= 28 => ~Past("audit")
      /\ pos > 23 => Past("env")
  <2>1. pos \in 1..34
    BY StepCount DEF ControlTyped
  <2>2. QED  BY <2>1, Places DEF Past
<1>2. QED  BY <1>1, Zenon DEF Relies

LEMMA Borders ==
    ASSUME ControlTyped
    PROVE  /\ pos = 1 \/ pos > 1
           /\ pos <= 3 \/ pos > 3
           /\ pos > 2 \/ ~(pos > 3)
           /\ pos > 6 => (pos = 7 \/ pos > 7) /\ ~(pos < 7)
           /\ pos > 8 => (pos = 9 \/ pos > 9) /\ ~(pos < 9)
           /\ pos > 12 => (pos = 13 \/ pos > 13) /\ ~(pos < 13)
           /\ pos > 19 => (pos = 20 \/ pos > 20) /\ ~(pos < 20)
           /\ pos > 20 => (pos = 21 \/ pos > 21) /\ ~(pos < 21)
           /\ pos > 22 => (pos = 23 \/ pos > 23) /\ ~(pos < 23)
           /\ ~(pos > 27) => pos <= 28 /\ ~(pos >= 28)
<1>1. pos \in 1..34
  BY StepCount DEF ControlTyped
<1>2. QED  BY <1>1

LEMMA ReliesAdvances ==
    ASSUME ControlTyped, Relies, pos' = pos + 1, lay' = lay, live0' = live0,
           procs' = procs \/ pos > 3,
           (par'.inter = par.inter /\ par'.public = par.public /\ pos # 1) \/ (lay.yac => par'.inter # None /\ par'.public # None),
           (par'.vips = par.vips /\ pos # 9) \/ pos < 9 \/ (RequiresVIP => par'.vips # <<>>),
           (dir'[First].stage = dir[First].stage /\ pos # 7) \/ pos < 7 \/ dir'[First].stage = "used",
           (toml' = toml /\ pos # 13) \/ pos < 13 \/ toml' # {},
           ((\A h \in Hosts : soft'[h] = soft[h] /\ dir'[h].install = dir[h].install) /\ pos # 20)
              \/ pos < 20 \/ (\A h \in Hosts : Installed(h)'),
           (procs' = procs /\ pos # 21) \/ pos < 21 \/ (\A h \in Hosts : procs'[h] = {"agent", "db"}),
           (inst'.made = inst.made /\ pos # 21) \/ pos < 21 \/ pos >= 28 \/ Unaudited(inst'.made),
           (wrapper \subseteq wrapper' /\ pos # 23) \/ pos < 23 \/ Hosts \subseteq wrapper'
    PROVE  Relies'
<1>p. /\ pos <= 3 => \A h \in Hosts : procs[h] # {} => h \in live0
      /\ pos > 1 /\ lay.yac => par.inter # None /\ par.public # None
      /\ pos > 9 /\ RequiresVIP => par.vips # <<>>
      /\ pos > 7 => dir[First].stage = "used"
      /\ pos > 13 => toml # {}
      /\ pos > 20 => \A h \in Hosts : Installed(h)
      /\ pos > 21 => \A h \in Hosts : procs[h] = {"agent", "db"}
      /\ pos > 21 /\ pos <= 28 => Unaudited(inst.made)
      /\ pos > 23 => Hosts \subseteq wrapper
  BY ReliesHere, Zenon
<1>n. /\ (Past("home")' <=> pos > 2) /\ (Past("check")' <=> pos > 0) /\ (Past("vip")' <=> pos > 8)
      /\ (Past("extract")' <=> pos > 6) /\ (Past("gen")' <=> pos > 12) /\ (Past("software")' <=> pos > 19)
      /\ (Past("deploy")' <=> pos > 20) /\ (Past("audit")' <=> pos > 27) /\ (Past("env")' <=> pos > 22)
  BY NextPlace, Zenon
<1>b. /\ pos = 1 \/ pos > 1
      /\ pos <= 3 \/ pos > 3
      /\ pos > 2 \/ ~(pos > 3)
      /\ pos > 6 => (pos = 7 \/ pos > 7) /\ ~(pos < 7)
      /\ pos > 8 => (pos = 9 \/ pos > 9) /\ ~(pos < 9)
      /\ pos > 12 => (pos = 13 \/ pos > 13) /\ ~(pos < 13)
      /\ pos > 19 => (pos = 20 \/ pos > 20) /\ ~(pos < 20)
      /\ pos > 20 => (pos = 21 \/ pos > 21) /\ ~(pos < 21)
      /\ pos > 22 => (pos = 23 \/ pos > 23) /\ ~(pos < 23)
      /\ ~(pos > 27) => pos <= 28 /\ ~(pos >= 28)
  BY Borders, Zenon
<1>2. Hosts' = Hosts /\ First' = First /\ (RequiresVIP' <=> RequiresVIP)
  BY SameLayout, Zenon
<1>3. ~Past("home")' => \A h \in Hosts : procs'[h] # {} => h \in live0
  BY <1>p, <1>n, <1>b, Zenon
<1>4. Past("check")' /\ lay.yac => par'.inter # None /\ par'.public # None
  BY <1>p, <1>b, Zenon
<1>5. Past("vip")' /\ RequiresVIP => par'.vips # <<>>
  BY <1>p, <1>n, <1>b, Zenon
<1>6. Past("extract")' => dir'[First].stage = "used"
  BY <1>p, <1>n, <1>b, Zenon
<1>7. Past("gen")' => toml' # {}
  BY <1>p, <1>n, <1>b, Zenon
<1>8. Past("software")' => \A h \in Hosts : Installed(h)'
  <2>1. (\A h \in Hosts : soft'[h] = soft[h] /\ dir'[h].install = dir[h].install)
          => \A h \in Hosts : Installed(h) => Installed(h)'
    BY Zenon DEF Installed
  <2>2. QED  BY <1>p, <1>n, <1>b, <2>1, Zenon
<1>9. Past("deploy")' => \A h \in Hosts : procs'[h] = {"agent", "db"}
  BY <1>p, <1>n, <1>b, Zenon
<1>10. Past("deploy")' /\ ~Past("audit")' => Unaudited(inst'.made)
  BY <1>p, <1>n, <1>b, Zenon
<1>11. Past("env")' => Hosts \subseteq wrapper'
  <2>1. Past("env")' => (Hosts \subseteq wrapper /\ wrapper \subseteq wrapper') \/ Hosts \subseteq wrapper'
    BY <1>p, <1>n, <1>b, Zenon
  <2>2. QED  BY <2>1, Zenon
<1>12. QED
  BY <1>2, <1>3, <1>4, <1>5, <1>6, <1>7, <1>8, <1>9, <1>10, <1>11, Zenon DEF Relies

(* The checks of a forced run.                                             *)
LEMMA ForcedChecksAdvance ==
    ASSUME ControlTyped, HostsTyped, IsLayout(lay), Forced, Relies, Quiet, exit' = "none"
    PROVE  Relies'
<1>1. Goes /\ UNCHANGED host
  BY QuietSteps
<1>2. /\ pos' = pos + 1 /\ lay' = lay /\ live0' = live0
      /\ UNCHANGED <<procs, dir, toml, soft, inst, wrapper>>
  BY <1>1 DEF Goes, fixed, host, Advance
<1>3. CASE Check
  <2>1. lay.yac => par'.inter # None /\ par'.public # None
    BY <1>3 DEF Check, Fail, HostsTyped
  <2>2. pos = 1
    BY <1>3, HereIs, Places DEF Check
  <2>3. QED  BY <1>2, <2>1, <2>2, ReliesAdvances
<1>4. CASE VIPCheck
  <2>1. par'.inter = par.inter /\ par'.public = par.public
    BY <1>4 DEF VIPCheck, Pass, Fail, HostsTyped
  <2>2. RequiresVIP => par'.vips # <<>>
    <3>1. SUFFICES ASSUME RequiresVIP PROVE par'.vips # <<>>
      OBVIOUS
    <3> DEFINE vips == VIPsOf(lay.addr, par.vips, lay.others)
    <3>2. par' = [par EXCEPT !.vips = vips]
      BY <1>4, <3>1 DEF VIPCheck, Fail
    <3>3. CASE par.vips # <<>>
      BY <3>2, <3>3 DEF VIPsOf, GivenVIPs, HostsTyped
    <3>4. CASE par.vips = <<>>
      <4>1. vips \in [DOMAIN lay.addr -> 0..Top]
        BY <3>4, LayoutTyped, ChosenVIPs DEF VIPsOf
      <4>2. 1 \in DOMAIN lay.addr
        BY LayoutTyped
      <4> HIDE DEF vips
      <4>3. 1 \in DOMAIN vips
        BY <4>1, <4>2
      <4>4. vips # <<>>
        BY <4>3
      <4>5. QED  BY <3>2, <4>4 DEF HostsTyped
    <3>5. QED  BY <3>3, <3>4
  <2>3. pos = 9
    BY <1>4, HereIs, Places DEF VIPCheck
  <2>4. QED  BY <1>2, <2>1, <2>2, <2>3, ReliesAdvances
<1>5. CASE PortCheck \/ HomeCheck \/ WriteHostsSkipped \/ SCANDNSCheck \/ SCANNameCheck
             \/ ArchdgSkipped \/ ArchdgExists \/ AuditSkipped \/ VerifyInstall \/ AutostartScript
             \/ ServiceSkipped \/ ShowClusterStatus \/ SetDirOwnership \/ TuneFails
  <2>1. par' = par
    BY <1>5 DEF PortCheck, HomeCheck, WriteHostsSkipped, SCANDNSCheck, SCANNameCheck,
           ArchdgSkipped, ArchdgExists, AuditSkipped, VerifyInstall, AutostartScript, ServiceSkipped,
           ShowClusterStatus, SetDirOwnership, TuneFails, Pass, PassOver, Fail
  <2>2. \E s \in {"port", "home", "hosts", "scandns", "scanname", "archdg", "audit", "verify",
                  "script", "service", "status", "owner", "tune"} : Here(s)
    BY <1>5 DEF PortCheck, HomeCheck, WriteHostsSkipped, SCANDNSCheck, SCANNameCheck,
           ArchdgSkipped, ArchdgExists, AuditSkipped, VerifyInstall, AutostartScript, ServiceSkipped,
           ShowClusterStatus, SetDirOwnership, TuneFails
  <2>3. pos \notin {1, 7, 9, 13, 20, 21, 23}
    BY <2>2, HereIs, Places
  <2>4. QED  BY <1>2, <2>1, <2>3, ReliesAdvances
<1>6. CASE SoftwareSkipped
  BY <1>6 DEF SoftwareSkipped, Forced
<1>7. CASE SoftwareRefused \/ DeployRefused \/ ArchdgFails \/ AuditFails \/ StepFails
  BY <1>7 DEF SoftwareRefused, DeployRefused, ArchdgFails, AuditFails, StepFails, Fail, Cut
<1>8. QED
  BY <1>3, <1>4, <1>5, <1>6, <1>7 DEF Quiet

(* Its changes, up to the database.                                        *)
LEMMA ForcedSetupAdvances ==
    ASSUME ControlTyped, HostsTyped, IsLayout(lay), First \in Hosts, Forced, Relies, Goes, exit' = "none",
           CreateInstallDir \/ CreateDataDirs \/ ExtractPackage \/ CleanStaleBashrc \/ WriteHosts
             \/ GenConfig \/ SetDBTimezone \/ SetCharacterSet \/ DisableArchivelog \/ ConfigureRedo
             \/ SetNativeType \/ TuneYfsParams \/ InstallSoftware \/ DeployDatabase
    PROVE  Relies'
<1>1. /\ pos' = pos + 1 /\ lay' = lay /\ live0' = live0
  BY DEF Goes, fixed, Advance
<1>2. ~Fail /\ ~Cut
  BY DEF Fail, Cut
<1>3. CASE CreateInstallDir \/ CreateDataDirs
  <2>1. pos \in {4, 5}
    BY <1>3, HereIs, Places DEF CreateInstallDir, CreateDataDirs
  <2>2. procs' = procs /\ par' = par
    BY <1>2, <1>3 DEF CreateInstallDir, CreateDataDirs, Recreate, PassOrCut, Pass
  <2>3. QED  BY <1>1, <2>1, <2>2, ReliesAdvances
<1>4. CASE ExtractPackage
  <2>1. pos = 7
    BY <1>4, HereIs, Places DEF ExtractPackage
  <2>2. procs' = procs /\ par' = par /\ dir' = [dir EXCEPT ![First].stage = "used"]
    BY <1>2, <1>4 DEF ExtractPackage, Pass
  <2>3. dir'[First].stage = "used"
    BY <2>2 DEF HostsTyped, Kinds
  <2>4. QED  BY <1>1, <2>1, <2>2, <2>3, ReliesAdvances
<1>5. CASE CleanStaleBashrc
  <2>1. pos = 8
    BY <1>5, HereIs, Places DEF CleanStaleBashrc
  <2>2. UNCHANGED <<procs, par, dir>>
    BY <1>2, <1>5 DEF CleanStaleBashrc, PassOrCut, Pass
  <2>3. QED  BY <1>1, <2>1, <2>2, ReliesAdvances
<1>6. CASE WriteHosts
  <2>1. pos = 10
    BY <1>6, HereIs, Places DEF WriteHosts
  <2>2. /\ UNCHANGED <<procs, dir>>
        /\ par'.inter = par.inter /\ par'.public = par.public /\ par'.vips = par.vips
    BY <1>6 DEF WriteHosts, HostsTyped
  <2>3. QED  BY <1>1, <2>1, <2>2, ReliesAdvances
<1>7. CASE GenConfig
  <2>1. pos = 13
    BY <1>7, HereIs, Places DEF GenConfig
  <2>2. UNCHANGED <<procs, dir, par>> /\ toml' # {}
    BY <1>2, <1>7 DEF GenConfig, Pass
  <2>3. QED  BY <1>1, <2>1, <2>2, ReliesAdvances
<1>8. CASE SetDBTimezone \/ SetCharacterSet \/ DisableArchivelog \/ ConfigureRedo
             \/ SetNativeType \/ TuneYfsParams
  <2>1. pos \in 14..19
    BY <1>8, HereIs, Places DEF SetDBTimezone, SetCharacterSet, DisableArchivelog, ConfigureRedo,
                        SetNativeType, TuneYfsParams, Edit
  <2>2. UNCHANGED <<procs, dir, par>> /\ toml' # {}
    BY <1>2, <1>8 DEF SetDBTimezone, SetCharacterSet, DisableArchivelog, ConfigureRedo,
                        SetNativeType, TuneYfsParams, Edit, Pass
  <2>3. QED  BY <1>1, <2>1, <2>2, ReliesAdvances
<1>9. CASE InstallSoftware
  <2>1. pos = 20
    BY <1>9, HereIs, Places DEF InstallSoftware
  <2>2. PICK done \in Reached :
          /\ soft' = [h \in Hosts |-> IF h \in done THEN {"link", "env"} ELSE {}]
          /\ dir' = [h \in Hosts |-> IF h \in done THEN [dir[h] EXCEPT !.install = "used"] ELSE dir[h]]
          /\ PassOrCut(done)
    BY <1>9 DEF InstallSoftware
  <2>3. done = Hosts /\ Pass
    BY <1>2, <2>2 DEF PassOrCut
  <2>4. par' = par /\ toml' = toml
    BY <1>9, <2>3 DEF InstallSoftware, Pass
  <2>5. \A h \in Hosts : soft'[h] = {"link", "env"} /\ dir'[h].install = "used" /\ dir'[h].stage = dir[h].stage
    BY <2>2, <2>3 DEF HostsTyped, Kinds
  <2>6. \A h \in Hosts : Installed(h)'
    BY <2>5 DEF Installed
  <2>7. QED  BY <1>1, <2>1, <2>4, <2>5, <2>6, ReliesAdvances
<1>10. CASE DeployDatabase
  <2>1. pos = 21
    BY <1>10, HereIs, Places DEF DeployDatabase
  <2>2. PICK done \in Reached :
          /\ dir' = [h \in Hosts |-> [dir[h] EXCEPT !.data = IF h \in done THEN "used" ELSE "empty"]]
          /\ procs' = [h \in Hosts |-> {"agent"} \cup IF h \in done THEN {"db"} ELSE {}]
          /\ inst' = [NoDatabase EXCEPT !.built = IF done = {} THEN {} ELSE toml]
          /\ PassOrCut(done)
    BY <1>10 DEF DeployDatabase
  <2>3. done = Hosts /\ Pass
    BY <1>2, <2>2 DEF PassOrCut
  <2>4. UNCHANGED <<par, toml, soft>>
    BY <1>10, <2>3 DEF DeployDatabase, Pass
  <2>5. \A h \in Hosts : dir'[h].install = dir[h].install /\ dir'[h].stage = dir[h].stage
    BY <2>2 DEF HostsTyped, Kinds
  <2>6. \A h \in Hosts : procs'[h] = {"agent", "db"}
    BY <2>2, <2>3
  <2>7. Unaudited(inst'.made)
    BY <2>2 DEF NoDatabase, Unaudited
  <2>8. QED  BY <1>1, <2>1, <2>4, <2>5, <2>6, <2>7, ReliesAdvances
<1>11. QED
  BY <1>3, <1>4, <1>5, <1>6, <1>7, <1>8, <1>9, <1>10

(* And from there.                                                         *)
LEMMA ForcedDatabaseAdvances ==
    ASSUME ControlTyped, HostsTyped, First \in Hosts, Forced, Relies, Goes, exit' = "none",
           CreateArchdg \/ SetEnvVars \/ CreatePDBs
             \/ ConfigureDefaultProfile \/ ApplySpfileParams \/ ConfigureTPCC
             \/ ConfigureUnifiedAudit \/ ExecuteCustomSQL
             \/ RestartDatabase \/ RestartCut \/ AutostartService
    PROVE  Relies'
<1>1. /\ pos' = pos + 1 /\ lay' = lay /\ live0' = live0
  BY DEF Goes, fixed, Advance
<1>2. ~Fail /\ ~Cut
  BY DEF Fail, Cut
<1>3. CASE CreateArchdg \/ ConfigureUnifiedAudit
  <2>1. pos \in {22, 28}
    BY <1>3, HereIs, Places DEF CreateArchdg, ConfigureUnifiedAudit
  <2>2. UNCHANGED <<procs, dir, par, toml, soft, wrapper>>
    BY <1>2, <1>3 DEF CreateArchdg, ConfigureUnifiedAudit, Pass
  <2>3. Unaudited(inst'.made) \/ pos = 28
    <3>1. pos = 22 => Unaudited(inst.made)
      BY ReliesHere
    <3>2. ConfigureUnifiedAudit => pos = 28
      BY HereIs, Places DEF ConfigureUnifiedAudit
    <3>3. CreateArchdg => inst'.made = inst.made \cup {"arch", "dest"}
      BY <1>2 DEF CreateArchdg, HostsTyped
    <3>4. QED  BY <1>3, <2>1, <3>1, <3>2, <3>3 DEF Unaudited
  <2>4. QED  BY <1>1, <2>1, <2>2, <2>3, ReliesAdvances
<1>4. CASE SetEnvVars
  <2>1. pos = 23
    BY <1>4, HereIs, Places DEF SetEnvVars
  <2>2. PICK done \in Reached : wrapper' = wrapper \cup {h \in done : LinkMatches(h)} /\ PassOrCut(done)
    BY <1>4 DEF SetEnvVars
  <2>3. done = Hosts /\ Pass
    BY <1>2, <2>2 DEF PassOrCut
  <2>4. UNCHANGED <<procs, dir, par, toml, soft, inst>>
    BY <1>4, <2>3 DEF SetEnvVars, Pass
  <2>5. \A h \in Hosts : LinkMatches(h)
    BY <2>1, Places DEF Relies, Past, Installed, LinkMatches
  <2>6. Hosts \subseteq wrapper'
    BY <2>2, <2>3, <2>5
  <2>7. QED  BY <1>1, <2>1, <2>4, <2>6, ReliesAdvances
<1>5. CASE CreatePDBs \/ ConfigureDefaultProfile \/ ApplySpfileParams \/ ConfigureTPCC
              \/ ExecuteCustomSQL
  <2>1. pos \in {24, 25, 26, 27, 29}
    BY <1>5, HereIs, Places DEF CreatePDBs, ConfigureDefaultProfile, ApplySpfileParams, ConfigureTPCC,
               ExecuteCustomSQL, ToSPFILE, WithInst
  <2>2. UNCHANGED <<procs, dir, par, toml, soft, wrapper>>
    BY <1>2, <1>5 DEF CreatePDBs, ConfigureDefaultProfile, ApplySpfileParams, ConfigureTPCC,
               ExecuteCustomSQL, ToSPFILE, WithInst, Pass, host
  <2>3. inst'.made \subseteq inst.made \cup {"pdb", "sql"}
    BY <1>2, <1>5 DEF CreatePDBs, ConfigureDefaultProfile, ApplySpfileParams, ConfigureTPCC,
               ExecuteCustomSQL, ToSPFILE, WithInst, host, HostsTyped
  <2>4. Unaudited(inst'.made) \/ pos = 29
    BY <2>1, <2>3, ReliesHere DEF Unaudited
  <2>5. QED  BY <1>1, <2>1, <2>2, <2>4, ReliesAdvances
<1>6. CASE RestartDatabase
  <2>1. pos = 30
    BY <1>6, HereIs, Places DEF RestartDatabase
  <2>2. /\ procs' = [h \in Hosts |-> procs[h] \cup {"db"}]
        /\ UNCHANGED <<dir, par, toml, soft, wrapper>>
    BY <1>2, <1>6 DEF RestartDatabase, Pass
  <2>3. \A h \in Hosts : procs'[h] = {"agent", "db"}
    BY <2>1, <2>2, ReliesHere
  <2>4. QED  BY <1>1, <2>1, <2>2, <2>3, ReliesAdvances
<1>7. CASE RestartCut
  BY <1>2, <1>7 DEF RestartCut
<1>8. CASE AutostartService
  <2>1. pos = 33
    BY <1>8, HereIs, Places DEF AutostartService
  <2>2. UNCHANGED <<procs, dir, par, toml, soft, inst, wrapper>>
    BY <1>2, <1>8 DEF AutostartService, PassOrCut, Pass
  <2>3. QED  BY <1>1, <2>1, <2>2, ReliesAdvances
<1>9. QED
  BY <1>3, <1>4, <1>5, <1>6, <1>7, <1>8

(* Where it may fail although nothing failed of itself.                    *)
Excused ==
    \/ live0 # {} \/ ~lay.zones
    \/ lay.yac /\ Steps[pos] \in {"check", "vip", "scanname"}
    \/ Steps[pos] = "restart" /\ ~Bootable

(* Of the checks, those of C-001, C-009 and C-013 alone can fail, and what *)
(* later ones look for is there.                                           *)
LEMMA ForcedChecksFail ==
    ASSUME ControlTyped, HostsTyped, First \in Hosts, Forced, Relies, Quiet, Fail
    PROVE  Excused
<1>1. ~Advance /\ pos' = pos /\ exit' = "error" /\ disturbed' = disturbed /\ swallowed' = swallowed
      /\ par' = par
  BY StepCount, QuietSteps DEF Fail, Advance, Goes, Running, ControlTyped
<1>2. ~Pass /\ ~PassOver
  BY <1>1 DEF Pass, PassOver
<1>3. CASE Check \/ SCANNameCheck
  <2>1. lay.yac /\ (Here("check") \/ Here("scanname"))
    BY <1>1, <1>2, <1>3 DEF Check, SCANNameCheck
  <2>2. QED  BY <2>1 DEF Here, Excused
<1>4. CASE VIPCheck
  <2>1. lay.yac /\ Here("vip")
    BY <1>1, <1>2, <1>4 DEF VIPCheck, RequiresVIP
  <2>2. QED  BY <2>1 DEF Here, Excused
<1>5. CASE PortCheck \/ HomeCheck
  <2>1. \E h \in Hosts : procs[h] # {}
    BY <1>2, <1>5 DEF PortCheck, HomeCheck, HostsToRun
  <2>2. pos \in {2, 3}
    BY <1>5, HereIs, Places DEF PortCheck, HomeCheck
  <2>3. ~Past("home")
    BY <2>2, Places DEF Past
  <2>4. QED  BY <2>1, <2>3 DEF Relies, Excused
<1>6. CASE SCANDNSCheck \/ WriteHostsSkipped \/ SetDirOwnership \/ TuneFails
             \/ ArchdgSkipped \/ ArchdgExists \/ AuditSkipped \/ AutostartScript \/ ServiceSkipped
  BY <1>2, <1>6 DEF SCANDNSCheck, WriteHostsSkipped, SetDirOwnership, TuneFails, ArchdgSkipped,
                    ArchdgExists, AuditSkipped, AutostartScript, ServiceSkipped
<1>7. CASE SoftwareSkipped \/ SoftwareRefused
  <2>1. pos = 20
    BY <1>7, HereIs, Places DEF SoftwareSkipped, SoftwareRefused
  <2>2. toml # {}
    BY <2>1, Places DEF Relies, Past
  <2>3. QED  BY <1>7, <2>2 DEF SoftwareSkipped, SoftwareRefused, Forced
<1>8. CASE DeployRefused
  <2>1. pos = 21
    BY <1>8, HereIs, Places DEF DeployRefused
  <2>2. toml # {} /\ \A h \in Hosts : Installed(h)
    BY <2>1, Places DEF Relies, Past
  <2>3. QED  BY <1>8, <2>2 DEF DeployRefused, Forced
<1>9. CASE ArchdgFails \/ AuditFails \/ VerifyInstall \/ ShowClusterStatus
  <2>1. pos \in {22, 28, 31, 34} /\ (AuditFails => pos = 28) /\ (ArchdgFails => pos = 22)
        /\ (VerifyInstall => pos = 31) /\ (ShowClusterStatus => pos = 34)
    BY <1>9, HereIs, Places DEF ArchdgFails, AuditFails, VerifyInstall, ShowClusterStatus
  <2>2. \A h \in Hosts : procs[h] = {"agent", "db"}
    BY <2>1, ReliesHere
  <2>3. pos > 23 => Hosts \subseteq wrapper
    BY Places DEF Relies, Past
  <2>4. pos = 28 => Unaudited(inst.made)
    BY ReliesHere
  <2>5. ~ArchdgFails
    BY <2>2 DEF ArchdgFails, Answers
  <2>6. ~AuditFails
    BY <2>1, <2>2, <2>3, <2>4, AuditsAre DEF AuditFails, SQLReady, Answers, Unaudited
  <2>7. ~VerifyInstall
    BY <1>2, <2>1, <2>2, <2>3 DEF VerifyInstall
  <2>8. ~ShowClusterStatus
    BY <1>2, <2>1, <2>2, <2>3 DEF ShowClusterStatus
  <2>9. QED  BY <1>9, <2>5, <2>6, <2>7, <2>8
<1>10. CASE StepFails
  BY <1>1, <1>10 DEF StepFails, Cut, Forced
<1>11. QED
  BY <1>3, <1>4, <1>5, <1>6, <1>7, <1>8, <1>9, <1>10 DEF Quiet

(* Of the changes, that of the time zone, and the restart.                 *)
LEMMA ForcedChangesFail ==
    ASSUME ControlTyped, HostsTyped, First \in Hosts, Forced, Relies, ~disturbed', exit' = "error",
           CreateInstallDir \/ CreateDataDirs \/ ExtractPackage \/ CleanStaleBashrc \/ WriteHosts
             \/ GenConfig \/ SetDBTimezone \/ SetCharacterSet \/ DisableArchivelog
             \/ ConfigureRedo \/ SetNativeType \/ TuneYfsParams
             \/ InstallSoftware \/ DeployDatabase \/ CreateArchdg \/ SetEnvVars \/ CreatePDBs
             \/ ConfigureDefaultProfile \/ ApplySpfileParams \/ ConfigureTPCC
             \/ ConfigureUnifiedAudit \/ ExecuteCustomSQL
             \/ RestartDatabase \/ RestartCut \/ AutostartService
    PROVE  Excused'
<1>1. Goes /\ ~Cut /\ ~Advance
  BY OthersGo DEF Cut, Goes, Advance, Running
<1>2. ~Pass /\ \A done : ~PassOrCut(done)
  BY <1>1 DEF Pass, PassOrCut
<1>3. pos' = pos /\ lay' = lay /\ live0' = live0 /\ opt.force
  BY <1>1 DEF Goes, fixed, Forced
<1>4. CASE CreateInstallDir \/ CreateDataDirs
  BY <1>2, <1>3, <1>4 DEF CreateInstallDir, CreateDataDirs, Refused, Recreate
<1>5. CASE ExtractPackage \/ CleanStaleBashrc \/ InstallSoftware \/ DeployDatabase \/ SetEnvVars
             \/ AutostartService \/ CreateArchdg \/ ConfigureUnifiedAudit \/ RestartCut
  BY <1>1, <1>2, <1>3, <1>5 DEF ExtractPackage, CleanStaleBashrc, InstallSoftware, DeployDatabase,
       SetEnvVars, AutostartService, CreateArchdg, ConfigureUnifiedAudit, RestartCut
<1>6. CASE WriteHosts
  <2>1. PICK done \in Reached : /\ exit' = IF done = Hosts THEN exit ELSE "error"
                                /\ disturbed' = (disturbed \/ done # Hosts)
    BY <1>6 DEF WriteHosts
  <2>2. done # Hosts
    BY <1>1, <2>1 DEF Goes, Running
  <2>3. QED  BY <2>1, <2>2
<1>7. CASE GenConfig
  <2>1. pos = 13
    BY <1>7, HereIs, Places DEF GenConfig
  <2>2. dir[First].stage = "used"
    BY <2>1, Places DEF Relies, Past
  <2>3. lay.yac => par.inter # None /\ par.public # None
    BY <2>1, Places DEF Relies, Past
  <2>4. RequiresVIP => par.vips # <<>>
    BY <2>1, Places DEF Relies, Past
  <2>5. Flagged
    BY <2>3, <2>4 DEF Flagged, RequiresVIP
  <2>6. QED  BY <1>2, <1>7, <2>2, <2>5 DEF GenConfig
<1>8. CASE SetDBTimezone \/ SetCharacterSet \/ DisableArchivelog \/ ConfigureRedo
             \/ SetNativeType \/ TuneYfsParams
  <2>1. CASE SetDBTimezone /\ ~lay.zones
    BY <1>3, <2>1 DEF Excused
  <2>2. CASE ~(SetDBTimezone /\ ~lay.zones)
    <3>1. \E s \in {"tz", "charset", "noarch", "redo", "native", "tune"} : \E wanted : Edit(s, wanted)
      BY <1>8, <2>2 DEF SetDBTimezone, SetCharacterSet, DisableArchivelog, ConfigureRedo,
                        SetNativeType, TuneYfsParams
    <3>2. pos \in 14..19
      BY <3>1, HereIs, Places DEF Edit
    <3>3. toml # {}
      BY <3>2, Places DEF Relies, Past
    <3>4. QED  BY <1>2, <3>1, <3>3 DEF Edit
  <2>3. QED  BY <2>1, <2>2
<1>9. CASE CreatePDBs \/ ConfigureDefaultProfile \/ ApplySpfileParams \/ ConfigureTPCC
              \/ ExecuteCustomSQL
  <2>1. pos \in {24, 25, 26, 27, 29}
    BY <1>9, HereIs, Places DEF CreatePDBs, ConfigureDefaultProfile, ApplySpfileParams, ConfigureTPCC,
               ExecuteCustomSQL, ToSPFILE, WithInst
  <2>2. SQLReady
    <3>1. Past("deploy") /\ Past("env")
      BY <2>1, Places DEF Past
    <3>2. QED  BY <3>1 DEF Relies, SQLReady, Answers
  <2>3. QED
    BY <1>2, <1>9, <2>2 DEF CreatePDBs, ConfigureDefaultProfile, ApplySpfileParams, ConfigureTPCC,
               ExecuteCustomSQL, ToSPFILE, WithInst
<1>10. CASE RestartDatabase
  <2>1. pos = 30 /\ Steps[pos] = "restart"
    BY <1>10, HereIs, Places DEF RestartDatabase, Here
  <2>2. First \in wrapper /\ procs[First] # {}
    <3>1. Past("deploy") /\ Past("env")
      BY <2>1, Places DEF Past
    <3>2. QED  BY <3>1 DEF Relies
  <2>3. ~Bootable /\ inst' = inst
    BY <1>1, <1>2, <1>10, <2>2 DEF RestartDatabase
  <2>4. ~Bootable'
    BY <1>3, <2>3 DEF Bootable
  <2>5. QED  BY <1>3, <2>1, <2>4 DEF Excused
<1>11. QED
  BY <1>4, <1>5, <1>6, <1>7, <1>8, <1>9, <1>10

LEMMA QuietFails ==
    ASSUME Quiet, ~Advance, ~Pass, ~PassOver, ~Cut
    PROVE  Fail
<1>1. CASE Check \/ PortCheck \/ HomeCheck \/ VIPCheck \/ WriteHostsSkipped \/ SCANDNSCheck
             \/ SCANNameCheck
  BY <1>1 DEF Check, PortCheck, HomeCheck, VIPCheck, WriteHostsSkipped, SCANDNSCheck, SCANNameCheck
<1>2. CASE SoftwareSkipped \/ SoftwareRefused \/ DeployRefused \/ ArchdgSkipped \/ ArchdgFails
             \/ ArchdgExists \/ AuditSkipped \/ AuditFails
  BY <1>2 DEF SoftwareSkipped, SoftwareRefused, DeployRefused, ArchdgSkipped, ArchdgFails, ArchdgExists,
             AuditSkipped, AuditFails
<1>3. CASE VerifyInstall \/ AutostartScript \/ ServiceSkipped \/ ShowClusterStatus
             \/ SetDirOwnership \/ TuneFails \/ StepFails
  BY <1>3 DEF VerifyInstall, AutostartScript, ServiceSkipped, ShowClusterStatus, SetDirOwnership,
             TuneFails, StepFails
<1>4. QED  BY <1>1, <1>2, <1>3 DEF Quiet

LEMMA ForcedKeeps ==
    ASSUME ControlTyped, HostsTyped, ForcedInv, [Next]_vars
    PROVE  ForcedInv'
<1>l. lay' = lay /\ Hosts' = Hosts /\ First \in Hosts /\ IsLayout(lay)
  BY LayoutKept
<1>1. CASE Start
  <2>1. pos' = from' /\ UNCHANGED host /\ live0' = {h \in Hosts : procs[h] # {}} /\ exit' = "none"
    BY <1>1 DEF Start
  <2>2. ASSUME Forced'
        PROVE  Relies'
    <3>1. pos' = 1
      BY <2>1, <2>2 DEF Forced
    <3>2. \A s \in {"check", "vip", "extract", "gen", "software", "deploy", "env"} : ~Past(s)'
      BY <3>1, Places DEF Past
    <3>3. \A h \in Hosts : procs'[h] # {} => h \in live0'
      BY <2>1 DEF host
    <3>4. QED  BY <1>l, <3>2, <3>3 DEF Relies
  <2>3. QED  BY <2>1, <2>2 DEF ForcedInv, Running
<1>2. CASE Stopped \/ ComesBack \/ Done \/ UNCHANGED vars
  <2>1. SUFFICES ASSUME Forced' PROVE ForcedInv'
    BY DEF ForcedInv
  <2>2. UNCHANGED <<lay, opt, from, run, live0, pos, exit, par, dir, toml, soft, inst, wrapper>>
    BY <1>2, OutsideStirs DEF Stirs
  <2>3. ~ComesBack
    BY <2>1 DEF ComesBack, Forced
  <2>4. disturbed' = disturbed
    BY <1>2, <2>3 DEF Stopped, Done, vars
  <2>5. Forced
    BY <2>1, <2>2, <2>4 DEF Forced
  <2>6. CASE ~Running
    <3>1. ForcedRunRecovers'
      BY <2>2, <2>4, <2>5, <2>6 DEF ForcedInv, ForcedRunRecovers, Bootable
    <3>2. ~Running'
      BY <2>2, <2>6 DEF Running
    <3>3. QED  BY <3>1, <3>2 DEF ForcedInv
  <2>7. CASE Running
    <3>1. procs' = procs
      BY <1>2, <2>3, <2>7 DEF Stopped, Done, vars, host
    <3>2. Relies
      BY <2>5, <2>7 DEF ForcedInv
    <3>3. Relies'
      BY <1>l, <2>2, <3>1, <3>2 DEF Relies, Past, Installed, RequiresVIP, First, HostList
    <3>4. Running'
      BY <2>2, <2>7 DEF Running
    <3>5. QED  BY <3>3, <3>4 DEF ForcedInv
  <2>8. QED  BY <2>6, <2>7
<1>3. ASSUME Next, Goes
      PROVE  ForcedInv'
  <2>1. SUFFICES ASSUME Forced' PROVE ForcedInv'
    BY DEF ForcedInv
  <2>2. Forced /\ Relies /\ ~disturbed'
    <3>1. ~disturbed' /\ run' > 0 /\ opt'.force /\ from' = 1
      BY <2>1 DEF Forced
    <3>2. disturbed' \in {disturbed, TRUE} /\ Running
      BY <1>3 DEF Goes
    <3>3. ~disturbed
      BY <3>1, <3>2
    <3>4. UNCHANGED <<run, opt, from>>
      BY <1>3 DEF Goes, fixed
    <3>5. Forced
      BY <3>1, <3>3, <3>4 DEF Forced
    <3>6. QED  BY <3>1, <3>2, <3>5 DEF ForcedInv
  <2>3. exit' \in {"none", "ok", "error"}
    BY <1>3 DEF Goes, Advance, Running
  <2>4. CASE exit' = "none"
    <3>1. Quiet \/ (~Quiet /\ ~Start /\ ~Stopped /\ ~ComesBack /\ ~Done)
      <4>1. ~Start
        BY <1>3 DEF Goes, Start
      <4>2. CASE Stopped \/ ComesBack \/ Done
        <5>1. pos' = pos /\ exit' = exit
          BY <4>2, OutsideStirs DEF Stirs
        <5>2. QED  BY <1>3, <5>1, StepCount DEF Goes, Advance, Running, ControlTyped
      <4>3. QED  BY <4>1, <4>2
    <3>2. Relies'
      BY <1>l, <1>3, <2>2, <2>4, <3>1, ForcedChecksAdvance, ForcedSetupAdvances, ForcedDatabaseAdvances
      DEF Next, Quiet
    <3>3. QED  BY <2>4, <3>2 DEF ForcedInv, Running
  <2>5. CASE exit' = "ok"
    BY <2>5 DEF ForcedInv, Running, ForcedRunRecovers
  <2>6. CASE exit' = "error"
    <3>1. Excused'
      <4>1. CASE Quiet
        <5>1. Goes /\ UNCHANGED host
          BY <4>1, QuietSteps
        <5>2. Fail
          <6>1. ~Advance /\ ~Cut
            BY <2>2, <2>6, <5>1 DEF Goes, Advance, Running, Cut
          <6>2. ~Pass /\ ~PassOver
            BY <6>1 DEF Pass, PassOver
          <6>3. QED  BY <4>1, <6>1, <6>2, QuietFails
        <5>3. Excused
          BY <1>l, <2>2, <4>1, <5>2, ForcedChecksFail
        <5>4. QED  BY <5>1, <5>2, <5>3 DEF Excused, Bootable, Fail, fixed, host
      <4>2. CASE ~Quiet /\ ~Start /\ ~Stopped /\ ~ComesBack /\ ~Done
        BY <1>l, <1>3, <2>2, <2>6, <4>2, ForcedChangesFail DEF Next, Quiet
      <4>3. ~Start
        BY <1>3 DEF Goes, Start
      <4>4. CASE Stopped \/ ComesBack \/ Done
        <5>1. exit' = exit
          BY <4>4, OutsideStirs DEF Stirs
        <5>2. QED  BY <1>3, <2>6, <5>1 DEF Goes, Running
      <4>5. QED  BY <4>1, <4>2, <4>3, <4>4
    <3>2. QED  BY <2>6, <3>1 DEF ForcedInv, Running, ForcedRunRecovers, Excused
  <2>7. QED  BY <2>3, <2>4, <2>5, <2>6
<1>4. QED  BY <1>1, <1>2, <1>3, ChecksGo, OthersGo DEF Next

(* A forced full run is never stopped by what an earlier run left, at      *)
(* whichever step it ended, or by what was in the directories before, once *)
(* the processes are stopped.                                              *)
THEOREM ForceRecovers == Spec => []ForcedRunRecovers
<1>1. Init => ForcedInv
  BY DEF Init, ForcedInv, Forced
<1>2. ControlTyped /\ HostsTyped /\ ForcedInv /\ [Next]_vars => ForcedInv'
  BY ForcedKeeps
<1>3. ControlTyped /\ ForcedInv => ForcedRunRecovers
  BY DEF ControlTyped, ForcedInv, Forced, ForcedRunRecovers, Running
<1>4. QED  BY Typed, <1>1, <1>2, <1>3, PTL DEF Spec
=============================================================================
