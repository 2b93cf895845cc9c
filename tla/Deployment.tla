----------------------------- MODULE Deployment -----------------------------
(***************************************************************************)
(* "yinstall db": what the steps C-001 .. C-035 do to the hosts, over      *)
(* several runs of the command, on one host or on the hosts of a YAC       *)
(* cluster.  A run may be forced (-F), may fail or be cut off in any step, *)
(* and be followed by one that takes up the step that failed (-s C-n-C-35).*)
(* Only applied runs are modelled.                                         *)
(*                                                                         *)
(* The command's phases are DBInstall, the package on its way to the stage *)
(* directory PackageStage, the shared disks (C-012) SharedDisks.  External:*)
(* what yasboot, the database and systemd do.                              *)
(***************************************************************************)
EXTENDS ClusterNetwork

CONSTANTS Layouts,               \* hosts and command lines, apart from Options
          Options,               \* [force, resume] of a run
          Runs                   \* bound on the runs of the command

Edits == {"gen", "tz", "charset", "noarch", "redo", "native", "tune"}
Wishes == {"charset", "noarch", "native", "tune", "tpcc", "params", "audit", "arch", "pdb", "sql"}

(* hosts: the targets; default: port 1688; crowd: another database runs on *)
(* them; alien: directories filled by somebody else; want: the options     *)
(* given; zones: the hosts agree on a time zone, or --db-timezone is given;*)
(* small: the redo files of --yac-redo-file-size are below 128M.  Of a YAC *)
(* cluster: its access mode, addresses, interfaces (that of the address    *)
(* first), and the addresses in use by others.                             *)
IsLayout(l) ==
    /\ l.hosts \in Seq(ToSet(l.hosts)) /\ l.hosts # <<>> /\ IsInjective(l.hosts)
    /\ Len(l.hosts) > 1 => l.yac
    /\ {l.yac, l.default, l.crowd, l.zones, l.small, l.masked} \subseteq BOOLEAN
    /\ l.alien \subseteq ToSet(l.hosts) \X {"stage", "install", "data"} /\ l.want \subseteq Wishes
    /\ l.mode \in {"vip", "local", "dns", "direct"}
    /\ l.addr \in [DOMAIN l.hosts -> 1..Top] /\ l.nets \in [DOMAIN l.hosts -> Seq(Interfaces)]
    /\ \A i \in DOMAIN l.nets : l.nets[i] # <<>> /\ l.nets[i][1].cidr = CIDR(l.addr[i])
    /\ l.vips \in Seq(1..Top) /\ l.scan \in 0..Top /\ {l.public, l.inter} \subseteq 0..CIDR(Top)
    /\ l.others \cup l.dns \subseteq 1..Top

ASSUME LayoutsAssumption == \A l \in Layouts : IsLayout(l)
ASSUME OptionsAssumption == Options \subseteq [force : BOOLEAN, resume : BOOLEAN]
ASSUME RunsAssumption == Runs \in Nat \ {0}

Steps == <<"check", "port", "home", "stage", "dirs", "owner", "extract", "bashrc", "vip", "hosts",
           "scandns", "scanname", "gen", "tz", "charset", "noarch", "redo", "native", "tune",
           "software", "deploy", "archdg", "env", "pdb", "profile", "spfile", "tpcc", "audit",
           "sql", "restart", "verify", "script", "service", "status">>

NoParams == [public |-> None, inter |-> None, vips |-> <<>>, scan |-> None]
NoDatabase == [built |-> {}, spfile |-> {}, active |-> {}, made |-> {}]

VARIABLES lay, opt, from,        \* one of Layouts; options and first step of the run
          run, pos, exit,        \* number and position of the run, its exit status
          par,                   \* parameters that the steps fill in, for one run
          dir,                   \* [host][stage | install | data]
          toml,                  \* the cluster's configuration in First's stage directory
          soft,                  \* what package install left: the link, the env file
          procs,                 \* per host: the agent (yasom too), the database
          inst,                  \* the database: [built, spfile, active, made]
          wrapper,               \* hosts whose .bashrc or .portN sources the cluster's
          unit,                  \* what the autostart unit of a host is started with
          names,                 \* the managed block of /etc/hosts, per host
          disturbed,             \* something of its own got into the run
          swallowed,             \* a failure was passed over, in this run or those it resumes
          up0, live0             \* where the database ran on its data, any process, at the start

host == <<dir, toml, soft, procs, inst, wrapper, unit, names>>
fixed == <<lay, opt, from, run, up0, live0>>
vars == <<fixed, pos, exit, par, host, disturbed, swallowed>>

HostList == lay.hosts
Hosts == ToSet(HostList)
First == HostList[1]
Several == Len(HostList) > 1

-----------------------------------------------------------------------------
(* The run. *)

Running == exit = "none"
Here(s) == Running /\ Steps[pos] = s

Advance == IF pos = Len(Steps) THEN exit' = "ok" /\ UNCHANGED pos
                               ELSE pos' = pos + 1 /\ UNCHANGED exit
Pass == Advance /\ UNCHANGED <<fixed, par, disturbed, swallowed>>
PassOver == Advance /\ swallowed' = TRUE /\ UNCHANGED <<fixed, par, disturbed>>
Fail == exit' = "error" /\ UNCHANGED <<fixed, pos, par, disturbed, swallowed, host>>
Cut == exit' = "error" /\ disturbed' = TRUE /\ UNCHANGED <<fixed, pos, par, swallowed>>

(* A step goes from host to host: it is cut off after some, or passes.     *)
Reached == {ToSet(SubSeq(HostList, 1, n)) : n \in 0..Len(HostList)}
PassOrCut(done) == IF done = Hosts THEN Pass ELSE Cut

(* StepContext.HostsToRun: a step that checks or changes hosts visits all. *)
HostsToRunOne == {First}                 \* mutant: a step sees the host it is connected to
HostsToRun == Hosts

Init ==
    /\ lay \in Layouts /\ opt \in Options /\ from = 1
    /\ run = 0 /\ pos = 1 /\ exit = "ok" /\ par = NoParams
    /\ dir = [h \in Hosts |-> [d \in {"stage", "install", "data"} |->
                 IF <<h, d>> \in lay.alien THEN "alien" ELSE "none"]]
    /\ toml = {} /\ soft = [h \in Hosts |-> {}] /\ procs = [h \in Hosts |-> {}]
    /\ inst = NoDatabase /\ wrapper = {} /\ unit = [h \in Hosts |-> "none"]
    /\ names = [h \in Hosts |-> {}]
    /\ disturbed = FALSE /\ swallowed = FALSE /\ up0 = {} /\ live0 = {}

(* -s takes up the step that failed: parameters of the steps before it are *)
(* those of the command line again.                                        *)
Start ==
    /\ ~Running /\ run < Runs /\ run' = run + 1 /\ exit' = "none"
    /\ opt' \in Options
    /\ from' = (IF opt'.resume /\ exit = "error" THEN pos ELSE 1) /\ pos' = from'
    /\ par' = [public |-> lay.public, inter |-> lay.inter, vips |-> lay.vips, scan |-> lay.scan]
    /\ up0' = {h \in Hosts : "db" \in procs[h] /\ dir[h].data = "used"}
    /\ live0' = {h \in Hosts : procs[h] # {}}
    /\ disturbed' = FALSE /\ swallowed' = (swallowed /\ from' # 1)
    /\ UNCHANGED <<lay, host>>

-----------------------------------------------------------------------------
(* Checks that nothing is installed. *)

(* C-001 settles the networks of a YAC cluster; a resumed run has none but *)
(* those of the command line.                                              *)
Check ==
    /\ Here("check")
    /\ LET public == PublicOf(lay.addr, lay.nets, lay.public)
           inter == InterconnectOf(lay.nets, public, lay.inter)
       IN  IF lay.yac /\ None \in {public, inter} THEN Fail
           ELSE /\ par' = IF lay.yac THEN [par EXCEPT !.public = public, !.inter = inter] ELSE par
                /\ Advance /\ UNCHANGED <<fixed, disturbed, swallowed, host>>

(* C-002 wants the port free, C-003 no process below the home: not even a  *)
(* forced run goes past them.                                              *)
PortCheck ==
    /\ Here("port") /\ UNCHANGED host
    /\ IF \E h \in HostsToRun : "db" \in procs[h] THEN Fail ELSE Pass
HomeCheck ==
    /\ Here("home") /\ UNCHANGED host
    /\ IF \E h \in HostsToRun : procs[h] # {} THEN Fail ELSE Pass

-----------------------------------------------------------------------------
(* Directories: C-004 makes the stage directory, C-005 the others. *)

Filled(h, d) == dir[h][d] \in {"alien", "used"}
RefusedAlways(ds) == \E h \in Hosts, d \in ds : Filled(h, d)    \* mutant: forced or not
Refused(ds) == ~opt.force /\ \E h \in Hosts, d \in ds : Filled(h, d)

(* Deletes and makes them, host by host; cut off between the two on one.   *)
Recreate(ds) ==
    \E done \in Reached : \E torn \in {{}} \cup {{h} : h \in Hosts \ done} :
        /\ dir' = [h \in Hosts |-> [d \in DOMAIN dir[h] |->
               CASE d \in ds /\ h \in done -> "empty"
                 [] d \in ds /\ h \in torn -> "none"
                 [] OTHER -> dir[h][d]]]
        /\ toml' = IF "stage" \in ds /\ First \in done \cup torn THEN {} ELSE toml
        /\ inst' = IF "data" \in ds /\ First \in done \cup torn THEN NoDatabase ELSE inst
        /\ PassOrCut(done)
        /\ UNCHANGED <<soft, procs, wrapper, unit, names>>

CreateInstallDir == Here("stage") /\ IF Refused({"stage"}) THEN Fail ELSE Recreate({"stage"})
CreateDataDirs ==
    Here("dirs") /\ IF Refused({"install", "data"}) THEN Fail ELSE Recreate({"install", "data"})
SetDirOwnership == Here("owner") /\ Pass /\ UNCHANGED host

(* C-007, on First: see PackageStage for what it takes for unpacked.       *)
ExtractPackage ==
    /\ Here("extract")
    /\ \/ Filled(First, "stage") /\ ~opt.force /\ Fail
       \/ /\ dir' = [dir EXCEPT ![First].stage = "used"]
          /\ toml' = IF opt.force THEN {} ELSE toml
          /\ Pass \/ Cut
          /\ UNCHANGED <<soft, procs, inst, wrapper, unit, names>>

(* C-008 takes out what sources a bashrc that is gone.                     *)
CleanStaleBashrc ==
    /\ Here("bashrc")
    /\ \E done \in Reached :
          /\ wrapper' = wrapper \ {h \in done : dir[h].install # "used"} /\ PassOrCut(done)
    /\ UNCHANGED <<dir, toml, soft, procs, inst, unit, names>>
-----------------------------------------------------------------------------
(* Addresses and names of a YAC cluster. *)

RequiresVIP == lay.yac /\ lay.mode # "direct"

VIPCheck ==
    /\ Here("vip") /\ UNCHANGED host
    /\ LET vips == VIPsOf(lay.addr, par.vips, lay.others)
       IN  CASE ~RequiresVIP -> Pass
             [] RequiresVIP /\ None \in ToSet(vips) -> Fail
             [] OTHER -> /\ par' = [par EXCEPT !.vips = vips] /\ Advance
                         /\ UNCHANGED <<fixed, disturbed, swallowed>>

(* C-010: of scan mode "local", the PreCheck allocates the SCAN address,   *)
(* and as the step is optional its failure skips the step, the VIPs too.   *)
SCAN == SCANOf(lay.addr, par.vips, lay.masked, par.scan, lay.others)
WriteHostsSkipped ==
    /\ Here("hosts") /\ UNCHANGED host
    /\ \/ ~lay.yac /\ Pass
       \/ lay.yac /\ lay.mode = "local" /\ SCAN = None /\ PassOver

(* The block of First with the new entries added becomes everybody's.      *)
EntriesGiven(scan) ==                    \* mutant: the VIPs of the command line, not the run's
         {<<"vip", lay.vips[i]>> : i \in DOMAIN lay.vips}
    \cup (IF lay.mode = "local" THEN {<<"scan", scan>>} ELSE {})
Entries(scan) ==
         (IF RequiresVIP THEN {<<"vip", par.vips[i]>> : i \in DOMAIN par.vips} ELSE {})
    \cup (IF lay.mode = "local" THEN {<<"scan", scan>>} ELSE {})
WriteHosts ==
    /\ Here("hosts") /\ lay.yac /\ (lay.mode = "local" => SCAN # None)
    /\ \E done \in Reached :
          /\ names' = [h \in Hosts |-> IF h \in done THEN names[First] \cup Entries(SCAN) ELSE names[h]]
          /\ exit' = IF done = Hosts THEN exit ELSE "error"
          /\ pos' = IF done = Hosts THEN pos + 1 ELSE pos
          /\ disturbed' = (disturbed \/ done # Hosts)
    /\ par' = [par EXCEPT !.scan = IF lay.mode = "local" THEN SCAN ELSE @]
    /\ UNCHANGED <<fixed, swallowed, dir, toml, soft, procs, inst, wrapper, unit>>

(* C-011 does all its checks in the PreCheck of an optional step: it never *)
(* fails a run; C-013 has one of them in its Action.                       *)
SCANNet ==
    CASE par.public # None -> par.public
      [] par.public = None /\ par.inter # None -> par.inter
      [] OTHER -> CIDR(lay.addr[1])
SCANDNSCheck ==
    /\ Here("scandns") /\ UNCHANGED host
    /\ IF lay.yac /\ lay.mode = "dns" /\ ~DNSFree(lay.dns, SCANNet, lay.others) THEN PassOver ELSE Pass
SCANNameCheck ==
    /\ Here("scanname") /\ UNCHANGED host
    /\ IF lay.yac /\ lay.mode = "dns" /\ ~DNSNear(lay.dns, SCANNet, lay.addr) THEN Fail ELSE Pass
-----------------------------------------------------------------------------
(* The configuration that the cluster is built from. *)

(* C-014.  yasboot package ce gen wants a value for each of its flags.     *)
Flagged ==
    lay.yac => None \notin {par.public, par.inter} /\ (lay.mode = "vip" => par.vips # <<>>)
GenConfig ==
    /\ Here("gen")
    /\ IF dir[First].stage # "used" \/ ~Flagged
       THEN Fail
       ELSE toml' = {"gen"} /\ Pass /\ UNCHANGED <<dir, soft, procs, inst, wrapper, unit, names>>

Edit(s, wanted) ==
    /\ Here(s)
    /\ IF toml = {} THEN Fail
       ELSE /\ toml' = IF wanted THEN toml \cup {s} ELSE toml
            /\ Pass /\ UNCHANGED <<dir, soft, procs, inst, wrapper, unit, names>>

SetDBTimezone == IF lay.zones THEN Edit("tz", TRUE) ELSE Here("tz") /\ Fail
SetCharacterSet == Edit("charset", "charset" \in lay.want)
DisableArchivelog == Edit("noarch", "noarch" \in lay.want)
ConfigureRedo == Edit("redo", TRUE)
SetNativeType == Edit("native", "native" \in lay.want)
TuneYfsParams == Edit("tune", lay.yac /\ "tune" \in lay.want)

(* C-020 only logs when one of its edits fails.                            *)
TuneFails == Here("tune") /\ lay.yac /\ "tune" \in lay.want /\ PassOver /\ UNCHANGED host

(* What the configuration should come to.                                  *)
Asked ==
    {"gen", "tz", "redo"} \cup (lay.want \cap {"charset", "noarch", "native"})
        \cup (IF lay.yac THEN lay.want \cap {"tune"} ELSE {})

-----------------------------------------------------------------------------
(* C-021 and C-022: software and database, on every host. *)

Installed(h) == soft[h] = {"link", "env"} /\ dir[h].install = "used"
LinkMatches(h) == "link" \in soft[h] /\ dir[h].install = "used"

(* Left as it is when the version behind the link is that of the stage     *)
(* directory: on all hosts in the PreCheck, on First in the Action.        *)
SoftwareSkipped ==
    /\ Here("software") /\ ~opt.force /\ LinkMatches(First) /\ toml # {}
    /\ Pass /\ UNCHANGED host
SoftwareRefused ==
    /\ Here("software") /\ Fail
    /\ toml = {} \/ (~Several /\ ~opt.force /\ soft[First] # {} /\ ~LinkMatches(First))

(* A forced install, and every one on several hosts, first kills the       *)
(* agents and removes the link and the env file everywhere.                *)
InstallSoftware ==
    /\ Here("software") /\ toml # {} /\ (opt.force \/ ~LinkMatches(First))
    /\ Several \/ opt.force \/ soft[First] = {}
    /\ \E done \in Reached :
          /\ soft' = [h \in Hosts |-> IF h \in done THEN {"link", "env"} ELSE {}]
          /\ procs' = [h \in Hosts |-> (procs[h] \ {"agent"}) \cup IF h \in done THEN {"agent"} ELSE {}]
          /\ dir' = [h \in Hosts |-> IF h \in done THEN [dir[h] EXCEPT !.install = "used"] ELSE dir[h]]
          /\ PassOrCut(done)
    /\ UNCHANGED <<toml, inst, wrapper, unit, names>>

(* A live cluster is deployed again only by force, which purges it first.  *)
Live == \E h \in Hosts : procs[h] = {"agent", "db"}
DeployRefused ==
    /\ Here("deploy") /\ Fail
    /\ toml = {} \/ (~opt.force /\ Live)
       \/ \E h \in Hosts : ~Installed(h) \/ (dir[h].data # "empty" /\ ~opt.force)
DeployDatabase ==
    /\ Here("deploy") /\ toml # {} /\ (Live => opt.force)
    /\ \A h \in Hosts : Installed(h) /\ (opt.force \/ dir[h].data = "empty")
    /\ \E done \in Reached :
          /\ dir' = [h \in Hosts |-> [dir[h] EXCEPT !.data = IF h \in done THEN "used" ELSE "empty"]]
          /\ procs' = [h \in Hosts |-> {"agent"} \cup IF h \in done THEN {"db"} ELSE {}]
          /\ inst' = [NoDatabase EXCEPT !.built = IF done = {} THEN {} ELSE toml]
          /\ PassOrCut(done)
    /\ UNCHANGED <<toml, soft, wrapper, unit, names>>
-----------------------------------------------------------------------------
(* SQL in the new database, on First. *)

(* With the file that C-024 wrote; C-023 comes before it, and goes by the  *)
(* directories.                                                            *)
Answers == "db" \in procs[First]
SQLReady == Answers /\ First \in wrapper
WithInst(s, new) ==
    /\ Here(s)
    /\ IF ~SQLReady THEN Fail
       ELSE inst' = new /\ Pass /\ UNCHANGED <<dir, toml, soft, procs, wrapper, unit, names>>

(* CREATE DISKGROUP, then ALTER DATABASE; a disk group that exists is the  *)
(* end of it, whether the archive destination was set or not.              *)
ArchdgWanted == lay.yac /\ "arch" \in lay.want
ArchdgSkipped == Here("archdg") /\ ~ArchdgWanted /\ Pass /\ UNCHANGED host
ArchdgFails == Here("archdg") /\ ArchdgWanted /\ ~Answers /\ Fail
ArchdgExists ==
    /\ Here("archdg") /\ ArchdgWanted /\ Answers /\ "arch" \in inst.made
    /\ (IF "dest" \in inst.made THEN Pass ELSE PassOver) /\ UNCHANGED host
CreateArchdg ==
    /\ Here("archdg") /\ ArchdgWanted /\ Answers /\ "arch" \notin inst.made
    /\ \/ inst' = [inst EXCEPT !.made = @ \cup {"arch"}] /\ Cut
       \/ inst' = [inst EXCEPT !.made = @ \cup {"arch", "dest"}] /\ Pass
    /\ UNCHANGED <<dir, toml, soft, procs, wrapper, unit, names>>

(* C-024: a host without the bashrc that yasboot generates is passed over. *)
SetEnvVars ==
    /\ Here("env")
    /\ \E done \in Reached : wrapper' = wrapper \cup {h \in done : LinkMatches(h)} /\ PassOrCut(done)
    /\ UNCHANGED <<dir, toml, soft, procs, inst, unit, names>>

(* C-025 creates the PDBs that are not there yet.                          *)
CreatePDBs ==
    IF "pdb" \in lay.want THEN WithInst("pdb", [inst EXCEPT !.made = @ \cup {"pdb"}])
                          ELSE Here("pdb") /\ Pass /\ UNCHANGED host

(* C-026 .. C-028: SCOPE=SPFILE.  The command line is refused before any   *)
(* run when it wants tpcc with redo files below 128M, on which C-028 would *)
(* do nothing.                                                             *)
ToSPFILE(s, wanted, value) ==
    IF wanted THEN WithInst(s, [inst EXCEPT !.spfile = @ \cup {value}])
              ELSE Here(s) /\ Pass /\ UNCHANGED host
ConfigureDefaultProfile == ToSPFILE("profile", TRUE, "date")
ApplySpfileParams == ToSPFILE("spfile", "params" \in lay.want, "params")
ConfigureTPCC == ToSPFILE("tpcc", "tpcc" \in lay.want, "tpcc")

(* C-029 creates policies, then jobs, of a CDB first the jobs of the root, *)
(* then the policies of its PDBs, and fails on those that exist.           *)
Audits == IF "pdb" \in lay.want THEN <<"jobs", "policies">> ELSE <<"policies", "jobs">>
AuditSkipped == Here("audit") /\ "audit" \notin lay.want /\ Pass /\ UNCHANGED host
AuditFails ==
    /\ Here("audit") /\ "audit" \in lay.want
    /\ ~SQLReady \/ Audits[1] \in inst.made
    /\ Fail
ConfigureUnifiedAudit ==
    /\ Here("audit") /\ "audit" \in lay.want /\ SQLReady /\ Audits[1] \notin inst.made
    /\ \/ inst' = [inst EXCEPT !.made = @ \cup {Audits[1]}] /\ Cut
       \/ inst' = [inst EXCEPT !.made = @ \cup ToSet(Audits)] /\ Pass
    /\ UNCHANGED <<dir, toml, soft, procs, wrapper, unit, names>>

ExecuteCustomSQL ==
    IF "sql" \in lay.want THEN WithInst("sql", [inst EXCEPT !.made = @ \cup {"sql"}])
                          ELSE Here("sql") /\ Pass /\ UNCHANGED host

(* C-031: the parameters take effect, unless the redo buffer of the TPCC   *)
(* settings is larger than the redo files of C-020 (YAS-02075).            *)
Bootable == "tpcc" \in inst.spfile /\ "tune" \in inst.built => ~lay.small
RestartDatabase ==
    /\ Here("restart")
    /\ IF First \notin wrapper \/ procs[First] = {} THEN Fail
       ELSE /\ procs' = [h \in Hosts |-> IF Bootable THEN procs[h] \cup {"db"} ELSE procs[h] \ {"db"}]
            /\ inst' = IF Bootable THEN [inst EXCEPT !.active = inst.spfile] ELSE inst
            /\ (IF Bootable THEN Pass \/ Cut ELSE exit' = "error" /\ UNCHANGED <<fixed, pos, par, disturbed, swallowed>>)
            /\ UNCHANGED <<dir, toml, soft, wrapper, unit, names>>
RestartCut ==                            \* the databases are down when the run ends
    /\ Here("restart") /\ SQLReady /\ Cut
    /\ procs' = [h \in Hosts |-> procs[h] \ {"db"}]
    /\ UNCHANGED <<dir, toml, soft, inst, wrapper, unit, names>>

VerifyInstall ==
    /\ Here("verify") /\ UNCHANGED host
    /\ IF \A h \in Hosts : "db" \in procs[h] /\ h \in wrapper THEN Pass ELSE Fail
-----------------------------------------------------------------------------
(* Autostart. *)

AutostartScript == Here("script") /\ Pass /\ UNCHANGED host

(* DetermineServiceName: of port 1688, "bashrc" or, when several databases *)
(* run, "1688", the file for which C-024 never writes.                     *)
ServiceArg == IF lay.default /\ ~lay.crowd THEN "bashrc" ELSE "port"
AutostartService ==
    /\ Here("service")
    /\ \E done \in Reached :
          /\ unit' = [h \in Hosts |-> IF h \in done THEN ServiceArg ELSE unit[h]] /\ PassOrCut(done)
    /\ UNCHANGED <<dir, toml, soft, procs, inst, wrapper, names>>
ServiceSkipped == Here("service") /\ PassOver /\ UNCHANGED host

UnitWorks(h) ==
    /\ unit[h] = IF lay.default THEN "bashrc" ELSE "port"
    /\ h \in wrapper /\ LinkMatches(h)

ShowClusterStatus ==
    /\ Here("status") /\ UNCHANGED host
    /\ IF "agent" \in procs[First] /\ First \in wrapper THEN Pass ELSE Fail
-----------------------------------------------------------------------------
(* Around the run. *)

(* A command fails before it changes anything, or the control machine goes.*)
StepFails == Running /\ Cut /\ UNCHANGED host

(* Between runs the operator stops the processes of a host, or it reboots. *)
Stopped ==
    /\ ~Running /\ 0 < run /\ run < Runs
    /\ \E h \in Hosts, rest \in {{}, {"agent"}} :
          /\ rest \subseteq procs[h] /\ procs[h] # rest
          /\ procs' = [procs EXCEPT ![h] = rest]
    /\ up0' = {}
    /\ UNCHANGED <<lay, opt, from, run, live0, pos, exit, par, dir, toml, soft, inst, wrapper, unit,
                   names, disturbed, swallowed>>

(* yashan_monit.sh starts monit, which starts what does not run.           *)
ComesBack ==
    \E h \in Hosts :
        /\ UnitWorks(h)
        /\ procs' = [procs EXCEPT ![h] = @ \cup {"agent"} \cup
                         IF dir[h].data = "used" /\ Bootable THEN {"db"} ELSE {}]
        /\ procs' # procs /\ disturbed' = TRUE
        /\ UNCHANGED <<fixed, pos, exit, par, dir, toml, soft, inst, wrapper, unit, names, swallowed>>

Done == ~Running /\ run = Runs /\ UNCHANGED vars

Next ==
    \/ Start \/ Check \/ PortCheck \/ HomeCheck
    \/ CreateInstallDir \/ CreateDataDirs \/ SetDirOwnership \/ ExtractPackage \/ CleanStaleBashrc
    \/ VIPCheck \/ WriteHostsSkipped \/ WriteHosts \/ SCANDNSCheck \/ SCANNameCheck
    \/ GenConfig \/ SetDBTimezone \/ SetCharacterSet \/ DisableArchivelog \/ ConfigureRedo
    \/ SetNativeType \/ TuneYfsParams \/ TuneFails
    \/ SoftwareSkipped \/ SoftwareRefused \/ InstallSoftware \/ DeployRefused \/ DeployDatabase
    \/ ArchdgSkipped \/ ArchdgFails \/ ArchdgExists \/ CreateArchdg \/ SetEnvVars \/ CreatePDBs
    \/ ConfigureDefaultProfile \/ ApplySpfileParams \/ ConfigureTPCC
    \/ AuditSkipped \/ AuditFails \/ ConfigureUnifiedAudit \/ ExecuteCustomSQL
    \/ RestartDatabase \/ RestartCut \/ VerifyInstall
    \/ AutostartScript \/ AutostartService \/ ServiceSkipped \/ ShowClusterStatus
    \/ StepFails \/ Stopped \/ ComesBack \/ Done

Spec == Init /\ [][Next]_vars

-----------------------------------------------------------------------------
TypeOK ==
    /\ lay \in Layouts /\ opt \in Options /\ {from, pos} \subseteq DOMAIN Steps /\ run \in 0..Runs
    /\ exit \in {"none", "ok", "error"} /\ {disturbed, swallowed} \subseteq BOOLEAN
    /\ dir \in [Hosts -> [{"stage", "install", "data"} -> {"none", "alien", "empty", "used"}]]
    /\ toml \in SUBSET Edits /\ soft \in [Hosts -> SUBSET {"link", "env"}]
    /\ procs \in [Hosts -> SUBSET {"agent", "db"}] /\ inst.built \subseteq Edits
    /\ inst.spfile \cup inst.active \subseteq {"date", "params", "tpcc"}
    /\ inst.made \subseteq {"arch", "dest", "pdb", "policies", "jobs", "sql"}
    /\ {wrapper, up0, live0} \subseteq SUBSET Hosts /\ unit \in [Hosts -> {"none", "bashrc", "port"}]
    /\ par.vips \in Seq(0..Top) /\ {par.scan, par.public, par.inter} \subseteq 0..Top
    /\ \A h \in Hosts : names[h] \subseteq {"vip", "scan"} \X (1..Top)

(* A full run, forced or not, leaves a database that runs when it starts   *)
(* alone, on whichever host; a run that takes up a step keeps its data, if *)
(* it is not forced.                                                       *)
RunningDatabaseSurvives ==
    run > 0 =>
        /\ from = 1 => \A h \in up0 : "db" \in procs[h]
        /\ from = 1 \/ ~opt.force => \A h \in up0 : dir[h].data = "used"

(* What an earlier run left, at whichever step it ended, and what was in   *)
(* the directories before, never stops a forced full run in which nothing  *)
(* fails of itself, once the processes are stopped.                        *)
ForcedRunRecovers ==
    exit = "error" /\ opt.force /\ from = 1 /\ ~disturbed =>
        \/ live0 # {} \/ ~lay.zones
        \/ lay.yac /\ Steps[pos] \in {"check", "vip", "scanname"}
        \/ Steps[pos] = "restart" /\ ~Bootable

(* A run that ends well, also one that takes up where an earlier failed,   *)
(* has a database built and started with everything asked for, running on  *)
(* all hosts and again after a reboot, its VIPs and of scan mode local its *)
(* SCAN address in the /etc/hosts of every host; unless a failure was      *)
(* passed over, or the default port is used next to another database.  A   *)
(* run taken up after C-009 does not know the VIPs chosen by an earlier    *)
(* one: it may end well with none written, except that of access mode vip  *)
(* C-014 wants them.                                                       *)
HasEntry(h, kind) == \E e \in names[h] : e[1] = kind
KnowsVIPs == from \in 1..9 \/ lay.mode = "vip" \/ lay.vips # <<>>
SuccessIsAsked ==
    exit = "ok" /\ run > 0 /\ ~swallowed =>
        /\ inst.built = Asked
        /\ {"date"} \cup (lay.want \cap {"params", "tpcc"}) = inst.active
        /\ lay.want \cap {"pdb", "sql"} \subseteq inst.made
        /\ "audit" \in lay.want => {"policies", "jobs"} \subseteq inst.made
        /\ ArchdgWanted => {"arch", "dest"} \subseteq inst.made
        /\ \A h \in Hosts : UnitWorks(h) \/ (lay.default /\ lay.crowd)
        /\ RequiresVIP => \A h \in Hosts, i \in DOMAIN par.vips : <<"vip", par.vips[i]>> \in names[h]
        /\ RequiresVIP /\ KnowsVIPs => \A h \in Hosts : HasEntry(h, "vip")
        /\ lay.yac /\ lay.mode = "local" => \A h \in Hosts : HasEntry(h, "scan")

(* Addresses that a run picks for itself are free: nobody's, no host's, no *)
(* two the same, the SCAN address none of the VIPs the run knows; and once *)
(* C-001 is past each host is on the interconnect.                         *)
Fresh(chosen) ==
    IsInjective(chosen) /\ ToSet(chosen) \cap (ToSet(lay.addr) \cup lay.others) = {}
AddressesFree ==
    Running /\ lay.yac /\ pos > 1 =>
        /\ par.vips # lay.vips => Fresh(par.vips)
        /\ par.scan # lay.scan =>
               par.scan \notin {None} \cup ToSet(lay.addr) \cup ToSet(par.vips) \cup lay.others
        /\ par.inter # None => \A i \in DOMAIN lay.nets : On(lay.nets[i], par.inter) # {}
=============================================================================
