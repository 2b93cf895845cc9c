------------------------------ MODULE CleanDB ------------------------------
(***************************************************************************)
(* "yinstall clean --type db": the CLEAN-DB steps of internal/steps/clean, *)
(* all of them on one target before the next, over several runs that may   *)
(* fail or be interrupted.  The target cluster shares its hosts with a     *)
(* second cluster of the same user; the OM of both runs on the first host. *)
(* Only applied runs are modelled: a preview ends before every Action.     *)
(*                                                                         *)
(* External: what yasboot answers and does, and the autostart unit, whose  *)
(* script (common/os/autostart.go) restarts monit, which restarts the rest.*)
(***************************************************************************)
EXTENDS Naturals, Sequences, FiniteSets, SequencesExt, FiniteSetsExt, TLC

CONSTANTS HostList,              \* the hosts of the cluster, the OM host first
          Layouts,               \* what kind of cluster it is
          Options,               \* the command lines to check
          Runs                   \* bound on the runs of the command

Hosts == ToSet(HostList)
OM == HostList[1]

(* role: of each node; default: begin port 1688; yac: it has a ycs         *)
(* directory and shared disks, below /dev/yfs if yfs; prefix: its name is  *)
(* a prefix of the neighbour's (yashandb, yashandb_3788); stopped: hosts   *)
(* whose yasdb was stopped before; mute: the processes whose command line  *)
(* shows neither a directory nor the name of the cluster, only its port.   *)
IsLayout(l) ==
    /\ DOMAIN l = {"role", "default", "yac", "yfs", "prefix", "stopped", "mute"}
    /\ l.role \in [Hosts -> {"primary", "standby"}]
    /\ l.stopped \subseteq Hosts /\ l.mute \subseteq {"agent", "db"}
    /\ {l.default, l.yac, l.yfs, l.prefix} \subseteq BOOLEAN

(* skip: --skip-cluster-detach, force: --force-clean-primary, disks:       *)
(* --clean-yac-disks auto, om: -M, pass: --db-admin-password.  named: the  *)
(* targets are the addresses their nodes listen on; otherwise they are     *)
(* host names, or no --targets is given and the target is "localhost".     *)
IsOption(o) ==
    /\ DOMAIN o = {"targets", "named", "skip", "force", "disks", "om", "pass"}
    /\ o.targets \in Seq(Hosts) /\ o.targets # <<>> /\ IsInjective(o.targets)
    /\ {o.named, o.skip, o.force, o.disks, o.om, o.pass} \subseteq BOOLEAN

ASSUME HostsAssumption == HostList # <<>> /\ IsInjective(HostList)
ASSUME LayoutsAssumption == \A l \in Layouts : IsLayout(l)
ASSUME OptionsAssumption == \A o \in Options : IsOption(o)
ASSUME RunsAssumption == Runs \in Nat \ {0}

Processes == {"monit", "agent", "db"}    \* agent: yasagent, and yasom on OM
Dirs == {"home", "data", "log", "stage"}
Files == {"link", "env", "wrapper"}      \* ~/.yasboot/<c>_yasdb_home, <c>.env, .bashrc or .portN

VARIABLES lay,                   \* one of Layouts
          procs, neighbour,      \* running processes of both clusters, per host
          unit,                  \* hosts whose autostart unit is active
          dirs, files,           \* what is left of the cluster, per host
          members,               \* hosts that the cluster's metadata lists
          disks,                 \* the shared disks have their headers
          opt, run, at, step,    \* options, number and position of the run
          validated,             \* clean_env_validated in the host's Results
          paths,                 \* yac_disk_paths in the host's Results
          disturbed,             \* something failed for a reason of its own, or
                                 \* node remove took the target's last env file
          blind,                 \* an unanswered query was taken for absence
          exit

cluster == <<procs, neighbour, unit, dirs, files, members, disks>>
control == <<run, at, step, validated, paths, disturbed, blind, exit>>
vars == <<lay, cluster, opt, control>>

-----------------------------------------------------------------------------
(* What the steps find. *)

t == opt.targets[at]
Steps == <<"query", "detach", "stop", "dirs", "config", "disks", "final">>
Running == exit = "none" /\ run > 0
Here(s) == Running /\ Steps[step] = s

(* The bashrc that yasboot generated lies in the home behind the link.     *)
Generated(h) == "link" \in files[h] /\ "home" \in dirs[h]

(* GetPrimaryEnvFile: it, or ~/.portN; ~/.bashrc is always there.          *)
EnvFile(h) == Generated(h) \/ "wrapper" \in files[h] \/ lay.default

(* YASCS_HOME from the environment or guessed from <data>/ycs.             *)
YascsKnown(h) == lay.yac /\ ("data" \in dirs[h] \/ (Generated(h) /\ "wrapper" \in files[h]))

(* prepareCleanDBEnv: without an env file only a forced run goes on; with  *)
(* one, --clean-yac-disks wants a ycs home.  The verdict is kept.          *)
CanPrepareForced(h) ==                   \* mutant: only --force-clean-primary goes on
    IF EnvFile(h) THEN opt.disks => YascsKnown(h) ELSE opt.force
CanPrepare(h) == IF EnvFile(h) THEN opt.disks => YascsKnown(h) ELSE opt.skip \/ opt.force
Prepared == validated \/ CanPrepare(t)

(* "yasboot cluster status" on host h, if nothing gets in its way.         *)
StatusWorks(h) ==
    /\ "home" \in dirs[h] /\ (EnvFile(h) \/ "env" \in files[h])
    /\ "agent" \in procs[OM] /\ "home" \in dirs[OM]

(* resolveOmHostForClean: -M, or om_addr in any .env file of the user, the *)
(* neighbour's included.                                                   *)
OMKnown(h) == opt.om \/ "env" \in files[h] \/ neighbour[h] # {}

(* ResolveClusterIdentity: by the listen address of a running node, or, if *)
(* the agents were listed, by the host; a stopped node has no role.  The   *)
(* comparison is literal: "localhost" is listed nowhere.                   *)
RoleSeen(h, agents) ==
    CASE ~opt.named -> "absent"
      [] opt.named /\ h \in members /\ "db" \in procs[h] -> lay.role[h]
      [] opt.named /\ h \in members /\ "db" \notin procs[h] /\ agents -> "blank"
      [] OTHER -> "absent"
-----------------------------------------------------------------------------
Init ==
    /\ lay \in Layouts
    /\ procs = [h \in Hosts |-> IF h \in lay.stopped THEN {"agent"} ELSE Processes]
    /\ neighbour = [h \in Hosts |-> Processes]
    /\ unit = Hosts \ lay.stopped
    /\ dirs = [h \in Hosts |-> Dirs] /\ files = [h \in Hosts |-> Files]
    /\ members = Hosts /\ disks = lay.yac
    /\ opt \in Options
    /\ run = 0 /\ at = 1 /\ step = 1
    /\ validated = FALSE /\ paths = FALSE /\ disturbed = FALSE /\ blind = FALSE
    /\ exit = "ok"

Start ==
    /\ ~Running /\ run < Runs
    /\ run' = run + 1 /\ opt' \in Options /\ at' = 1 /\ step' = 1
    /\ validated' = FALSE /\ paths' = FALSE /\ disturbed' = FALSE /\ blind' = FALSE
    /\ exit' = "none"
    /\ UNCHANGED <<lay, cluster>>

(* RunPerHostStepsEx: every step on a host, with Results of its own, then  *)
(* the next host.                                                          *)
Advance ==
    IF step < Len(Steps)
    THEN step' = step + 1 /\ UNCHANGED <<at, exit>>
    ELSE IF at < Len(opt.targets)
         THEN at' = at + 1 /\ step' = 1 /\ UNCHANGED exit
         ELSE exit' = "ok" /\ UNCHANGED <<at, step>>
LastStep == step = Len(Steps)
Pass(v, p) ==
    /\ Advance
    /\ validated' = (v /\ ~LastStep) /\ paths' = (p /\ ~LastStep)
    /\ UNCHANGED <<run, opt, lay, disturbed, blind>>
Fail ==
    /\ exit' = "error"
    /\ UNCHANGED <<lay, opt, run, at, step, validated, paths, disturbed, blind>>

(* Optional steps are skipped when their PreCheck fails. *)
Skip == Pass(validated, paths) /\ UNCHANGED cluster

(* CLEAN-DB-001: the disks from ycsctl, or all aliases below /dev/yfs.     *)
QuerySkipped == Here("query") /\ (~opt.disks \/ ~Prepared) /\ Skip
QueryDisks ==
    /\ Here("query") /\ opt.disks /\ Prepared
    /\ IF ("home" \in dirs[t] /\ "db" \in procs[t]) \/ lay.yfs
       THEN Pass(TRUE, TRUE) ELSE Fail
    /\ UNCHANGED cluster
-----------------------------------------------------------------------------
(* CLEAN-DB-002: a standby is removed from the cluster before anything of  *)
(* it is deleted; a primary is not deleted at all, unless told.            *)

DetachSkipped == Here("detach") /\ opt.skip /\ Skip

(* The status is asked for on the target, or, where that fails, on OM.     *)
StatusFrom == {h \in {t} \cup (IF OMKnown(t) THEN {OM} ELSE {}) : StatusWorks(h)}
Detaching == Here("detach") /\ ~opt.skip

(* No answer anywhere: only --force-clean-primary goes on, and only when   *)
(* there is no OM or no env file to ask with, or no way to reach the OM.   *)
NobodyToAsk == ~OMKnown(t) \/ (~EnvFile(OM) /\ "env" \notin files[OM])
DetachUnanswered ==
    /\ Detaching /\ StatusFrom = {} /\ UNCHANGED cluster
    /\ IF opt.force /\ NobodyToAsk THEN Pass(validated, paths) ELSE Fail
OMUnreachable ==
    /\ Detaching /\ StatusFrom = {} /\ OMKnown(t) /\ UNCHANGED cluster
    /\ opt.force /\ Advance /\ disturbed' = TRUE
    /\ UNCHANGED <<lay, run, opt, validated, paths, blind>>

DetachDecidedLoosely(role) ==            \* mutant: a node without a role is let through
    CASE role = "absent" -> "wipe"
      [] role = "primary" -> IF opt.force THEN "wipe" ELSE "refuse"
      [] role = "blank" -> "wipe"
      [] role = "standby" -> IF opt.pass THEN "remove" ELSE "refuse"
DetachDecided(role) ==
    CASE role = "absent" -> "wipe"
      [] role \in {"primary", "blank"} -> IF opt.force THEN "wipe" ELSE "refuse"
      [] role = "standby" -> IF opt.pass THEN "remove" ELSE "refuse"

DetachDecides ==
    /\ Detaching /\ StatusFrom # {} /\ UNCHANGED cluster
    /\ LET d == DetachDecided(RoleSeen(t, TRUE))
       IN  \/ d = "wipe" /\ Pass(validated, paths)
           \/ d = "refuse" /\ Fail

(* The status of the agents goes unanswered: a stopped node is not found.  *)
DetachBlind ==
    /\ Detaching /\ StatusFrom # {} /\ UNCHANGED cluster
    /\ RoleSeen(t, FALSE) = "absent" /\ opt.named /\ t \in members
    /\ Advance /\ blind' = TRUE /\ disturbed' = TRUE
    /\ UNCHANGED <<lay, run, opt, validated, paths>>

(* yasboot node remove --purge: stops the node and deletes its data and    *)
(* perhaps the link; it needs the agent of the target.                     *)
Removed(h) ==
    /\ members' = members \ {h}
    /\ procs' = [procs EXCEPT ![h] = @ \ {"db"}] /\ dirs' = [dirs EXCEPT ![h] = @ \ {"data"}]
    /\ \E gone \in SUBSET {"link"} : files' = [files EXCEPT ![h] = @ \ gone]
    /\ UNCHANGED <<neighbour, unit, disks>>
Removing == Detaching /\ StatusFrom # {} /\ DetachDecided(RoleSeen(t, TRUE)) = "remove"

NodeRemove ==
    /\ Removing /\ "agent" \in procs[t] /\ Removed(t) /\ Advance
    /\ disturbed' = (disturbed \/ (files' # files /\ "wrapper" \notin files[t] /\ ~lay.default))
    /\ UNCHANGED <<lay, run, opt, validated, paths, blind>>

NodeRemoveFails ==
    /\ Removing
    /\ \/ UNCHANGED cluster
       \/ "agent" \in procs[t] /\ Removed(t)
    /\ exit' = "error" /\ disturbed' = (disturbed \/ "agent" \in procs[t])
    /\ UNCHANGED <<lay, opt, run, at, step, validated, paths, blind>>

(* It reports success, and the node is still listed, which the status that *)
(* follows shows, unless it goes unanswered.                               *)
StillListed == Removing /\ UNCHANGED cluster /\ Fail
StillListedUnseen ==
    /\ Removing /\ UNCHANGED cluster
    /\ Advance /\ blind' = TRUE /\ disturbed' = TRUE
    /\ UNCHANGED <<lay, run, opt, validated, paths>>
-----------------------------------------------------------------------------
(* The local clean-up. *)

(* stopCleanDBSystemdUnit leaves the unit of the default port alone.       *)
UnitsAfterStop == IF lay.default THEN unit ELSE unit \ {t}

(* The patterns for ps: directories, which belong to one cluster,          *)
(* " -c <name>", also without a space behind it, and the ports, but not    *)
(* the default ones.                                                       *)
MatchedWithoutPorts(c) ==                \* mutant: no port is looked for
    CASE c = "own" -> Processes \ lay.mute
      [] c = "neighbour" -> IF lay.prefix THEN {"agent"} ELSE {}
Matched(c) ==
    CASE c = "own" -> IF lay.default THEN Processes \ lay.mute ELSE Processes
      [] c = "neighbour" -> IF lay.prefix THEN {"agent"} ELSE {}
Kill ==
    /\ unit' = UnitsAfterStop
    /\ procs' = [procs EXCEPT ![t] = @ \ Matched("own")]
    /\ neighbour' = [neighbour EXCEPT ![t] = @ \ Matched("neighbour")]

(* CLEAN-DB-003; processes that survive are only warned about.             *)
StopProcesses ==
    /\ Here("stop") /\ Prepared /\ Pass(TRUE, paths)
    /\ Kill /\ UNCHANGED <<dirs, files, members, disks>>

(* CLEAN-DB-004: home, data, log and stage one after the other; what       *)
(* cannot be deleted is only warned about.                                 *)
RemoveDirectories ==
    /\ Here("dirs") /\ Prepared /\ Pass(TRUE, paths)
    /\ dirs' = [dirs EXCEPT ![t] = {}]
    /\ UNCHANGED <<procs, neighbour, unit, files, members, disks>>
RemoveOneFails ==
    /\ Here("dirs") /\ Prepared
    /\ \E d \in dirs[t] : dirs' = [dirs EXCEPT ![t] = {d}]
    /\ Advance /\ validated' = TRUE /\ disturbed' = TRUE
    /\ UNCHANGED <<lay, run, opt, paths, blind, procs, neighbour, unit, files, members, disks>>

(* CLEAN-DB-005: each of the three removals may fail with a warning. *)
RemoveConfig ==
    /\ Here("config") /\ Prepared /\ Pass(TRUE, paths)
    /\ files' = [files EXCEPT ![t] = {}]
    /\ UNCHANGED <<procs, neighbour, unit, dirs, members, disks>>

RemoveConfigFails ==
    /\ Here("config") /\ Prepared
    /\ \E kept \in SUBSET files[t] : kept # {} /\ files' = [files EXCEPT ![t] = kept]
    /\ Advance /\ validated' = TRUE /\ disturbed' = TRUE
    /\ UNCHANGED <<lay, run, opt, paths, blind, procs, neighbour, unit, dirs, members, disks>>

(* CLEAN-DB-006: without paths there is nothing to do. *)
CleanDisks ==
    /\ Here("disks") /\ Pass(validated, paths)
    /\ disks' = (disks /\ ~(opt.disks /\ paths))
    /\ UNCHANGED <<procs, neighbour, unit, dirs, files, members>>

(* CLEAN-DB-007: kills what came back. *)
FinalCheck ==
    /\ Here("final") /\ Prepared /\ Pass(TRUE, paths)
    /\ Kill /\ UNCHANGED <<dirs, files, members, disks>>

(* effectiveCleanDBPaths refuses in the Action of each of these steps.     *)
Unprepared ==
    /\ Running /\ Steps[step] \in {"stop", "dirs", "config", "final"}
    /\ ~Prepared /\ Fail /\ UNCHANGED cluster
-----------------------------------------------------------------------------
(* Around the run. *)

(* A command fails, or the control machine goes away, perhaps in the       *)
(* middle of the directories.                                              *)
StepFails ==
    /\ Running
    /\ exit' = "error" /\ disturbed' = TRUE
    /\ \/ UNCHANGED dirs
       \/ /\ Here("dirs") /\ Prepared
          /\ \E kept \in {{"stage"}, {"log", "stage"}, {"data", "log", "stage"}} :
                dirs' = [dirs EXCEPT ![t] = @ \cap kept]
    /\ UNCHANGED <<lay, procs, neighbour, unit, files, members, disks,
                   opt, run, at, step, validated, paths, blind>>

(* yashan_monit.sh starts monit again when its home and its env file are   *)
(* there, and monit the other processes.                                   *)
ComesBack ==
    \E h \in unit :
        /\ "home" \in dirs[h] /\ "wrapper" \in files[h] /\ "link" \in files[h]
        /\ procs[h] # Processes
        /\ procs' = [procs EXCEPT ![h] = IF "data" \in dirs[h] THEN Processes
                                                               ELSE {"monit", "agent"}]
        /\ procs' # procs
        /\ UNCHANGED <<lay, neighbour, unit, dirs, files, members, disks, opt, control>>

Done == ~Running /\ run = Runs /\ UNCHANGED vars

Next ==
    \/ Start \/ QuerySkipped \/ QueryDisks
    \/ DetachSkipped \/ DetachUnanswered \/ OMUnreachable \/ DetachDecides \/ DetachBlind
    \/ NodeRemove \/ NodeRemoveFails \/ StillListed \/ StillListedUnseen
    \/ StopProcesses \/ RemoveDirectories \/ RemoveOneFails \/ RemoveConfig \/ RemoveConfigFails
    \/ CleanDisks \/ FinalCheck \/ Unprepared \/ StepFails \/ ComesBack \/ Done

Spec == Init /\ [][Next]_vars

-----------------------------------------------------------------------------
TypeOK ==
    /\ lay \in Layouts /\ opt \in Options
    /\ procs \in [Hosts -> SUBSET Processes] /\ neighbour \in [Hosts -> SUBSET Processes]
    /\ unit \subseteq Hosts /\ members \subseteq Hosts
    /\ dirs \in [Hosts -> SUBSET Dirs] /\ files \in [Hosts -> SUBSET Files]
    /\ run \in 0..Runs /\ at \in DOMAIN opt.targets /\ step \in DOMAIN Steps
    /\ {disks, validated, paths, disturbed, blind} \subseteq BOOLEAN
    /\ exit \in {"none", "ok", "error"}

(* Who is deleted has left the cluster, or the operator said so: nothing   *)
(* of a node that the cluster lists is stopped or deleted by a clean       *)
(* without --skip-cluster-detach and --force-clean-primary.  cli/clean.go: *)
(* "If detach cannot run, the step fails (avoids ghost hosts)".  There are *)
(* two exceptions: a query that goes unanswered and is taken for absence,  *)
(* and a target that is not given by the address its node listens on, as   *)
(* "localhost", the target of a clean without --targets.                   *)
Local == {"stop", "dirs", "config", "disks", "final"}
WipeNeedsConsent ==
    Running /\ Steps[step] \in Local /\ ~opt.skip /\ ~opt.force /\ ~blind
        => t \notin members \/ ~opt.named

(* A run that ends well and in which nothing was lost leaves no process,   *)
(* directory or setting of the cluster on its targets, although the unit   *)
(* of the default port goes on restarting monit during the clean-up.  The  *)
(* exception is, on the default port, a process whose command line shows   *)
(* neither a directory nor the name of the cluster: no pattern finds it.   *)
SuccessIsClean ==
    exit = "ok" /\ run > 0 /\ ~disturbed =>
        /\ \A h \in ToSet(opt.targets) :
              /\ dirs[h] = {} /\ files[h] = {}
              /\ procs[h] \subseteq IF lay.default THEN lay.mute ELSE {}
        /\ opt.disks => ~disks

(* What an interrupted run leaves can be cleaned: a run with               *)
(* --skip-cluster-detach and without --clean-yac-disks finds its way from  *)
(* every state and is refused by none of the steps.                        *)
RetryCompletes ==
    exit = "error" /\ ~disturbed => ~opt.skip \/ opt.disks
=============================================================================
