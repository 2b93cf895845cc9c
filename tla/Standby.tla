------------------------------- MODULE Standby -------------------------------
(***************************************************************************)
(* yinstall standby: runStandby of internal/cli/standby.go and the steps   *)
(* E-001..E-019 of internal/steps/standby, over several runs that may fail *)
(* or be interrupted anywhere and are then repeated with any options.      *)
(*                                                                         *)
(* A cluster is either SE (instances are added one by one, yasboot node    *)
(* add) or CE (as a group, yasboot group add).  Every run expands at the   *)
(* same port, "begin"; the primary and older standbys listen on "old".     *)
(* What yasboot does is not in the repository: its commands are modelled   *)
(* as the code expects them to behave, and any of them may fail, some with *)
(* part of their effect.  Phase 1.5 is OMMigrate, Phase 4.5 is in          *)
(* DBInstall, and the B-* steps of Phase 2 in HostPhases.                  *)
(***************************************************************************)
EXTENDS Naturals, Sequences, FiniteSets, SequencesExt, FiniteSetsExt

CONSTANTS Primary, Others,       \* the primary's host, and the other hosts
          Options,               \* the command lines to check
          Runs                   \* bound on the runs of the command

None == "none"
Hosts == {Primary} \cup Others
Ports == {"old", "begin", "next"}
Roles == {"primary", "standby", "joining", "failed"}
GroupIds == 0..(Runs + 3)        \* 0 in an SE cluster, 1 the primary's group

(* The steps by phase.  "connect", "reach" (E-005) .. "path" are Phase 2,  *)
(* "gen" .. "sync" Phase 4, "env" .. "verify" Phase 5; "connect" and       *)
(* "path" are no steps of the list: runStandby does them in every run.     *)
PrimarySteps == <<"primary", "status", "archiveMode", "replication">>
PrepSteps    == <<"reach", "port", "paths">>
MiddleSteps  == <<"path", "archiveDest", "network", "cleanup",
                  "gen", "software", "add", "sync">>
PostSteps    == <<"env", "autostart", "verify">>
LastSteps    == <<"show", "failed">>

Always == {"connect", "path"}
Steps == (UNION {ToSet(s) : s \in {PrimarySteps, PrepSteps, MiddleSteps, PostSteps, LastSteps}})
            \ Always
Expansion == {"gen", "software", "add", "sync"}
Modes == {"apply", "precheck", "dryRun"}

Nodes == [host : Hosts, port : Ports, role : Roles, grp : GroupIds]

(* force is -F, auto --standby-cleanup-on-failure, restart                 *)
(* --standby-restart-primary, soft --standby-sync-timeout 0.               *)
IsOption(o) ==
    /\ DOMAIN o = {"targets", "plan", "mode", "force", "auto", "restart", "soft"}
    /\ o.targets \in Seq(Hosts) /\ Len(o.targets) \in 1..2 /\ IsInjective(o.targets)
    /\ o.plan \subseteq Steps /\ o.mode \in Modes
    /\ {o.force, o.auto, o.restart, o.soft} \subseteq BOOLEAN

ASSUME HostsAssumption == Primary \notin Others /\ IsFiniteSet(Others) /\ None \notin Hosts
ASSUME OptionsAssumption == \A o \in Options : IsOption(o)
ASSUME RunsAssumption == Runs \in Nat \ {0}

VARIABLES ce,                    \* the primary is a CE cluster
          nodes,                 \* the instances of the cluster
          hosts,                 \* the hosts known to it (yasagent)
          repl,                  \* REPLICATION_ADDR: none, spfile, set
          up,                    \* the primary runs
          used,                  \* hosts with files under the begin-port paths
          stage,                 \* hosts_add.toml and <cluster>_add.toml on the OM host
          opt,                   \* the options of this run
          run,                   \* number of the current run
          at, part,              \* the call that is next or under way, and where in it
          todo,                  \* hosts that E-010 has still to remove
          par,                   \* what the steps leave in the shared params
          asked,                 \* groups the last clean-up named
          disturbed,             \* a command failed, or a wait was cut short
          start,                 \* cluster and hosts when the run started
          exit                   \* what runStandby returns

cluster == <<nodes, hosts, repl, up, used, stage>>
vars == <<ce, cluster, opt, run, at, part, todo, par, asked, disturbed, start, exit>>

-----------------------------------------------------------------------------
(* The cluster. *)

PrimaryNode == [host |-> Primary, port |-> "old", role |-> "primary", grp |-> 1]
At(h, p) == {n \in nodes : n.host = h /\ n.port = p}
Occupied(h) == At(h, "begin") # {}
Listening(h) == \E n \in At(h, "begin") : n.role # "failed"
Members == {n.host : n \in nodes}
OnHosts(ns) == {n.host : n \in ns}

Groups == {n.grp : n \in nodes}
InGroup(g) == {n \in nodes : n.grp = g}

(* ParseCEGroupNamesByRole: a group with a standby row and no primary row. *)
StandbyGroups ==
    {g \in Groups : /\ \E n \in InGroup(g) : n.role = "standby"
                    /\ \A n \in InGroup(g) : n.role # "primary"}

(* PredictNextCEGroupName, and the number that yasboot gives a new group.  *)
NextGroup == Max(Groups) + 1

FailedNodes == {n \in nodes : n.role = "failed"}

NoParams == [resolved |-> FALSE, bad |-> FALSE, hostId |-> None,
             base |-> {}, expected |-> 0, new |-> 0]

-----------------------------------------------------------------------------
(* The run. *)

Targets == ToSet(opt.targets)
Previewing == opt.mode # "apply"
CleansUp == opt.auto \/ opt.force

(* The calls of a run: a step of the list, identified by its phase and its *)
(* place there; in the phases that run per host it is called for each of   *)
(* the targets, one target after the other.                                *)
Phases == <<PrimarySteps, <<"connect">>, PrepSteps, MiddleSteps, PostSteps, LastSteps>>
PerHost == {3, 5}
StepOf(c) == Phases[c[1]][c[3]]
HostOf(c) == opt.targets[c[2]]

Calls == {c \in (1..6) \X (DOMAIN opt.targets) \X (1..8) :
             /\ c[3] \in DOMAIN Phases[c[1]]
             /\ StepOf(c) \in opt.plan \cup Always
             /\ c[1] \in PerHost \/ c[2] = 1}

Before(c, d) == \/ c[1] < d[1]
                \/ c[1] = d[1] /\ c[2] < d[2]
                \/ c[1] = d[1] /\ c[2] = d[2] /\ c[3] < d[3]

(* The call after c, if there is one. *)
Following(c) == {d \in Calls : Before(c, d) /\ \A e \in Calls : Before(c, e) => ~Before(e, d)}
Outset == <<0, 1, 1>>

Here(s) == part = "call" /\ StepOf(at) = s

Init ==
    /\ ce \in BOOLEAN
    /\ \E old \in SUBSET Others :
          /\ Cardinality(old) <= 1
          /\ nodes = {PrimaryNode} \cup
                     {[host |-> h, port |-> "old", role |-> "standby",
                       grp |-> IF ce THEN 2 ELSE 0] : h \in old}
          /\ hosts = {Primary} \cup old
    /\ repl \in {"none", "set"} /\ up = TRUE
    /\ Cardinality(nodes) > 1 => repl = "set"
    /\ used = {} /\ stage = [hosts |-> {}, nodes |-> {}]
    /\ opt \in Options
    /\ run = 0 /\ at = Outset /\ part = "idle" /\ todo = {}
    /\ par = NoParams
    /\ asked = {} /\ disturbed = FALSE
    /\ start = [nodes |-> nodes, repl |-> repl, up |-> up]
    /\ exit = "none"

(* Options are read, executors opened and the port filled in; params are   *)
(* new for every run.                                                      *)
Start ==
    /\ part = "idle" /\ run < Runs
    /\ run' = run + 1
    /\ opt' \in Options
    /\ at' \in Following(Outset)' /\ part' = "call" /\ todo' = {}
    /\ par' = NoParams
    /\ asked' = {} /\ disturbed' = FALSE
    /\ start' = [nodes |-> nodes, repl |-> repl, up |-> up]
    /\ exit' = "none"
    /\ UNCHANGED <<ce, cluster>>

Return(status) == part' = "idle" /\ exit' = status /\ UNCHANGED at

Advance ==
    /\ todo' = {}
    /\ IF \E c \in Calls : Before(at, c)
       THEN at' \in Following(at) /\ part' = "call" /\ UNCHANGED exit
       ELSE Return("ok")

Within(where) == part' = where /\ UNCHANGED <<at, todo, exit>>

(* A failed step ends the run, after the handling of a failed expansion if *)
(* it is one of Phase 4; but in a precheck Phase 1 passes over it and      *)
(* Phase 2 remembers it.                                                   *)
Refuse(p) ==
    IF opt.mode = "precheck" /\ StepOf(at) \in ToSet(PrimarySteps)
    THEN Advance /\ par' = p
    ELSE IF opt.mode = "precheck" /\ StepOf(at) \in ToSet(PrepSteps)
    THEN Advance /\ par' = [p EXCEPT !.bad = TRUE]
    ELSE /\ par' = p /\ todo' = {}
         /\ IF StepOf(at) \in Expansion /\ ~Previewing
            THEN part' = "handle" /\ UNCHANGED <<at, exit>>
            ELSE Return("error")

Frame == <<ce, opt, run, start>>
-----------------------------------------------------------------------------
(* Steps that only look, or that write what the model leaves out: ping and *)
(* ssh (E-001, E-005, E-009), the connections of Phase 2, the environment  *)
(* and service of the new instance (E-015, E-016, both Optional), the      *)
(* status shown at the end (E-019).  When they fail it is as StepFails.    *)
Looks == {"primary", "connect", "reach", "network", "env", "autostart", "show"}

Look ==
    /\ part = "call" /\ StepOf(at) \in Looks
    /\ Advance
    /\ UNCHANGED <<Frame, cluster, par, asked, disturbed>>

(* E-003 asks the primary for log_mode. *)
CheckArchiveMode ==
    /\ Here("archiveMode")
    /\ IF up THEN Advance /\ UNCHANGED par ELSE Refuse(par)
    /\ UNCHANGED <<Frame, cluster, asked, disturbed>>

(* E-008 refuses a target that is an open standby at the begin-port; when  *)
(* its SQL fails it goes on, so that it may let anything pass.             *)
Configured(h) == \E n \in At(h, "begin") : n.role = "standby"

CheckArchiveDest ==
    /\ Here("archiveDest")
    /\ \/ Advance /\ UNCHANGED par
       \/ (\E h \in Targets : Configured(h)) /\ Refuse(par)
    /\ UNCHANGED <<Frame, cluster, asked, disturbed>>

(* Any step may find a host or a command failing, before any effect.       *)
StepFails ==
    /\ part \in {"call", "stop", "start", "remove"}
    /\ disturbed' = TRUE
    /\ Refuse(par)
    /\ UNCHANGED <<Frame, cluster, asked>>

(* RecordCEGroupBaseline: the standby groups that are to be protected, and *)
(* the name the next group will have.                                      *)
Recorded(p) == [p EXCEPT !.base = StandbyGroups, !.expected = NextGroup]

(* EnsureStandbyCEPath: once per run; the group status may not answer.     *)
Resolve(p) ==
    IF p.resolved THEN {p}
    ELSE LET q == [p EXCEPT !.resolved = TRUE]
         IN  IF ce THEN {q, Recorded(q)} ELSE {q}

(* E-002: the status must show a primary. *)
CheckStatus ==
    /\ Here("status")
    /\ \/ up /\ Advance /\ par' \in Resolve(par)
       \/ ~up /\ Refuse(par)
    /\ UNCHANGED <<Frame, cluster, asked, disturbed>>

(* E-004 on SE: REPLICATION_ADDR must be set. *)
CheckReplicationSE ==
    /\ Here("replication") /\ ~ce
    /\ \E p \in Resolve(par) :
          IF up /\ repl = "set" THEN Advance /\ par' = p ELSE Refuse(p)
    /\ UNCHANGED <<Frame, cluster, asked, disturbed>>

(* E-004 on CE: what is not in effect is written to the SPFILE, and the    *)
(* primary restarted if the operator asked for it; otherwise the run stops.*)
(* A value that cannot be read counts as not set.                          *)
EnsureReplicationCE ==
    /\ Here("replication") /\ ce
    /\ \E p \in Resolve(par), read \in BOOLEAN :
          /\ read => up
          /\ disturbed' = (disturbed \/ ~read)
          /\ IF read /\ repl = "set"
             THEN Advance /\ par' = p /\ UNCHANGED repl
             ELSE IF Previewing
             THEN /\ UNCHANGED repl
                  /\ IF up /\ opt.restart THEN Advance /\ par' = p ELSE Refuse(p)
             ELSE IF ~up
             THEN Refuse(p) /\ UNCHANGED repl
             ELSE /\ repl' = IF repl = "set" THEN "set" ELSE "spfile"
                  /\ IF opt.restart THEN Within("stop") /\ par' = p ELSE Refuse(p)
    /\ UNCHANGED <<Frame, nodes, hosts, up, used, stage, asked>>

(* yasboot cluster stop, and start; if start fails the primary is down.    *)
StopCluster ==
    /\ part = "stop"
    /\ up' = FALSE
    /\ Within("start")
    /\ UNCHANGED <<Frame, nodes, hosts, repl, used, stage, par, asked, disturbed>>

StartCluster ==
    /\ part = "start"
    /\ up' = TRUE /\ repl' = "set"
    /\ Advance
    /\ UNCHANGED <<Frame, nodes, hosts, used, stage, par, asked, disturbed>>

-----------------------------------------------------------------------------
(* Phase 2, per target, and what follows it. *)

(* E-006: nothing may listen on the begin-port. *)
CheckPortLoosely ==                      \* mutant: -F passes over a port in use
    /\ Here("port")
    /\ IF Listening(HostOf(at)) /\ ~opt.force THEN Refuse(par) ELSE Advance /\ UNCHANGED par
    /\ UNCHANGED <<Frame, cluster, asked, disturbed>>

CheckPort ==
    /\ Here("port")
    /\ IF Listening(HostOf(at)) THEN Refuse(par) ELSE Advance /\ UNCHANGED par
    /\ UNCHANGED <<Frame, cluster, asked, disturbed>>

(* E-007: the directories must be empty; with -F they are deleted and made *)
(* again, and making them may fail.                                        *)
MakePaths ==
    /\ Here("paths")
    /\ IF HostOf(at) \in used /\ ~opt.force
       THEN Refuse(par) /\ UNCHANGED <<used, disturbed>>
       ELSE IF Previewing
       THEN Advance /\ UNCHANGED <<par, used, disturbed>>
       ELSE /\ used' = used \ {HostOf(at)}
            /\ \/ Advance /\ UNCHANGED <<par, disturbed>>
               \/ Refuse(par) /\ disturbed' = TRUE
    /\ UNCHANGED <<Frame, nodes, hosts, repl, up, stage, asked>>

(* The end of Phase 2: a precheck that found a target unfit ends here; if  *)
(* E-002 and E-004 were left out, the path is resolved now.                *)
ResolvePath ==
    /\ Here("path")
    /\ IF par.bad THEN Refuse(par) ELSE Advance /\ par' \in Resolve(par)
    /\ UNCHANGED <<Frame, cluster, asked, disturbed>>

-----------------------------------------------------------------------------
(* E-010: targets already in the cluster are reused or removed. *)

(* primaryClusterIPToHostID: from the agent status and the cluster status, *)
(* as far as they answer.                                                  *)
KnownHosts(agents, status) ==
    (IF agents THEN hosts ELSE {}) \cup (IF status THEN Members ELSE {})

(* shouldReuseExistingHostForExpansion, with a status read once more.      *)
ReuseUnguarded(h, answers) ==            \* mutant: the primary's host is not special
    answers /\ h \in Members /\ ~Occupied(h)

ReuseAlways(h, answers) ==               \* mutant: also when the begin-port is taken
    h = Primary \/ (answers /\ h \in Members)

Reuse(h, answers) ==
    \/ h = Primary
    \/ answers /\ h \in Members /\ ~Occupied(h)

FirstOf(hs) == IF hs = {} THEN None
               ELSE opt.targets[Min({i \in DOMAIN opt.targets : opt.targets[i] \in hs})]

FindExisting ==
    /\ Here("cleanup")
    /\ \E agents, status, again \in BOOLEAN :
          LET found == Targets \cap KnownHosts(agents, status)
              kept  == {h \in found : Reuse(h, again)}
              gone  == found \ kept
          IN  /\ disturbed' = (disturbed \/ ~(agents /\ status /\ again))
              /\ IF Previewing
                 THEN Advance /\ UNCHANGED par
                 ELSE /\ par' = [par EXCEPT !.hostId =
                                    IF @ = None THEN FirstOf(kept) ELSE @]
                      /\ IF gone = {} THEN Advance
                         ELSE part' = "remove" /\ todo' = gone /\ UNCHANGED <<at, exit>>
    /\ UNCHANGED <<Frame, cluster, asked>>

Removed(h) ==
    IF todo = {h} THEN Advance
    ELSE todo' = todo \ {h} /\ UNCHANGED <<at, part, exit>>

(* yasboot host remove -f takes every instance of the host.  The hosts are *)
(* in a map: their order is any.                                           *)
RemoveHost ==
    /\ part = "remove"
    /\ \E h \in todo :
          /\ nodes' = {n \in nodes : n.host # h}
          /\ hosts' = hosts \ {h}
          /\ Removed(h)
    /\ UNCHANGED <<Frame, repl, up, used, stage, par, asked, disturbed>>

(* The command says "removing" and fails; the host counts as removed when  *)
(* the queries that follow do not list it, as when they do not answer.     *)
RemovalUnseen ==
    /\ part = "remove"
    /\ \E h \in todo : Removed(h)
    /\ disturbed' = TRUE
    /\ UNCHANGED <<Frame, cluster, par, asked>>

(* The command fails, before or after its effect. *)
RemoveFails ==
    /\ part = "remove"
    /\ \E h \in todo :
          /\ nodes' = {n \in nodes : n.host # h}
          /\ hosts' = hosts \ {h}
    /\ disturbed' = TRUE
    /\ Refuse(par)
    /\ UNCHANGED <<Frame, repl, up, used, stage, asked>>

-----------------------------------------------------------------------------
(* E-011: the files for the expansion. *)

NewNode(h, p, g) == [host |-> h, port |-> p, role |-> "joining", grp |-> g]

(* --host-ids h --node n: all the new instances on that one host.          *)
OnOneHost(h) == {NewNode(h, <<"begin", "next">>[i], 0) : i \in DOMAIN opt.targets}
OnEachTarget(g) == {NewNode(h, "begin", g) : h \in Targets}

(* PostCheck: hosts_add.toml may only be missing when E-010 found a host-id*)
(* to reuse; a file left by an earlier run will do.                        *)
Generated(hs, ns, p) ==
    /\ stage' = [hosts |-> hs, nodes |-> ns]
    /\ IF hs # {} \/ p.hostId # None THEN Advance /\ par' = p ELSE Refuse(p)

Preview(s) ==
    /\ Here(s) /\ Previewing
    /\ Advance
    /\ UNCHANGED <<Frame, cluster, par, asked, disturbed>>

(* yasboot config node gen.  It is refused when a target is registered, and*)
(* then repeated with that target's host-id.                               *)
GenNodes ==
    /\ Here("gen") /\ ~Previewing /\ ~ce
    /\ \/ par.hostId # None /\ Generated(stage.hosts, OnOneHost(par.hostId), par)
       \/ /\ par.hostId = None /\ Targets \cap hosts = {}
          /\ Generated(Targets, OnEachTarget(0), par)
       \/ /\ par.hostId = None
          /\ \E h \in Targets \cap hosts : Generated(stage.hosts, OnOneHost(h), par)
    /\ UNCHANGED <<Frame, nodes, hosts, repl, up, used, asked, disturbed>>

(* yasboot config group gen, after one more look at the groups; what       *)
(* follows the command, up to the new group's name, may fail.              *)
GenGroup ==
    /\ Here("gen") /\ ~Previewing /\ ce
    /\ \E read, patched \in BOOLEAN :
          LET p  == IF read THEN Recorded(par) ELSE par
              hs == IF Targets \subseteq hosts THEN stage.hosts ELSE Targets \ hosts
              ns == OnEachTarget(NextGroup)
          IN  /\ disturbed' = (disturbed \/ ~read \/ ~patched)
              /\ IF patched
                 THEN Generated(hs, ns, [p EXCEPT !.new = NextGroup])
                 ELSE stage' = [hosts |-> hs, nodes |-> ns] /\ Refuse(p)
    /\ UNCHANGED <<Frame, nodes, hosts, repl, up, used, asked>>

-----------------------------------------------------------------------------
(* E-012: yasboot host add, which may fail after some of the hosts. *)
AddHosts ==
    /\ Here("software") /\ ~Previewing
    /\ IF par.hostId # None
       THEN Advance /\ UNCHANGED <<hosts, used, par, disturbed>>
       ELSE IF stage.hosts = {}
       THEN Refuse(par) /\ UNCHANGED <<hosts, used, disturbed>>
       ELSE \E done \in SUBSET stage.hosts :
               /\ hosts' = hosts \cup done /\ used' = used \cup done
               /\ IF done = stage.hosts
                  THEN Advance /\ UNCHANGED <<par, disturbed>>
                  ELSE Refuse(par) /\ disturbed' = TRUE
    /\ UNCHANGED <<Frame, nodes, repl, up, stage, asked>>

(* E-013: yasboot node add or group add takes what fits the cluster.       *)
Fits(ns) ==
    /\ up
    /\ \A s \in stage.nodes :
          /\ s.host \in hosts
          /\ \A n \in ns : <<n.host, n.port>> # <<s.host, s.port>> /\ (ce => n.grp # s.grp)

(* SE only: failed instances in the way are removed, and the command run   *)
(* once more.                                                              *)
Cleared == IF ce \/ Fits(nodes) THEN nodes ELSE nodes \ FailedNodes

AlreadyAdded == ~opt.force /\ \A h \in Targets : Occupied(h)

(* Only the absence of the other file is passed over in a preview; this    *)
(* one's message is not among those it recognises.                         *)
NothingToAdd ==
    /\ Here("add") /\ stage.nodes = {}
    /\ Refuse(par)
    /\ UNCHANGED <<Frame, cluster, asked, disturbed>>

(* Skipped if the status can be read and every target is there.            *)
SkipAdd ==
    /\ Here("add") /\ stage.nodes # {}
    /\ Previewing \/ AlreadyAdded
    /\ Advance
    /\ UNCHANGED <<Frame, cluster, par, asked, disturbed>>

AddInstances ==
    /\ Here("add") /\ stage.nodes # {} /\ ~Previewing
    /\ disturbed' = (disturbed \/ AlreadyAdded)
    /\ IF Fits(Cleared)
       THEN /\ nodes' = Cleared \cup stage.nodes
            /\ used' = used \cup OnHosts(stage.nodes)
            /\ Advance /\ UNCHANGED par
       ELSE nodes' = Cleared /\ Refuse(par) /\ UNCHANGED used
    /\ UNCHANGED <<Frame, hosts, repl, up, stage, asked>>

(* The command fails, and leaves some instances behind that do not run.    *)
AddFails ==
    /\ Here("add") /\ stage.nodes # {} /\ ~Previewing
    /\ Fits(Cleared)
    /\ \E left \in (SUBSET stage.nodes) \ {{}} :
          /\ nodes' = Cleared \cup {[n EXCEPT !.role = "failed"] : n \in left}
          /\ used' = used \cup OnHosts(left)
    /\ disturbed' = TRUE
    /\ Refuse(par)
    /\ UNCHANGED <<Frame, hosts, repl, up, stage, asked>>

-----------------------------------------------------------------------------
(* E-014: the standby rows of the targets' hosts are counted, at whatever  *)
(* port; a CE group must have become a standby group, if that can be read. *)
ThisGroup == IF par.new # 0 THEN par.new ELSE par.expected

Synced(read) ==
    /\ Cardinality({n \in nodes : n.role = "standby" /\ n.host \in Targets}) >= Len(opt.targets)
    /\ ce /\ ThisGroup # 0 /\ read => ThisGroup \in StandbyGroups

CheckSync ==
    /\ Here("sync") /\ ~Previewing
    /\ \E read \in BOOLEAN :
          /\ up /\ (opt.soft \/ Synced(read))
          /\ disturbed' = (disturbed \/ ~read)
    /\ Advance
    /\ UNCHANGED <<Frame, cluster, par, asked>>

(* The timeout runs out with nothing left to wait for.                     *)
SyncTimesOut ==
    /\ Here("sync") /\ ~Previewing
    /\ \/ ~up
       \/ /\ ~opt.soft /\ ~Synced(TRUE)
          /\ \A n \in nodes : n.role # "joining"
    /\ Refuse(par)
    /\ UNCHANGED <<Frame, cluster, asked, disturbed>>

(* E-017: the new instance must answer. *)
VerifyNothing ==                         \* mutant: the connection test is only logged
    /\ Here("verify")
    /\ Advance
    /\ UNCHANGED <<Frame, cluster, par, asked, disturbed>>

Verify ==
    /\ Here("verify") /\ ~Previewing
    /\ IF Listening(HostOf(at)) THEN Advance /\ UNCHANGED par ELSE Refuse(par)
    /\ UNCHANGED <<Frame, cluster, asked, disturbed>>

-----------------------------------------------------------------------------
(* RunFailedExpansionCleanup. *)

(* SelectCEGroupsForFailedCleanup: standby groups that are not in the      *)
(* baseline, and the group of this expansion; never the first.             *)
Selected(standbys) == ((standbys \cup {ThisGroup}) \ par.base) \ {0, 1}

(* yasboot group remove for each, as long as they succeed.  To remove a    *)
(* group that is not there fails.                                          *)
RemoveGroups(ok) ==
    \E read \in BOOLEAN :
       LET sel == Selected(IF read THEN StandbyGroups ELSE {})
           all == sel # {} /\ sel \subseteq Groups
       IN  \E gone \in SUBSET (sel \cap Groups) :
              /\ asked' = sel
              /\ nodes' = {n \in nodes : n.grp \notin gone}
              /\ ok => all /\ gone = sel
              /\ disturbed' = (disturbed \/ ~read
                                \/ (~ok /\ (all \/ gone # sel \cap Groups)))

(* yasboot node remove --clean *)
RemoveFailedNodes(ok) ==
    /\ nodes' = IF ok THEN nodes \ FailedNodes ELSE nodes
    /\ disturbed' = (disturbed \/ ~ok)
    /\ UNCHANGED asked

CleanUp(ok) == IF ce THEN RemoveGroups(ok) ELSE RemoveFailedNodes(ok)

(* handleStandbyExpansionFailure: an error of the clean-up is only logged. *)
Handle ==
    /\ part = "handle"
    /\ IF CleansUp THEN CleanUp(TRUE) \/ CleanUp(FALSE)
                   ELSE UNCHANGED <<nodes, asked, disturbed>>
    /\ todo' = {} /\ Return("error")
    /\ UNCHANGED <<Frame, hosts, repl, up, used, stage, par>>

(* E-018, Optional: skipped unless -F or the flag was given.               *)
SkipCleanup ==
    /\ Here("failed") /\ ~CleansUp /\ ~Previewing
    /\ Advance
    /\ UNCHANGED <<Frame, cluster, par, asked, disturbed>>

CleanupFailed ==
    /\ Here("failed") /\ CleansUp /\ ~Previewing
    /\ \/ CleanUp(TRUE) /\ Advance
       \/ CleanUp(FALSE) /\ todo' = {} /\ Return("error")
    /\ UNCHANGED <<Frame, hosts, repl, up, used, stage, par>>
-----------------------------------------------------------------------------
(* What happens around the run. *)

(* Ctrl-C, or the control machine lost. *)
Interrupted ==
    /\ part # "idle"
    /\ todo' = {} /\ Return("error")
    /\ disturbed' = TRUE
    /\ UNCHANGED <<Frame, cluster, par, asked>>

(* A new instance catches up with a primary that ships its redo, or fails. *)
Joins ==
    /\ \E n \in nodes :
          /\ n.role = "joining"
          /\ \/ /\ up /\ repl = "set"
                /\ nodes' = (nodes \ {n}) \cup {[n EXCEPT !.role = "standby"]}
                /\ UNCHANGED disturbed
             \/ /\ nodes' = (nodes \ {n}) \cup {[n EXCEPT !.role = "failed"]}
                /\ disturbed' = TRUE
    /\ UNCHANGED <<Frame, hosts, repl, up, used, stage, at, part, todo, par, asked, exit>>

(* Between runs the operator may restart the primary. *)
OperatorRestarts ==
    /\ part = "idle" /\ (~up \/ repl = "spfile")
    /\ up' = TRUE /\ repl' = IF repl = "spfile" THEN "set" ELSE repl
    /\ UNCHANGED <<Frame, nodes, hosts, used, stage, at, part, todo, par, asked, disturbed, exit>>

Finished == part = "idle" /\ run = Runs /\ UNCHANGED vars

Next ==
    \/ Start
    \/ Look \/ CheckArchiveMode \/ CheckArchiveDest \/ StepFails
    \/ CheckStatus \/ CheckReplicationSE \/ EnsureReplicationCE \/ StopCluster \/ StartCluster
    \/ CheckPort \/ MakePaths \/ ResolvePath
    \/ FindExisting \/ RemoveHost \/ RemovalUnseen \/ RemoveFails
    \/ \E s \in {"gen", "software", "sync", "verify", "failed"} : Preview(s)
    \/ GenNodes \/ GenGroup \/ AddHosts
    \/ NothingToAdd \/ SkipAdd \/ AddInstances \/ AddFails
    \/ CheckSync \/ SyncTimesOut \/ Verify
    \/ Handle \/ SkipCleanup \/ CleanupFailed
    \/ Interrupted \/ Joins \/ OperatorRestarts \/ Finished

Spec == Init /\ [][Next]_vars
-----------------------------------------------------------------------------
(* Properties. *)

(* The state is well formed: above all a run never goes past the end of    *)
(* its list, and outside a run there is nothing left to remove.            *)
TypeOK ==
    /\ ce \in BOOLEAN /\ nodes \subseteq Nodes /\ hosts \subseteq Hosts
    /\ repl \in {"none", "spfile", "set"} /\ up \in BOOLEAN
    /\ used \subseteq Hosts
    /\ stage.hosts \subseteq Hosts /\ stage.nodes \subseteq Nodes
    /\ opt \in Options
    /\ run \in 0..Runs /\ at \in Calls \cup {Outset} /\ (part # "idle" => at \in Calls)
    /\ part \in {"idle", "call", "stop", "start", "remove", "handle"}
    /\ todo \subseteq Hosts /\ (todo # {} <=> part = "remove")
    /\ par.hostId \in Hosts \cup {None}
    /\ par.base \subseteq GroupIds /\ {par.expected, par.new} \subseteq GroupIds
    /\ asked \subseteq GroupIds \ {0, 1} /\ disturbed \in BOOLEAN
    /\ exit \in {"none", "ok", "error"} /\ (part # "idle" => exit = "none")

(* No run takes the primary out of the cluster, even when its own host is  *)
(* a target and the cluster status does not answer (the reuse rule of      *)
(* E-010 is what keeps yasboot host remove -f from it).                    *)
PrimarySurvives == Primary \in hosts /\ PrimaryNode \in nodes

Running == part # "idle"

(* E-007 with -F never deletes the directories of an instance that runs,   *)
(* if E-006 is in the plan.                                                *)
LiveFilesSurvive ==
    [][Running /\ "port" \in opt.plan => \A h \in used \ used' : ~Listening(h)]_vars

(* A run that added and verified and then returned success has an instance *)
(* at the begin-port of every target, whatever was reused, removed, staged *)
(* by an earlier run or skipped; unless E-018 cleaned up afterwards.       *)
SuccessIsExpanded ==
    /\ exit = "ok" /\ ~Previewing
    /\ {"add", "verify"} \subseteq opt.plan
    /\ ~("failed" \in opt.plan /\ CleansUp)
    => \A h \in Targets : Occupied(h)

(* The whole command with -F, on a cluster whose primary runs and ships    *)
(* redo (or may be restarted to), for targets where nothing listens on the *)
(* begin-port; several targets must not be in the cluster already.         *)
Repeatable ==
    /\ opt.mode = "apply" /\ opt.force /\ opt.plan = Steps
    /\ start.up /\ (start.repl = "set" \/ (ce /\ opt.restart))
    /\ Primary \notin Targets
    /\ \A n \in start.nodes :
          n.host \in Targets => /\ n.port = "begin" => n.role = "failed"
                                /\ Len(opt.targets) = 1

(* Such a run succeeds when no command fails in it, whatever earlier runs  *)
(* that failed or were interrupted have left behind: failed instances,     *)
(* registered hosts, files in the stage and under the new paths.           *)
RetryCompletes == run > 0 /\ ~Running /\ Repeatable /\ ~disturbed => exit = "ok"
=============================================================================
