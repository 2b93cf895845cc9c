------------------------------ MODULE OMMigrate ------------------------------
(***************************************************************************)
(* Moving the primary OM (the yasom process that manages a cluster) from   *)
(* one host to another: runOMMigrateSteps of internal/cli/standby.go, the  *)
(* steps O-001..O-010 of internal/steps/om, and the rollback.              *)
(*                                                                         *)
(* Any command may fail, with or without having had its effect, and any    *)
(* run may be interrupted; the next run, with any mode and step list,      *)
(* meets what is left.  What yasboot does is not in the repository: its    *)
(* commands are modelled as the code expects them to behave.               *)
(***************************************************************************)
EXTENDS Naturals, Sequences, FiniteSets

CONSTANTS Filters,               \* the step lists that -s and -e leave, sets of steps
          Runs                   \* bound on the runs of the command

(* GetMigrateSteps, in registry order. *)
Order == <<"gate", "prepare", "add", "secondary", "stop", "promote", "sync",
           "toml", "old", "switch">>
Steps == {Order[k] : k \in DOMAIN Order}

ASSUME FiltersAssumption == Filters \subseteq SUBSET Steps
ASSUME RunsAssumption == Runs \in Nat \ {0}

Cur == "current"                 \* --om-current
New == "new"                     \* --om-new
Hosts == {Cur, New}

VARIABLES om,                    \* yasom on each host: its role, is it running,
                                 \* and the generation of its metadata (0: no copy)
          member,                \* is the new host in the cluster
          env,                   \* the OM that "yasom sync" last gave to all hosts
          toml,                  \* the OM named by hosts.toml in each host's stage
          flags,                 \* --precheck and --dry-run
          listed,                \* the migrate steps of this run
          run,                   \* number of the current run
          at, part,              \* the step, and where the run is in it
          mode, already, synced, \* entries of the shared ctx.Results
          lastOK,                \* the last step whose result was Success
          before,                \* the cluster when the run started
          disturbed,             \* a command failed or a wait timed out in this run
          context,               \* the host topo.om is connected to
          exit                   \* what runOMMigrateSteps returns

cluster == <<om, member, env, toml>>
results == <<mode, already, synced>>
vars == <<cluster, flags, listed, run, at, part, results, lastOK, before,
          disturbed, context, exit>>

-----------------------------------------------------------------------------
(* The cluster, as yasboot reports and changes it. *)

Roles == {"none", "primary", "secondary"}
NoOM == [role |-> "none", up |-> FALSE, copy |-> 0]

RunningPrimary(h) == om[h].role = "primary" /\ om[h].up
Primaries == {h \in Hosts : om[h].role = "primary"}
Newest == IF om[Cur].copy > om[New].copy THEN om[Cur].copy ELSE om[New].copy

(* "process yasom status" knows of the new host once it is a member. *)
IsSecondary(h) == om[h].role = "secondary" /\ om[h].up

SecondarySyncedAnySeq ==                 \* mutant: max_seq is not compared
    /\ Primaries # {}
    /\ member /\ IsSecondary(New)

(* SecondarySynced: the new host runs a secondary whose max_seq is that of *)
(* the primary, which need not be running.                                 *)
SecondarySynced ==
    /\ Primaries # {}
    /\ member /\ IsSecondary(New)
    /\ \A p \in Primaries : om[p].copy = om[New].copy

(* yasom recover --role secondary starts with no metadata; the primary     *)
(* sends it.                                                               *)
CanCatchUp(h) == \E p \in Hosts \ {h} : /\ IsSecondary(h) /\ RunningPrimary(p)
                                        /\ om[h].copy # om[p].copy

Clean(h) == om' = [om EXCEPT ![h] = NoOM]
RecoverSecondary(h) == om' = [om EXCEPT ![h] = [role |-> "secondary", up |-> TRUE, copy |-> 0]]
Stop(h) == om' = [om EXCEPT ![h].up = FALSE]

(* After a stop the role is still primary, and start brings that back.     *)
StartAgain(h) == om' = [om EXCEPT ![h].up = om[h].role # "none"]

(* A promoted copy goes its own way: a new generation. *)
Promote(h) == om' = [om EXCEPT ![h] = [role |-> "primary", up |-> TRUE, copy |-> @.copy + 1]]

CatchUp(h) ==
    /\ CanCatchUp(h)
    /\ \E p \in Hosts \ {h} : om' = [om EXCEPT ![h].copy = om[p].copy]
    /\ UNCHANGED <<member, env, toml, flags, listed, run, at, part, results, lastOK,
                   before, disturbed, context, exit>>

(* pickOMStageExecutor: the new host if its stage has hosts.toml. *)
StageHost == IF toml[New] # "absent" THEN New ELSE Cur

-----------------------------------------------------------------------------
Init ==
    /\ \E joined \in BOOLEAN, second \in {"none", "synced"} :
          /\ second = "synced" => joined
          /\ member = joined
          /\ om = [h \in Hosts |->
                     IF h = Cur THEN [role |-> "primary", up |-> TRUE, copy |-> 1]
                     ELSE IF second = "synced" THEN [role |-> "secondary", up |-> TRUE, copy |-> 1]
                     ELSE NoOM]
          /\ toml \in [Hosts -> {"absent", Cur}]
          /\ toml[New] # "absent" => joined
    /\ env = Cur
    /\ flags = [precheck |-> FALSE, dryRun |-> FALSE]
    /\ listed = {}
    /\ run = 0
    /\ at = "none" /\ part = "idle"
    /\ mode = "" /\ already = FALSE /\ synced = FALSE
    /\ lastOK = "none"
    /\ before = [om |-> om, member |-> member, toml |-> toml]
    /\ disturbed = FALSE
    /\ context = Cur
    /\ exit = "none"

Applying == ~flags.precheck /\ ~flags.dryRun

(* yinstall standby with --om-current and --om-new; Results is a new map.  *)
Start ==
    /\ part = "idle"
    /\ run < Runs
    /\ run' = run + 1
    /\ flags' \in [precheck : BOOLEAN, dryRun : BOOLEAN]
    /\ listed' \in Filters
    /\ at' = "none" /\ part' = "os"
    /\ mode' = "" /\ already' = FALSE /\ synced' = FALSE
    /\ lastOK' = "none"
    /\ before' = [om |-> om, member |-> member, toml |-> toml]
    /\ disturbed' = FALSE
    /\ context' = Cur
    /\ exit' = "none"
    /\ UNCHANGED cluster

Return(status) == exit' = status /\ part' = "idle"

ListedAfter(s) ==
    {k \in DOMAIN Order : Order[k] \in listed /\ \A j \in DOMAIN Order : Order[j] = s => k > j}

(* The next listed step, or the end of the loop. *)
Advance(s) ==
    IF ListedAfter(s) = {}
    THEN part' = "end" /\ at' = "none"
    ELSE /\ part' = "pre"
         /\ at' = Order[CHOOSE k \in ListedAfter(s) : \A j \in ListedAfter(s) : k <= j]

(* Connecting to the new host and the B-* steps on it; under --precheck    *)
(* their failure is passed over.                                           *)
OSBaseline ==
    /\ part = "os"
    /\ \/ /\ listed = {}
          /\ Return("ok")
          /\ UNCHANGED at
       \/ /\ listed # {}
          /\ Advance("none")
          /\ UNCHANGED exit
    /\ UNCHANGED <<cluster, flags, listed, run, results, lastOK, before, disturbed, context>>

OSBaselineFails ==
    /\ part = "os"
    /\ disturbed' = TRUE
    /\ Return("error")
    /\ UNCHANGED <<cluster, flags, listed, run, at, results, lastOK, before, context>>

-----------------------------------------------------------------------------
(* How a step ends.  A skipped step counts as a success. *)

Succeed == lastOK' = at /\ Advance(at) /\ UNCHANGED exit

(* --precheck returns at once; anything else rolls back first. *)
Fail ==
    /\ IF flags.precheck THEN Return("error") ELSE part' = "rollback" /\ UNCHANGED exit
    /\ UNCHANGED <<at, lastOK>>

Continue(where) == part' = where /\ UNCHANGED <<at, lastOK, exit>>

(* PreCheck passed: --precheck and --dry-run skip the rest of the step.    *)
Pass == IF Applying THEN Continue("act") ELSE Succeed

Known == <<cluster, flags, listed, run, before, context>>

-----------------------------------------------------------------------------
(* The PreChecks. *)

PreGate ==
    /\ part = "pre" /\ at \in {"gate", "switch"}
    /\ Pass
    /\ UNCHANGED <<Known, results, disturbed>>

(* skipIfOMMigrateAlreadyDone *)
PreAlreadyDone ==
    /\ part = "pre" /\ at \in {"prepare", "add", "secondary", "stop", "promote", "old"}
    /\ already
    /\ Succeed
    /\ UNCHANGED <<Known, results, disturbed>>

PrePrepare ==
    /\ part = "pre" /\ at = "prepare" /\ ~already
    /\ IF mode = "m1" THEN Succeed ELSE Pass
    /\ UNCHANGED <<Known, results, disturbed>>

(* Without a gate in this run the mode is asked for, and stays unknown if  *)
(* there is no answer; host add is run in the current host's stage.        *)
PreAdd ==
    /\ part = "pre" /\ at = "add" /\ ~already
    /\ \/ /\ mode' = IF mode # "" THEN mode ELSE IF member THEN "m1" ELSE "m2"
          /\ UNCHANGED disturbed
       \/ mode = "" /\ mode' = "" /\ disturbed' = TRUE
    /\ IF mode' = "m1" THEN Succeed
       ELSE IF toml[Cur] # "absent" THEN Pass ELSE Fail
    /\ UNCHANGED <<Known, already, synced>>

PreSecondary ==
    /\ part = "pre" /\ at \in {"secondary", "old"} /\ ~already
    /\ Pass
    /\ UNCHANGED <<Known, results, disturbed>>

(* "refuse to stop primary": WaitSecondarySynced, up to a minute.          *)
PreStop ==
    /\ part = "pre" /\ at = "stop" /\ ~already
    /\ SecondarySynced
    /\ Pass
    /\ UNCHANGED <<Known, results, disturbed>>

PreStopTimesOut ==
    /\ part = "pre" /\ at = "stop" /\ ~already
    /\ ~SecondarySynced
    /\ disturbed' = (disturbed \/ CanCatchUp(New))
    /\ Fail
    /\ UNCHANGED <<Known, results>>

PrePromoteUnflagged ==                   \* mutant: the sync flag is not asked for
    /\ part = "pre" /\ at = "promote" /\ ~already
    /\ Pass
    /\ UNCHANGED <<Known, results, disturbed>>

PrePromote ==
    /\ part = "pre" /\ at = "promote" /\ ~already
    /\ IF RunningPrimary(New) \/ synced \/ ~Applying THEN Pass ELSE Fail
    /\ UNCHANGED <<Known, results, disturbed>>

PreSync ==
    /\ part = "pre" /\ at = "sync"
    /\ IF member /\ om[New].role = "primary" THEN Pass ELSE Fail
    /\ UNCHANGED <<Known, results, disturbed>>

PreToml ==
    /\ part = "pre" /\ at = "toml"
    /\ IF toml[StageHost] # "absent" THEN Pass ELSE Fail
    /\ UNCHANGED <<Known, results, disturbed>>

(* A PreCheck that asks for the status, or the stage, and gets no answer.  *)
PreCheckDisturbed ==
    /\ part = "pre" /\ at \in {"add", "stop", "sync", "toml"}
    /\ ~(already /\ at \in {"add", "stop"})
    /\ disturbed' = TRUE
    /\ Fail
    /\ UNCHANGED <<Known, results>>

-----------------------------------------------------------------------------
(* The Actions. *)

(* ClassifyOMMigrateStatus *)
AlreadyDone == RunningPrimary(New) /\ ~RunningPrimary(Cur)

ProceedRunning ==                        \* mutant: a stopped current primary is refused
    ~RunningPrimary(New) /\ RunningPrimary(Cur)

ProceedAlways ==                         \* mutant: a cluster without primary is accepted
    ~RunningPrimary(New) /\ om[New].role # "primary"

(* The current OM is the running primary, or no primary runs and it is the *)
(* first one listed: stopped by an earlier run.                            *)
Proceed == ~RunningPrimary(New) /\ om[Cur].role = "primary"
NewListedFirst == ~RunningPrimary(Cur) /\ om[New].role = "primary"

Gate ==
    /\ part = "act" /\ at = "gate"
    /\ \E refused \in {FALSE, NewListedFirst} :
       IF AlreadyDone \/ (Proceed /\ ~refused)
       THEN /\ already' = AlreadyDone
            /\ mode' = IF AlreadyDone \/ member THEN "m1" ELSE "m2"
            /\ Succeed
       ELSE Fail /\ UNCHANGED <<already, mode>>
    /\ UNCHANGED <<Known, synced, disturbed>>

(* Directories and firewall on the new host, or only the run's context.    *)
NoClusterChange ==
    /\ part = "act" /\ at \in {"prepare", "switch"}
    /\ Succeed
    /\ UNCHANGED <<Known, results, disturbed>>

HostAdd ==
    /\ part = "act" /\ at = "add"
    /\ member' = TRUE
    /\ mode' = "m1"
    /\ Succeed
    /\ UNCHANGED <<om, env, toml, flags, listed, run, already, synced, before, disturbed, context>>

(* EnsureSecondaryYasom: a synced secondary is left alone, a primary is    *)
(* refused, and whatever else is there is cleaned before recover.          *)
EnsureSynced ==
    /\ part = "act" /\ at = "secondary"
    /\ SecondarySynced
    /\ synced' = TRUE
    /\ Continue("post")
    /\ UNCHANGED <<Known, mode, already, disturbed>>

EnsureRefuses ==
    /\ part = "act" /\ at = "secondary"
    /\ ~SecondarySynced
    /\ ~member \/ om[New].role = "primary"
    /\ Fail
    /\ UNCHANGED <<Known, results, disturbed>>

(* CleanYasom does not look at the exit code. *)
EnsureClean ==
    /\ part = "act" /\ at = "secondary"
    /\ ~SecondarySynced
    /\ member /\ om[New].role # "primary"
    /\ \/ Clean(New) /\ UNCHANGED disturbed
       \/ UNCHANGED om /\ disturbed' = TRUE
    /\ Continue("recover")
    /\ UNCHANGED <<member, env, toml, flags, listed, run, results, before, context>>

(* Without an answer to the status no row is found, and nothing cleaned or *)
(* refused.                                                                *)
EnsureBlindly ==
    /\ part = "act" /\ at = "secondary"
    /\ disturbed' = TRUE
    /\ Continue("recover")
    /\ UNCHANGED <<Known, results>>

EnsureRecover ==
    /\ part = "recover" /\ at = "secondary"
    /\ member /\ om[New].role = "none"
    /\ RecoverSecondary(New)
    /\ Continue("wait")
    /\ UNCHANGED <<member, env, toml, flags, listed, run, results, before, disturbed, context>>

(* "already exists": clean, and recover once more. *)
EnsureCleanAgain ==
    /\ part = "recover" /\ at = "secondary"
    /\ om[New].role # "none"
    /\ Clean(New)
    /\ Continue("recover")
    /\ UNCHANGED <<member, env, toml, flags, listed, run, results, before, disturbed, context>>

EnsureWait ==
    /\ part = "wait" /\ at = "secondary"
    /\ SecondarySynced
    /\ synced' = TRUE
    /\ Continue("post")
    /\ UNCHANGED <<Known, mode, already, disturbed>>

SecondaryDone ==
    /\ part = "post" /\ at = "secondary"
    /\ SecondarySynced
    /\ Succeed
    /\ UNCHANGED <<Known, results, disturbed>>

WaitTimesOut ==
    /\ part \in {"wait", "post"} /\ at = "secondary"
    /\ ~SecondarySynced
    /\ disturbed' = (disturbed \/ CanCatchUp(New))
    /\ Fail
    /\ UNCHANGED <<Known, results>>

(* An OM that is already stopped is not stopped again. *)
StopPrimary ==
    /\ part = "act" /\ at = "stop"
    /\ IF om[Cur].up THEN Stop(Cur) ELSE UNCHANGED om
    /\ Continue("post")
    /\ UNCHANGED <<member, env, toml, flags, listed, run, results, before, disturbed, context>>

StopDone ==
    /\ part = "post" /\ at = "stop"
    /\ IF RunningPrimary(Cur) THEN Fail ELSE Succeed
    /\ UNCHANGED <<Known, results, disturbed>>

RecoverPrimary ==
    /\ part = "act" /\ at = "promote"
    /\ IF RunningPrimary(New) THEN UNCHANGED om ELSE Promote(New)
    /\ Continue("post")
    /\ UNCHANGED <<member, env, toml, flags, listed, run, results, before, disturbed, context>>

PromoteDone ==
    /\ part = "post" /\ at = "promote"
    /\ IF om[New].role = "primary" THEN Succeed ELSE Fail
    /\ UNCHANGED <<Known, results, disturbed>>

Sync ==
    /\ part = "act" /\ at = "sync"
    /\ env' = New
    /\ Succeed
    /\ UNCHANGED <<om, member, toml, flags, listed, run, results, before, disturbed, context>>

(* The new host's hostid comes from the status: it must be a member. *)
UpdateHostsToml ==
    /\ part = "act" /\ at = "toml"
    /\ IF member
       THEN toml' = [toml EXCEPT ![StageHost] = New] /\ Succeed
       ELSE Fail /\ UNCHANGED toml
    /\ UNCHANGED <<om, member, env, flags, listed, run, results, before, disturbed, context>>

(* OM Recover Old Secondary: clean, then recover; errors are only logged.  *)
OldClean ==
    /\ part = "act" /\ at = "old"
    /\ Clean(Cur) \/ UNCHANGED om
    /\ Continue("recover")
    /\ UNCHANGED <<member, env, toml, flags, listed, run, results, before, disturbed, context>>

OldRecover ==
    /\ part = "recover" /\ at = "old"
    /\ \/ om[Cur].role = "none" /\ RecoverSecondary(Cur)
       \/ UNCHANGED om
    /\ Succeed
    /\ UNCHANGED <<member, env, toml, flags, listed, run, results, before, disturbed, context>>

(* A command, or the status after it, fails.  Its effect may have happened *)
(* all the same: Execute reports a lost connection like a failed command.  *)
CommandFails ==
    /\ \/ /\ part = "act" /\ at \in {"gate", "prepare", "add", "sync", "toml"}
          /\ UNCHANGED <<om, member, env, toml>>
       \/ /\ part = "post" /\ at \in {"secondary", "promote"}
          /\ UNCHANGED <<om, member, env, toml>>
       \/ /\ part = "act" /\ at = "add" /\ member' = TRUE
          /\ UNCHANGED <<om, env, toml>>
       \/ /\ part = "act" /\ at = "sync" /\ env' = New
          /\ UNCHANGED <<om, member, toml>>
       \/ /\ part = "act" /\ at = "toml" /\ member
          /\ toml' = [toml EXCEPT ![StageHost] = New]
          /\ UNCHANGED <<om, member, env>>
       \/ /\ part = "recover" /\ at = "secondary"
          /\ \/ member /\ om[New].role = "none" /\ RecoverSecondary(New)
             \/ UNCHANGED om
          /\ UNCHANGED <<member, env, toml>>
       \/ /\ part = "act" /\ at = "stop" /\ om[Cur].up
          /\ Stop(Cur) \/ UNCHANGED om
          /\ UNCHANGED <<member, env, toml>>
       \/ /\ part = "act" /\ at = "promote" /\ ~RunningPrimary(New)
          /\ Promote(New) \/ UNCHANGED om
          /\ UNCHANGED <<member, env, toml>>
    /\ disturbed' = TRUE
    /\ Fail
    /\ UNCHANGED <<flags, listed, run, results, before, context>>

-----------------------------------------------------------------------------
(* AttemptMigrateRollback, by the last step that succeeded.  The error the *)
(* run ends with is that of the step.                                      *)

RollbackNothing ==
    /\ part = "rollback" /\ lastOK \notin {"secondary", "stop", "promote", "sync", "toml", "old"}
    /\ Return("error")
    /\ UNCHANGED <<cluster, flags, listed, run, at, results, lastOK, before, disturbed, context>>

(* "attempting clean on new host", where yasboot must be installed. *)
RollbackSecondary ==
    /\ part = "rollback" /\ lastOK = "secondary"
    /\ (member /\ Clean(New)) \/ UNCHANGED om
    /\ Return("error")
    /\ UNCHANGED <<member, env, toml, flags, listed, run, at, results, lastOK, before,
                   disturbed, context>>

(* "attempting start on --om-current", and then a sync from there. *)
RollbackStop ==
    /\ part = "rollback" /\ lastOK = "stop"
    /\ \/ StartAgain(Cur) /\ env' \in {env, IF om[Cur].role = "primary" THEN Cur ELSE env}
       \/ UNCHANGED <<om, env>>
    /\ Return("error")
    /\ UNCHANGED <<member, toml, flags, listed, run, at, results, lastOK, before,
                   disturbed, context>>

(* "will not demote": a sync from the new host. *)
RollbackPromoted ==
    /\ part = "rollback" /\ lastOK \in {"promote", "sync", "toml", "old"}
    /\ env' \in {env, IF RunningPrimary(New) THEN New ELSE env}
    /\ Return("error")
    /\ UNCHANGED <<om, member, toml, flags, listed, run, at, results, lastOK, before,
                   disturbed, context>>

-----------------------------------------------------------------------------
(* After the loop. *)

(* syncOMStageToHost copies hosts.toml to the new host, unless it is there *)
(* that it was changed; then topo.om is switched, in every mode.           *)
Finish ==
    /\ part = "end"
    /\ IF ~Applying \/ StageHost = New THEN UNCHANGED toml
       ELSE toml[Cur] # "absent" /\ toml' = [toml EXCEPT ![New] = toml[Cur]]
    /\ context' = New
    /\ Return("ok")
    /\ UNCHANGED <<om, member, env, flags, listed, run, at, results, lastOK, before, disturbed>>

FinishFails ==
    /\ part = "end"
    /\ Applying /\ StageHost = Cur
    /\ \/ UNCHANGED toml
       \/ toml[Cur] # "absent" /\ toml' = [toml EXCEPT ![New] = toml[Cur]]
    /\ disturbed' = (disturbed \/ toml[Cur] # "absent")
    /\ Return("error")
    /\ UNCHANGED <<om, member, env, flags, listed, run, at, results, lastOK, before, context>>

(* Ctrl-C, or the end of the control machine. *)
Interrupted ==
    /\ part # "idle"
    /\ disturbed' = TRUE
    /\ Return("error")
    /\ UNCHANGED <<cluster, flags, listed, run, at, results, lastOK, before, context>>

(* Between runs an OM host is rebooted, or its yasom started by hand if no *)
(* other primary runs.                                                     *)
OperatorActs ==
    /\ part = "idle" /\ run < Runs
    /\ \E h \in Hosts :
          \/ om[h].up /\ Stop(h)
          \/ /\ ~om[h].up /\ om[h].role # "none"
             /\ om[h].role = "secondary" \/ \A p \in Hosts : ~RunningPrimary(p)
             /\ StartAgain(h)
    /\ UNCHANGED <<member, env, toml, flags, listed, run, at, part, results, lastOK,
                   before, disturbed, context, exit>>

Finished == part = "idle" /\ run = Runs /\ UNCHANGED vars

PreChecks == \/ PreGate \/ PreAlreadyDone \/ PrePrepare \/ PreAdd \/ PreSecondary
             \/ PreStop \/ PreStopTimesOut \/ PrePromote \/ PreSync \/ PreToml
             \/ PreCheckDisturbed

Actions == \/ Gate \/ NoClusterChange \/ HostAdd
           \/ EnsureSynced \/ EnsureRefuses \/ EnsureClean \/ EnsureBlindly
           \/ EnsureRecover \/ EnsureCleanAgain \/ EnsureWait
           \/ SecondaryDone \/ WaitTimesOut
           \/ StopPrimary \/ StopDone \/ RecoverPrimary \/ PromoteDone
           \/ Sync \/ UpdateHostsToml \/ OldClean \/ OldRecover \/ CommandFails

Rollback == RollbackNothing \/ RollbackSecondary \/ RollbackStop \/ RollbackPromoted

Next == \/ Start \/ OSBaseline \/ OSBaselineFails
        \/ PreChecks \/ Actions \/ Rollback
        \/ Finish \/ FinishFails \/ Interrupted
        \/ OperatorActs \/ (\E h \in Hosts : CatchUp(h)) \/ Finished

Spec == Init /\ [][Next]_vars

-----------------------------------------------------------------------------
(* Types of the state; a run is in a step it was asked for. *)
TypeOK ==
    /\ om \in [Hosts -> [role : Roles, up : BOOLEAN, copy : 0..(Runs + 1)]]
    /\ \A h \in Hosts : om[h].role = "none" => om[h] = NoOM
    /\ member \in BOOLEAN /\ env \in Hosts
    /\ toml \in [Hosts -> Hosts \cup {"absent"}]
    /\ flags \in [precheck : BOOLEAN, dryRun : BOOLEAN]
    /\ listed \subseteq Steps /\ run \in 0..Runs
    /\ part \in {"idle", "os", "pre", "act", "recover", "wait", "post", "rollback", "end"}
    /\ part \in {"pre", "act", "recover", "wait", "post", "rollback"} => at \in listed
    /\ mode \in {"", "m1", "m2"} /\ already \in BOOLEAN /\ synced \in BOOLEAN
    /\ lastOK \in listed \cup {"none"}
    /\ disturbed \in BOOLEAN /\ context \in Hosts
    /\ exit \in {"none", "ok", "error"}

(* The new host is made primary only with all the metadata there is:       *)
(* whatever list of steps is run and whatever earlier runs have left, an   *)
(* unsynced secondary is not promoted.                                     *)
PromotionLosesNothing ==
    [][om[New].role # "primary" /\ om'[New].role = "primary" => om[New].copy = Newest]_vars

(* The lists that have the step to stop the primary where they go on after *)
(* the one that made the secondary.                                        *)
StopsFirst ==
    "secondary" \in listed /\ listed \cap {"promote", "sync", "toml", "old", "switch"} # {}
        => "stop" \in listed

(* No step of such a run starts a second primary while one is running;     *)
(* what a failed run does in its rollback is another matter: there it can  *)
(* happen.                                                                 *)
StepsKeepOnePrimary ==
    [][StopsFirst /\ (\E h \in Hosts : ~RunningPrimary(h)) /\ (\A h \in Hosts : RunningPrimary(h)')
         => part = "rollback"]_vars

(* The lists that keep the guards of their dangerous steps: the gate, and  *)
(* OM Sync, whose PreCheck stands before the cleaning of the old host; and *)
(* the stop, without which the rollback of what comes after it takes the   *)
(* new primary for a secondary that it may clean.                          *)
Guarded == StopsFirst /\ "gate" \in listed /\ ("old" \in listed => "sync" \in listed)

(* O-004 has met a primary on the new host without knowing: the status had *)
(* no answer, so nothing was refused, and recover says "already exists".   *)
PrimaryMetBlindly == part = "recover" /\ at = "secondary" /\ om[New].role = "primary"

(* The newest metadata is never thrown away by such a run, in its steps or *)
(* its rollback, except where it is known to be: the rollback of a dry run *)
(* acts on the cluster, and O-004 cleans a primary that it met blindly.    *)
MetadataSurvives ==
    [][~flags.dryRun /\ Guarded /\ ~PrimaryMetBlindly => Newest' >= Newest]_vars

(* The states from which the move can be made or taken up again: the       *)
(* current primary runs and the new host is no primary; or it is stopped   *)
(* with a synced secondary ready; or the move is done.  hosts.toml must be *)
(* where the steps look for it.                                            *)
Resumable(b) ==
    /\ \/ /\ b.om[Cur].role = "primary" /\ b.om[Cur].up
          /\ b.om[New].role # "primary"
       \/ /\ b.om[Cur].role = "primary" /\ ~b.om[Cur].up
          /\ b.om[New].role = "secondary" /\ b.om[New].up
          /\ b.om[Cur].copy = b.om[New].copy
       \/ /\ b.om[New].role = "primary" /\ b.om[New].up
          /\ ~(b.om[Cur].role = "primary" /\ b.om[Cur].up)
    /\ b.toml[Cur] # "absent" \/ (b.member /\ b.toml[New] # "absent")

(* Wherever earlier runs were interrupted, a full run that starts in such  *)
(* a state and meets no failure of its own succeeds.                       *)
RerunCompletes ==
    part = "idle" /\ run > 0 /\ Applying /\ listed = Steps /\ ~disturbed /\ Resumable(before)
        => exit = "ok"
=============================================================================
