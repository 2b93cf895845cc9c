# yinstall in TLA+

yinstall installs and operates YashanDB clusters from a control machine: it
connects to target hosts over SSH (or runs locally), and takes ordered lists of
*steps* - each a PreCheck, an Action and a PostCheck - across one or many hosts.
This directory holds a TLA+ model of that machinery, TLC configurations that
check it on small instances, and TLAPS proofs for instances of any size.

What can go wrong in such a program is seldom inside one step.  It is in what is
around them: which step runs on which host and in which order, what a failure in
the middle does to the rest, what `--precheck` and `--dry-run` may touch, what
the exit status and the log say about what was done, what a second run finds
after an interrupted first one, and what happens when a connection or a time-out
interferes.  The model is about these questions.

Contents: 1 the system, 2 the modules, 3 the runs, 4 fairness and deadlock,
5 the proofs, 6 where code and documents disagree, 7 what is not modelled,
8 the plan, 9 how to run it.

## 1. The system

| Component | Source | State it keeps | Operations |
|---|---|---|---|
| Step runner | `internal/runner/step.go`, `step_progress.go`, `precheck.go` | `StepContext` (results, issues, index/total), `StepProgress` | `RunStep`, `ReportPrecheckIssue`, progress claims |
| Host phases | `internal/cli/runner_host.go`, `os.go` | executors, `hostInfos`, frozen progress numbers, failure flags | `RunConnectivityPhase`, `RunPerHostStepsEx`, `runOS` |
| `yinstall db` | `internal/cli/db.go` | the same plus C-001, DB list, secondary OM | `runDB` |
| Secondary OM | `internal/cli/standby.go` | shared `results`, `om_secondary_host` | `runOMDeploySecondarySteps`, `syncOMStageToHost` |
| `yinstall standby` | `internal/cli/standby.go`, `internal/steps/standby` | primary, OM and standby executors, expansion state | `runStandby`, expansion, clean-up |
| Database steps | `internal/steps/db` | directories, TOML, software, database, environment files, autostart unit, `/etc/hosts` | C-001..C-035 |
| Shared disks | `internal/steps/os` (B-021..B-031), `steps/db` (C-001, C-012), `common/disk` | multipath configuration and maps, udev rules, `/dev/yfs`, disk group parameters | discovery, multipathd, udev, disk check |
| Addresses | `internal/steps/db` (C-001, C-009..C-013), `common/os` | VIPs, SCAN, public network, interconnect | search, validation |
| `yinstall om` | `internal/cli/om.go`, `internal/steps/om` | OM database copy, migration stage | OM migration and deployment |
| `yinstall ycm`, `ymp` | `internal/cli/ycm.go`, `ymp.go`, `internal/steps/ycm`, `steps/ymp`, `common/os/env.go` | install directories, units, `ymp.env`, user | G-001..G-011, H-001..H-014 |
| `yinstall clean` | `internal/cli/clean.go`, `internal/steps/clean` | processes, directories, settings and disks of what is to go | CLEAN-DB-001..007, CLEAN-YCM, CLEAN-YMP |
| `yinstall collect` | `internal/cli/collect*.go`, `internal/steps/collect` | output directory, shared results | `runCollectPipeline`, post-install archive |
| `yinstall stressos` | `internal/cli/stressos.go`, `internal/steps/stressos` | stress profile, runtime files | stress pipeline |
| Command execution | `internal/ssh/executor.go` | SSH client, session, line handler | `Execute`, `ExecuteContext`, the output pumps |
| Connection | `internal/ssh/executor.go`, `cli/os.go` | attempts, authentication fallbacks | `connectSSHWithRetry`, `dialSSHClient` |
| Package and stage | `internal/ssh/upload.go`, `internal/common/file`, `internal/steps/db` | files on control machine and host, the stage directory | search, SFTP/SCP upload, C-007 extraction |
| Logging | `internal/logging/logger.go` | session and debug files, `CommandStream` | command accounts, console lines |
| Steps | `internal/steps/*` | the hosts | the individual callbacks |

How they interact: a command (`internal/cli`) filters the registry, opens an
executor per host, builds a `StepContext` per call and hands steps to `RunStep`.
`RunStep` calls back into the step, which executes commands through
`StepContext.Execute`; that binds a line handler to the executor, so that two
pump goroutines write the debug log while the caller waits.  Steps communicate
only through `ctx.Results` and the hosts.  Apart from the pumps, the deadline
and the SSH server, one goroutine does everything: the hard part is sequencing
under failure, not locking.

### What is hard, and what makes each component correct

| Component | Hard behaviour | Correct if |
|---|---|---|
| Step runner | Optional steps are announced late, required ones early; three modes share one code path; a PreCheck may or may not have filed the issue that explains its error | indices are gapless and end where what is left of the total belongs to others; results say what was done; each failure leaves one reason; precheck and dry-run call no Action |
| Host phases | Global steps are hoisted before the per-host ones; numbers of the first host are reused on the others; one host of several fails | the schedule is respected on every host; a precheck visits everything, an apply stops everywhere; the exit status agrees |
| `yinstall db` | six phases with a failure variable each; one variable shadows another; a phase may find no host left | exit status and completeness agree with what failed; nothing happens after a failed apply |
| Secondary OM | one list serves primary and secondaries; steps skipped on a host that needs its stage all the same | every secondary gets the stage, the primary never, no mode but apply copies |
| `yinstall standby` | an expansion fails with nodes half added; clean-up may fail as well; several executors | no run harms the primary; no live file is deleted; a repeat with `-F` gets over any leftovers; success is an expanded cluster |
| Command execution | two pumps, a waiting caller, a deadline, a server that closes | the log equals the result, the exit code is the command's, a bounded call returns |
| Connection | nested retries with fallbacks | no connection is left open, gives up only after every way was tried |
| Package and stage | an upload or an unpacking is interrupted and the next run meets the rest | a truncated package is not unpacked, an incomplete stage is not used, a forced run recovers |
| Collect | post-steps known by identifier; partial failure of a host | the archive is finalised once, after the hosts |
| Clean | it deletes the files it finds its way by; systemd restarts what it kills; a query that has no answer looks like absence | who is wiped has left the cluster or the operator said so; success leaves nothing; what an interruption leaves can still be cleaned |
| Shared disks | names differ between hosts; maps, rules and links of an earlier run are live until something restarts | what is about to be overwritten is the disk that was asked for, on every host, and unused |
| Database steps | 34 steps over several hosts, each cut off anywhere; addresses live for one run only; autostart brings a database back between runs | success means everything asked for; a running database survives; a forced run gets over any leftovers |
| Addresses | searches that know only what was chosen before them | what is picked is free, and nothing twice |
| YCM and YMP | directories shared with others, an environment file shared by two instances, gates that refuse what an earlier run left | nothing of others is lost; success is a working product; clean and force get a host out of any state |

Each hazard is listed with its line and the properties that watch it under
`hazards` in `PROJECT.json`.

## 2. The modules

| Module | Models | Lines up with |
|---|---|---|
| `PlanRun` | what any command promises of an ordered list of steps (abstract) | the contract of every driver in `internal/cli` |
| `StepContract` | what a driver may assume of one `RunStep` call (operators) | `runner/step.go` |
| `StepRunner` | `RunStep`, its callbacks and bookkeeping, in the loop of the DB phase; implements `PlanRun`, stays within `StepContract` | `runner/step.go`, `step_progress.go`, `precheck.go`, `cli/db.go` |
| `HostPhases` | `runOS`: Phase 1 per target, Global steps, per-host steps | `cli/runner_host.go`, `cli/os.go` |
| `DBInstall` | `runDB` from Phase 1 to the archive, with the secondary OM | `cli/db.go`, `cli/standby.go`, `cli/collect_run.go` |
| `CommandStream` | one command, its two pumps, deadline, channel and log account | `ssh/executor.go`, `logging/logger.go`, `runner/step.go` |
| `PackageStage` | step C-007 over interrupted runs: search, upload, unpack, verify | `common/file`, `ssh/upload.go`, `steps/db` |
| `OMMigrate` | moving the primary OM over interrupted runs, with the rollback | `cli/standby.go`, `steps/om` |
| `Standby` | `runStandby` and E-001..E-019 over several runs, with the clean-up of a failed expansion | `cli/standby.go`, `steps/standby` |
| `SharedDisks` | what the hosts call their disks, from discovery to the disks that C-022 overwrites | `steps/os` (B-021..B-031), `steps/db` (C-001, C-012, C-014) |
| `ClusterNetwork` | how VIPs, SCAN, public network and interconnect are chosen (operators) | `steps/db`, `common/os` |
| `Deployment` | C-001..C-035 over several, resumed and interrupted runs; EXTENDS `ClusterNetwork` | `steps/db`, `common/os/autostart.go` |
| `CleanDB` | `clean --type db`, host after host, over several runs | `cli/clean.go`, `steps/clean` |
| `ProductRun` | how a command for a product goes from step to step | `cli/ycm.go`, `ymp.go`, `clean.go` |
| `YCM`, `YMP` | the steps of either product, its clean, and what a restart or a stranger does to it; both EXTEND `ProductRun` | `steps/ycm`, `steps/ymp`, `steps/clean`, `common/os` |
| `Products` | both on one host, any sequence of commands; EXTENDS `YCM`, `YMP` | the above |
| `StepRunnerProofs` | the theorems about `StepRunner` and `CommandStream` (section 5) | |
| `DBInstallProofs` | those about `DBInstall` and `PackageStage` | |
| `OSProofs` | those about `HostPhases` and `SharedDisks` | |
| `DeploymentProofs`, `CleanDBProofs`, `ProductsProofs`, `OMMigrateProofs`, `StandbyProofs` | those about the module they are named for | |
| `MC*` | model values for TLC | |

How they fit: `StepRunner` is the code of one `RunStep` call and is checked
against `StepContract`; `HostPhases` and `DBInstall` use that contract where the
code calls `RunStep`, so that they need not repeat its inside.  `PackageStage`,
`OMMigrate`, `Standby`, `SharedDisks`, `Deployment`, `CleanDB` and `Products` look
inside single steps, over several runs of the command; `PackageStage`, `OMMigrate`
and `Standby` use the same rule for `--precheck` and `--dry-run` that
`StepContract` states, the others model applied runs only.  `runStandby` calls what `OMMigrate` models as its phase
1.5, the B-\* steps of `HostPhases` in phase 2 and the secondary OM of
`DBInstall` as phase 4.5; `Standby` has the rest.  `Deployment` is what the
C-\* steps that `DBInstall` takes for single calls do to the hosts; its C-007 is
`PackageStage` reduced to "the stage is there", and C-012 with the B-steps before
it is `SharedDisks`.  `CleanDB` takes away what `Deployment` has made.

**StepRunner.** `plan` is the filtered list; each step is a record of what
`RunStep` reads of it (optional, which callbacks exist).  `pc` is the place in
`RunStep`; each action is one branch up to its `return`: `OptionalSkip`,
`OptionalStart`, `RequiredStart`, `PreCheckPasses/Skips/Fails`,
`ModeGateStops/Passes`, `ActionSucceeds/Fails`, `PostCheckSucceeds/Fails`,
`Leave`.  `progress` and `slot` are `StepProgress` and the announced (index,
total).  `around` is the rest of the command on the same counter: the slots that
B-001 and the B-\* steps have claimed, the one of C-001, which `PlannedTotal`
counts and nobody claims, and those of the archive.  `issues` is the list under `ctx.Results["__precheck_issues"]`, an issue
being told apart only by whether its text equals the error that PreCheck returns.
The callbacks are free to return anything their type allows.

**HostPhases.** `executor`, `hosts`, `progress`, `frozen` are the variables of
`runner_host.go` with the same life time; `outcome` and `slot` remember what
each step of each target did.  `ConnectFails`, `ConnectivityPasses` and
`ConnectivityFails` are the body of the Phase 1 loop; `GlobalStep`,
`FirstHostStep` and `LaterHostStep` the three loops of `RunPerHostStepsEx`.

**DBInstall.** One action per decision of `runDB`; `failed` collects what was
reported, which the code knows only in part - that difference is what the exit
status properties compare.  Both variables called `precheckFailed` are there,
the one of the Phase 1 block as `innerPrecheckFailed`.

**CommandStream.** `main` is the caller's place, `pump` that of each
`pumpOutputStream`; `unread` are lines in the pipe or channel, `buf` lines in
the result.  `WaitReturnsLocal` closes the pipes as `cmd.Wait` does, and what was
still unread is lost to any extent (`LoseSomeUnread`).  The command, sshd, the
connection and the deadline are the environment.  Its `Init`, `Next` and `Spec`
carry the prefix `Command` (and those of `PackageStage` the prefix `Stage`), so
that a proof module can extend it next to another specification.

**PackageStage.** Files on the host have a place, a version and a size class
(absent, part, whole); the stage is a set of members, which of them are whole,
their version and whether `chown` was done.  Each action of the module is one
effect on the host, so that `Interrupted` may come between any two.  `Start`
begins another run with another `--db-package`, `-F` and local directory.  A
package is named by an absolute path in one of the two directories of the host or
elsewhere, by a relative path, or by its file name (`Packages`); `Offered` and
`OnHost` say whether the control machine and the host have it *under that name*,
which is what `FindAndDistribute` asks, in this order: an absolute path on the
host, then the control machine, then, for a file name, the host's directories.
A search yields what the directories are called: a relative `-L` gives a relative
path (`Hits`).

**OMMigrate.** `om` is each host's yasom: role, running or not, and the
generation of its metadata, which stands for `max_seq` and what it counts.
`part` is the place within a step (`pre`, `act`, `recover`, `wait`, `post`); the
actions carry the names of the steps.  A failing command is `CommandFails`,
with its effect or without, because `Execute` reports a lost connection as a
failed command.  What yasboot itself does is an assumption, taken from how the
code uses it: `stop` keeps the role, `start` brings it back, `recover` refuses
where an OM exists, `clean -f` removes it whatever its role.

**Standby.** The cluster is `nodes` (instances with host, port, role and, on CE,
group), `hosts` (what `host add` registers), `repl` (REPLICATION_ADDR: unset,
only in the SPFILE, in effect) and `up`; `used` and `stage` are the files on the
targets and the two TOML files on the OM host.  Of the ports only three kinds
matter: the one the old instances listen on, the begin-port that every run asks
for, and the next one, which `--node` counts up to.  `at` is the call that is next: its
phase, its host and its step, in the order of `runStandby`, and `Following` the
calls of the command line that come after it; `part` is the place within a step,
so that `Interrupted` may come between `cluster stop` and
`start`, or between two `host remove`.  `par` is what the steps hand on in
`ctx.Params`: the detected path, the host-id to reuse, the baseline of standby
groups and the name of the new group.  Actions are named for what a step does;
the comment before each gives its E-number.  `Refuse` is the failure rule, which
differs by phase and mode.  A query is a Boolean that says whether it answered,
because the code goes on in a different way when it did not; `disturbed`
remembers that a command or a query failed in this run.  As in `OMMigrate`, the
behaviour of yasboot is an assumption: `group add` takes the next number,
`node gen` refuses a registered host, `host remove -f` takes every instance of
a host, `group remove` fails on an unknown group.  `--standby-node-count` is at
its default.

**SharedDisks.** A host has names for LUNs in three places: device names
(`lay.dev`, given), multipath aliases (`maps`) and `/dev/yfs` (`links`).  What is
written (`conf`, `rules`) and what is live (`maps`, `links`) are told apart, since
the steps restart multipathd and trigger udev only under conditions.  `step` and
`turn` are the place of the run, `Following` the order of the calls: B-021 once,
B-022..B-031 host by host, C-012, the deployment.  The two rankings by size of
B-021 are stated by what they choose (`SystemDisks`, `DataPool`): of the sizes
below the limit the one that gives most system disks, of the rest the size with
most disks; disks of one size come in any order, as `sort.Slice` is not stable.  `groups` are the shared parameters that discovery, C-012 and the
normalisation rewrite; `asked` remembers the LUNs the run was meant for.
multipathd and udev are external: a map for each unused WWID, a link for each
rule that matches something, any of them if several do.

**Deployment.** `Steps` are C-001..C-035 without C-012 by name, `pos` the place
of the run.  `dir` says of each directory whether it is missing, somebody's,
empty or in use; `toml`, `inst` are sets of the settings that reached the
configuration and the database, so that "built with everything asked for" is an
equation.  A step that visits several hosts is one action that ends after any
number of them (`Reached`, `PassOrCut`).  `par` are the parameters that steps fill
in; `Start` resets them, also for a run that resumes at the step that failed.
`disturbed` says that something failed for a reason of its own, `swallowed` that
the code passed over a failure.  `names` are the managed entries of each
`/etc/hosts`.

**CleanDB.** `opt.targets[at]` is the host and `Steps[step]` the step;
`validated` and `paths` are the two entries of the host's Results.  `StatusFrom`,
`RoleSeen` and `OMKnown` are what the steps can learn in the state they have
made; `DetachDecided` is the table of `clean_db_detach_standby.go`.  `blind`
marks the two places where a query without an answer is read as absence.
`opt.named` says whether the target is the address its node listens on, which
alone the code recognises; `lay.mute` are processes whose command line shows
neither a directory nor the name of the cluster, so that only the port gives them
away (`Matched`).  `ComesBack` is the autostart unit.

**ProductRun, YCM, YMP, Products.** `ProductRun` has the command, its position and
its exit; `YCM` and `YMP` have one action per step, and what a home, an install
directory, the unit and `ymp.env` hold as small sets.  `Products` interleaves the
steps with restarts and with files of somebody else, who may also come in
during a run.  The two YMP instances share the user and `ymp.env`; "c" is the
directory that `clean --ymp-port` infers and no install uses.  Looking at a YMP
directory and deleting it are two commands and two actions: `looked` is TRUE in
between.  `lost` collects what went wrong for a reason of its own: a failure or
files of somebody else (`disturbed`), such files between look and deletion
(`late`), a look without an answer (`unseen`), another question without one that
the code reads as "nothing there" (`blind`).

## 3. The runs

| Run | Instance | Shows |
|---|---|---|
| `StepRunner` | 3 steps, 9 shapes each, 4 modes, 3 surroundings | numbering without gaps that ends where the slots of C-001 and of the archive are left, effects as reported, the contract of a call, refinement of `PlanRun` with its termination |
| `HostPhases` | 3 targets, 3 steps of every Optional/Global mix, B-001 listed or not | a precheck visits everything it can reach; the exit status is truthful |
| `DBInstall` | 3 targets, 2 C-* steps, every combination of what is asked for | no failure of an apply is lost; success means that all was done everywhere |
| `DBInstallExit` | 2 targets, 1 step | violation, see section 6 |
| `CommandStream` | up to 2 lines per stream over a pipe of 1 | no remote line is lost, truthful exit code, calls return |
| `PackageStage` | 2 versions, 3 runs | a package that the control machine has is unpacked whole, newest chosen, what was extracted is complete, a forced run recovers |
| `OMMigrate` | 2 hosts, 16 step lists, 3 runs | nothing promoted unsynced, no second primary by a step, no metadata lost, a rerun completes |
| `Standby` | SE and CE, the primary's host and 2 more, 11 command lines, 2 runs | the primary survives, success is an expanded cluster, `-F` completes a broken expansion, live files are kept |
| `SharedDisks` | 2 hosts, 5 LUNs, 11 ways to see them, 13 command lines, 2 runs | deployment goes to the disks asked for, the same on both hosts; discovery takes free disks, none twice |
| `CleanDB` | 2 hosts, 7 layouts, 11 command lines, 3 runs | consent before a wipe, success leaves nothing, interrupted cleans can be finished |
| `Deployment` | 1 and 2 hosts, 17 layouts, plain, forced and resumed, 3 runs | running databases survive, forced runs recover, success is what was asked, addresses are free |
| `Products` | 2 layouts, 14 command lines, 3 runs | success is a working product, clean and force are ways out, what others have is lost only in the window the code leaves |

Each module defines a type invariant `TypeOK`; it is a property of the runs
`StepRunner` and `Products`, where it says something that proofs rest on (in
`PackageStage` and `CleanDB` the inductive invariants contain what they need).

Why these bounds are enough to be interesting.  *Three steps* give a first, a
middle and a last one, and with them every pair of neighbouring shapes around a
third; the loop is the whole command, follows an OS baseline and C-001, or stands
between B-001, C-001 and an archive.  *Three targets* put a failing host before, between and after healthy
ones, and leave a later host to be visited or not.  *Two C-\* steps* separate
"the rest of the list" from "the next phase".  *Two lines over a pipe of one*
make the command block on a full pipe, which is what the two pumps are for.
*Three runs* let the third meet the leftovers of two interruptions; since a run
takes nothing from the earlier ones but the state of the hosts, and what one
interruption can leave is already met by the second run, the third is there for
leftovers of two kinds at once.  The 16 step lists of
`OMMigrate` are every suffix of O-001..O-010, which is what an operator selects
to resume, the prefixes that end with the secondary, the stop and the
promotion, the empty one, and two that leave out the stop: the lists for which
`StopsFirst` makes an exception have to occur.

`Standby` starts from a cluster with or without an older standby.  *Two runs*,
because what a run meets of an earlier one are only the cluster, the hosts and
the stage, and every kind of leftover (a failed instance, a registered host
without an instance, files without either, a stage from other targets, a primary
that is down, an SPFILE value not yet in effect) can come from one run.  *Two
targets* allow one to be reused while the other is new, which is where the
single `standby_host_id` of the code matters; the primary's own host is a target
of some command lines.  The 11 command lines are whole runs on one, two and the
primary's host with and without `-F` and the restart, one with clean-up and no
wait, a resumption with E-011 to E-014 and E-017, E-018 alone, and the two
previews.

`SharedDisks` needs one disk for the system group, two for the data group, one
that could be either, and one that is in use; names that agree, that are swapped,
that are shifted by a local disk, hosts that share no disk, and two names for one
disk; WWIDs that can and that cannot be told apart; NVMe with native multipathing on both hosts or one.
*Two runs*: what a run meets of earlier ones is the configuration, the rules and
what of it is live, all of which each run overwrites or leaves.

`Deployment` has a host alone and a pair.  Two hosts suffice for a step that is
cut off between hosts, for names that the first host has and the second not, and
for a VIP that is the neighbour's.  Addresses are the numbers 1 to 14 in networks
of 5: a free one next to a host, a taken one, and the end of the range all
occur; `Attempts` is 10, as in the code.  The layouts have each access mode with
VIPs given and searched, a SCAN address given and searched, networks given and
detected; one names an interconnect that the hosts do not share, one a public
network that is another one's interconnect.  The first interface of a host is the one of its own
address, the one that `GetHostInterfaces` leaves out.
*Three runs*: one that is cut off, one that resumes it, and a third that is forced.

`CleanDB` has a pair too: a primary and a standby, or two nodes of a YAC cluster,
next to the same neighbour; *three runs*, so that a clean of the standby and one
of both may each be interrupted before a last one.  On the default port the agents
are the ones only a port would show, on another port agents and database; one
command line has a target by another name than its listen address, the primary
as "localhost".  `Products` takes three
commands, which is an install, a clean and an install again, with a restart and
strangers anywhere.

What `Next` cannot do, no property can catch, so the inputs are wide: any
callback may return any error, any command may fail with or without its effect,
and any mode may be combined with any list.

## 4. Fairness and deadlock

Safety runs need no fairness.  Two runs check liveness:

- `StepRunner` assumes `WF(Next)`: one goroutine runs the list, and every
  callback returns.  Whether a callback's command returns is the next one's
  question.  The property is `ImplementsPlanRun`, that is `PlanRun!FairSpec`: every
  step of the code is a step of the abstract plan or a stutter, and the plan
  comes to its conclusion.
- `CommandStream` assumes weak fairness of the caller, of each pump, of the
  kill, of a command that does not hang, and of the server answering a close.
  The first ones are the Go scheduler; the last is backed by the TCP keepalive
  that `dialSSHClient` sets, which turns a dead server into a broken
  connection.  Loss of the connection, the deadline and the exit of a hanging
  command are *not* fair: they may happen or not.

The models of several runs state safety only: whether there is another run is the
operator's decision, and within a run any step may fail.

`CHECK_DEADLOCK FALSE` stands only in `MCCommandStream.cfg`: a command that hangs
without a deadline really stops the caller for good.  All other models stutter
explicitly in their final states (`Gone`, `Finished`, `Done`), so TLC would report
any other state without a successor.

## 5. The proofs

All theorems hold for every value of the constants under the named assumptions
of the modules.  These only say what kind of values the constants are
(`NAssumption`, `HAssumption`, `KAssumption`, `LAssumption`, `CapAssumption`: natural
numbers of steps, targets, lines; `KindsAssumption`: shapes are records of four
Booleans; `ListedAssumption`, `TopAssumption`, `VersionsAssumption`, `LayoutsAssumption`,
`OptionsAssumption`, `CommandsAssumption`, `HostsAssumption`, `FiltersAssumption`:
records and lists as the command line admits them; `RunsAssumption`: at least one
run).  The bound on the number of runs is a constant like the others: the
theorems hold for any number of them.

The proofs of a module follow one pattern.  Where the property speaks of the end
of a run, or of what a step relies on, it is not inductive, and the invariant
says what the run may count on *at each place of its list of steps*; one lemma
per group of actions preserves it, and the last place gives the property.  TLC
has checked each of these invariants on the instance of the run before it was
proved.

### `StepRunnerProofs` (950 obligations): `StepRunner`, `CommandStream`

- `TypeCorrect`: `Spec => []TypeOK`.
- `ProgressInvariant`: the inductive invariant `ProgressInv`.  Neither
  `SlotsInOrder` nor `ProgressComplete` is inductive: whether the next claimed
  index is new depends on how many steps were announced so far.  The invariant
  therefore says that the total *is* the next index plus the required steps still
  to be announced, the slot of C-001 and those of the archive
  (`TotalAccounted`), that the announced indices are those from the loop's first
  to the next, and that steps before the loop's position are decided and those
  after it untouched.  `AroundCounts` shows that the loop begins in such a state.
- `SlotsStayInOrder`, `ProgressCompletes`: both properties of the run, for lists
  of any length and any counts around them.  With C-001 in the list the second
  says that the numbering does *not* reach the total (section 6).
- `EffectsAreReported`, `ContractIsKept`: `EffectsMatchReport` and
  `WithinContract`.  The invariant `ReportInv` adds to `ProgressInv` what has been
  done to the host at each place of `RunStep` (`Doing`: nothing before the action,
  the action but no check at the PostCheck) and that the two failure variables of
  the loop tell whether a step has failed (`Remembered`).
- `FollowsPlan`: under that invariant every step of the code is a step of
  `PlanRun` or a stutter.  Its liveness part stays with TLC.
- `CodesAreTrue`, `RemoteOutputArrives`: `ExitCodeTruthful` and
  `RemoteOutputComplete` for output of any length and pipes of any size.  The
  invariant `CommandInv` says where an exit status can come from (`StatusIsOwn`,
  `CodeIsStatus`), that a channel which delivered one has been closed in order,
  which a lost connection excludes (`ClosedInOrder`), that up to then every line
  that was written is in the result or still to be read (`NothingLost`), and that a
  pump stops only when nothing more can come (`EndsLast`).

### `OSProofs` (2526 obligations): `HostPhases`, `SharedDisks`

- `ExitIsTruthful` and `PrecheckIsThorough`.  The invariant `HostInv` ties the
  three failure variables to what happened: a precheck's `connectFailed` to a target
  that was passed and not connected, `stepFailed` to a failed step of some host,
  `lastErr` to one of the two outside a precheck (`Accounted`); whoever answered is
  a host (`Reached`).  All three ways to call a step share the lemma `StepKeeps`.
- `DisksInvariant`: the inductive invariant `DisksInv` of `SharedDisks`.  Whether
  the disk behind a name is the one asked for shows at the deployment, but is
  decided host by host long before: `Prepared` says of each host what the steps
  that have passed it have left there - its configuration is for these groups
  (`Wanted`), the live maps follow it (`MapsFollow`), the rules name the maps
  (`ByMap`), the links follow both (`LinksFollow`).  This holds of hosts whose disks
  multipathd takes (`Multipathed`) and needs two facts about the past: in a first
  run nothing was there before (`FirstRun`), and the policy that the last such host
  set came from disks named by devices (`PolicyFits`).
- `DeploymentSound`: `DeploymentIsSound`.  A host on which multipathd takes no disk
  makes C-012 refuse, since `Agreed` wants a live map on every host; on the others
  `Prepared` and `Agreed` together give one disk (`NameIsRight`), whether its name is
  the multipath device or was replaced by `/dev/yfs`.
- `DiscoverySound`: `DiscoveryIsSound`.  `ClassifiedFact` says what a choice is (three
  sequences without repetition out of the names, the first of 0, 1, 3 or 5 disks of
  one size, the others disjoint from it and from each other), `TrustedMatches` that
  names matched by WWID stand for disks that all hosts see.

### `DBInstallProofs` (748 obligations): `DBInstall`, `PackageStage`

- `ApplyExitIsTrue`: outside a precheck a failure is in `lastErr` or has ended the
  run, and no phase after the DB loop is entered with `lastErr` (`FailuresSeen`).
- `SuccessIsTotal`: the loops count what they did (`HostsFound`, `WorkDone`: the
  hosts are the targets in order, the secondaries are those before the position).
- `StageInvariant`: `StageTypeOK /\ RunInv`, where `RunInv` says what each point of
  a run of C-007 may rely on (for instance: at "extract" a stage that is not empty
  holds the requested version, and the file to unpack is whole if the control
  machine has the package and the host had nothing at the very path).
- `StageTypeCorrect`, `NamedPackageStaysWhole`, `ExtractionIsComplete`,
  `ForceRecovers`, `NewestStaysChosen` follow from it; `StageIsKept` (only a run with
  `-F` empties a stage) is an action property, proved over the same invariant.

### `CleanDBProofs` (1059 obligations)

- `ConsentIsAsked`: `WipeNeedsConsent`.  It is inductive only together with
  `Placed` - the run is at a target of its own, whose role is known: the decision
  falls in the detach step, and the five steps after it have to stay with the same
  target and never put a node back into the cluster, which the lemmas `Onwards`,
  `DetachConsents` and `OthersKeepConsent` show step by step.  The target has to
  be given by its listen address (`opt.named`): for another one the statement is
  false (section 6).
- `RetriesComplete`: `RetryCompletes`, which is inductive as it stands; each
  refusal is traced to a condition that `--skip-cluster-detach` lifts.
- `SuccessCleans`: `SuccessIsClean`.  The invariant `Progress` says, host by host,
  what the steps the run is past have taken away (`Cleaned`, `DisksKnown`), and that
  only the last step of the last host ends it well (`EndsLast`).  Two details carry
  the argument: the wrapper is the last file to go (`WrapperStays`), so that a host
  without files has nothing left that the query could miss; and nothing but the
  autostart unit adds anything to a host, which marks the run as disturbed
  (`Shrinks`).
- `CleanTypes`: every reachable state is well typed.

### `DeploymentProofs` (3076 obligations)

Each of the four runs through the 34 steps of `Steps`; `Past(s)` says that the run
is past step `s`, and the lemmas `ChecksGo` and `OthersGo` list, once for all
proofs, which action goes on from which place.

- `AskedIsDone`: `SuccessIsAsked`, also for runs that resume at a failed step.
  `AskedInv` accounts for every option from the step that reads it to the end: what
  the configuration holds, and the database that was built from it (`Configured`);
  what is in the SPFILE and takes effect with the restart (`Spoken`); what was made
  by SQL (`Created`); what a reboot needs (`Startable`).  It holds between runs as
  well, since a resumed run starts with what the failed one left.  For the
  entries of `/etc/hosts` there is `Named`: a full run knows its VIPs from C-009 on,
  what it knows is on every host from C-010 on, and in mode vip C-014 lets nobody
  through without one.  A run taken up at C-010 in another mode knows none
  (`KnowsVIPs`, section 6).
- `DatabasesSurvive`: `RunningDatabaseSurvives`.  The invariant `KeepInv` says that
  a full run which has found a running database does not get past C-002 (`Survives`);
  before C-002 no step touches a data directory, and further on only a forced run
  empties one (`DataStands`).
- `AddressesAreFree`: `AddressesFree`.  `AddressInv` follows the parameters from C-001
  on: every host is on the interconnect (`Connected`), VIPs and SCAN address are those
  of the command line until their step (`Given`), and then these or fresh
  (`FreshVIPs`, `FreshSCAN`).  Below it are lemmas about
  `ClusterNetwork`.  `ChooseVIPs` is declared as the assignment in which each VIP is
  the result of the search after its host's address, given those before it;
  that there is one (`ChoiceExists`) is shown by the least number of hosts for
  which there would be none, not by induction over a recursive definition.
- `ForceRecovers`: `ForcedRunRecovers`.  `ForcedInv` says of a forced run that has
  lost nothing what the rest of it relies on (`Relies`: the processes are down, the
  stage is there, the software is linked on every host, the database runs ...).
  The lemmas `Forced...Advance` show that each step hands this on, and the lemmas
  `Forced...Fail` that no step of such a run has a reason to fail.

### `OMMigrateProofs` (2116 obligations)

- `PromotionIsSafe`: `PromotionLosesNothing`.  Everything that ever happens to the
  two OMs is put into one lemma (`StepsOnOMs`), so that the promotion of O-006 is
  the only step that matters; `MigrateInv` says what the flag `synced` is worth from
  O-004 to O-006 of the same run: the new host has as much as the current one,
  because in between nothing but the arrival of more metadata happens.
- `MetadataIsKept`, `OnePrimaryRuns`: `MetadataSurvives` and `StepsKeepOnePrimary`, for
  the step lists that the properties name (`StopsFirst`, `Guarded`).  `HistoryInv` is
  what the run has behind it: the current host is still the primary that the gate
  met (`GatePassed`), it is stopped before the promotion (`StopPassed`), the new host
  is the primary once OM Sync was passed (`SyncPassed`), and it is a secondary when
  the rollback finds O-004 as the last success (`SecondaryStands`); and a primary's
  metadata are never older than the other's (`Copies`).
- `RerunsComplete`: `RerunCompletes`.  From each of the three situations an earlier run
  can leave - not begun, stopped with a synced secondary, done - `CalmInv` says
  what every step of an undisturbed run finds (`Ready`), and that none refuses it.

### `StandbyProofs` (2406 obligations)

- `PrimaryIsSafe`: `PrimarySurvives`, which is inductive once the primary's host is
  known not to be among those E-010 has still to remove (`SurvivalInv`).
- `LiveFilesAreSafe`, `SuccessExpands`: `LiveFilesSurvive` and `SuccessIsExpanded`.
  Both rest on `ExpansionInv`: calls come in the order of the phases (`Orderly`), so
  that the ports which E-006 found free stay free until the call that fills the
  directories (`PortsFree`), and what E-017 verified is not taken back by anything
  after it but a clean-up (`Verified`).
- `RetriesComplete`: `RetryCompletes`.  `CalmInv` says what an undisturbed repetition
  with `-F` finds at each landmark of its calls: the primary is up and replicates
  (`Powered`), the targets are vacant after E-010 (`Vacant`), the stage names exactly
  them (`Chosen`, `Staged`), they have an instance after E-013 (`Added`).

### `ProductsProofs` (1766 obligations)

- `TypeCorrect`, and `OthersAreKept`, an action property.  It needs the invariant
  `Seen`: when a directory has been looked at and holds something foreign all the
  same, that look had no answer or the files came after it.  `NextSeen` preserves
  it, `YMPKeepsOthers` and `ForeignHomeKept` take the two kinds of homes apart.
- `InstalledOnSuccess`, `CleanIsAWayOut`, `ForceIsAWayOut`: none of the three is
  inductive, because each speaks of the end of a command.  The invariant `Along`
  (`YCMAlong` and `YMPAlong`) says what a command may rely on when it has come to
  its n-th step: what the steps before it have put in the home, set up and
  started.  `NextAlong` preserves it step by step, and at the last step it gives
  the property.  Strangers and unanswered questions are in `lost`; restarts come
  between runs.

### Model-checked only

The liveness properties, those of `PlanRun` among them: liveness and anything that
needs ENABLED is beyond the prover.  Every invariant and action property of the
passing runs is a theorem.
`ConnectivityFailureIsReported` does not hold (section 6).

## 6. Where code and documents disagree

One has a run whose counterexample shows it; the quotes are in `PROJECT.json`.
`db.go:488` sets a `precheckFailed` that is another variable than the one the exit
status is computed from: a precheck with an unfit host exits with 0
(`DBInstallExit`).

The rest was seen while modelling and is in the models, as the code has it, but
without a run of its own.

- *Commands.*  `executor.go:757` calls `cmd.Wait` before the pumps are done: the
  last lines of a local command, or all of them, may be lost, and the log then
  says "(empty)" of a command that wrote (`WaitReturnsLocal`).
- *Rollback.*  `standby.go:1513` runs the rollback of an OM migration under
  `--dry-run`; `om_rollback.go:52` starts the old primary when the promotion took
  effect but was reported as failed, and two primaries run.
- *E-018.*  `standby_ce_path.go:517` forms the clean-up set from a baseline that
  is empty when the one group status of `EnsureStandbyCEPath` had no answer: the
  clean-up of a failed expansion then also names standby groups that were there
  before, which `README.md:152` of the repository says are protected.
- *Progress.*  With C-001 in the list, as in every full `yinstall db`, the last index
  stays below the total: `db.go:433-445` counts C-001, a required step, into the
  denominator, and `db.go:553` takes it out of the loop, so that nobody claims its
  slot, against `step.go:83`, where the total is that of the steps to run
  (`ProgressComplete` has the difference as `around.c001`).
- *Packages.*  An absolute path found on the host is used without the comparison
  with the local copy that `file.go:107` promises (`file.go:72-76`), also when it is
  the rest of an upload that the automatic search came across and the control
  machine has a whole copy under the same path or name (`Unchecked`, excepted by
  name in `NamedPackageIsWhole` and `ForcedRunRecovers`).  A package that the search
  found in a relative `-L` directory (`file.go:352`) is joined with the `-L`
  directories a second time (`file.go:84-92`) and then not found, unless the
  joined path exists too, as it does when "." is among them (`Offered`): a run
  fails although it has just seen the package, and `-F` does not help.  A stage whose
  unpacking was interrupted late is taken for complete
  (`db_extract_package.go:85` against the comment at line 73).
- *Install.*  A precheck whose B-001 fails on every host indexes an empty list
  (`db.go:614`, `exit = "panic"` in `DBInstall`).  Progress indices pass the total
  when `-s` leaves out B-001, and an Optional step that only a later host runs is
  not counted (`os.go:217`, `runner_host.go:288`).  The executors opened before a
  failing target are never closed (`runner_host.go:126`); `prepareStandbyNodes`
  does the same.
- *OM migration, lists with steps left out.*  With `-e O-005` the promotion leaves two
  primaries running; and when it took effect but was reported as failed, the last
  success is still O-004, so that the rollback takes the new primary for the
  secondary of O-004 and cleans it, the newest metadata with it
  (`RollbackSecondary`).  `StopsFirst`, the condition of `StepsKeepOnePrimary` and
  `MetadataSurvives`, excludes these lists.
- *OM migration.*  The rollback cleans the synced secondary when a stop took
  effect but was reported as failed (`om_rollback.go:43`, the step
  `RollbackSecondary` with the primary down); `EnsureSecondaryYasom` cleans a
  primary it was to refuse when the status query has no answer
  (`om_ensure_secondary.go:24`, `EnsureCleanAgain` after `EnsureBlindly`).
- *E-010.*  When the second status query has no answer, or a failed leftover
  stands at the begin-port, `host remove -f` takes the whole host, with a live
  standby on another port (`FindExisting`, `Reuse`; lines 254 and 255 of
  `standby_check_and_cleanup_existing_nodes.go`).  A removal that was only
  requested counts as done when the queries after it have no answer
  (`RemovalUnseen`).
- *E-010 to E-017.*  With one reused and one new target on SE, only the first
  reused host-id goes on: E-011 puts every new instance on that host, E-012 is
  skipped, and only E-017 notices (`OnOneHost`, `AddHosts`).  E-014 on SE counts
  the standby rows of the targets' hosts at any port (`Synced`).
- *E-013.*  Its "...toml not found" error is not one of those that
  `precheck_upstream_skip.go:29` recognises, so a first `--precheck` or
  `--dry-run` of a complete plan ends there with an error (`NothingToAdd`).
- *E-018.*  Listed after a *successful* run with `-F` or the clean-up flag, it
  names and removes the new, healthy CE group, although the flag's help
  (`standby.go:330`) says "On expansion failure" (`CleanupFailed`).  Run alone
  later, it takes its baseline anew, and a group that shows up as a standby group
  is then protected instead of cleaned (`ResolvePath`, `Selected`).
- *E-004.*  A `cluster start` that fails after `cluster stop` leaves the primary
  down (`StartCluster`, `StepFails`); the operator has to start it.
- *YMP and YCM, questions without an answer.*  A `find` that fails is an empty list
  (`env.go:487-490`), so that the refusal to delete foreign files does not take
  place, and the `rm -rf` after it is a remote command of its own
  (`ymp_check_install_dir.go:147-163`, `clean_ymp.go:142-148`): what somebody puts
  there in between goes too.  `OthersKept` has both as its exception (`unseen`, `late`).
  The gates H-001, H-002 and G-001 let an install pass when their queries have no
  answer (`PassBlind`).
- *YMP.*  `clean --ymp-port` looks in `/opt/ymp_<port>` (`clean.go:319`), an install
  with that port goes to `/opt/ymp<port>` (`ymp.go:436`): the clean finds `ymp.env`,
  touches nothing of the instance and reports success.  A second instance of
  the same user is always "already installed" (`ymp_install_ymp.go:25`); `grep -F
  /opt/ymp` matches `/opt/ymp<port>` too (`env.go`, `Mentions`); a user that
  `useradd` made and `passwd` did not is never given its password
  (`ymp_create_user.go:20`); `clean --type ymp` fails when the user does not exist.
- *YCM.*  A `ycm-init` left beside the home makes foreign content pass as YCM, and
  `-f G-003` deletes it (`ycm_check_preinstall.go:211`, `LooksLikeYCM`); clean
  deletes an install directory of its own with whatever others have put there
  (`ycm_layout.go:151`); after a clean without privileges the unit stays active,
  a second clean is skipped and the install goes on refusing (`clean_ycm.go:37`);
  results of `systemctl` are ignored (`ycm_config_autostart_service.go:255`), and so
  is a `sed` that fails to set a port (`ycm_configure_ports.go:127-139`): an
  install ends well as long as the Web port is right.
- *Clean of a database.*  A `--clean-yac-disks` run that was interrupted after the
  directories were gone is refused ever after (`clean_env.go:229`, the exception in
  `RetryCompletes`); a failing `rm -rf` is a warning (`clean_db.go:177`); the disks
  are wiped in the first host's turn, while the second still runs
  (`clean_db_steps.go:445`).  A clean without `--targets` has the target "localhost"
  (`clean.go:73-77`), which `clean_db_detach_standby.go:83-88` compares literally
  with listen addresses (`468-480`, `498-557`): a running primary is then "not
  listed" (`166-170`) and wiped without `--force-clean-primary`, against `clean.go:53`
  ("primary targets require --force-clean-primary"); so is any target given by name
  (`opt.named`, excepted in `WipeNeedsConsent`).  On port 1688, where the search by
  port is disabled, a process that shows neither a directory nor the cluster's
  name is found neither by the kill nor by the final check, and the clean ends
  well with it (`clean_db.go:105-111`; `lay.mute`, excepted in `SuccessIsClean`).  A neighbour whose name begins with the cluster's loses
  its agents (`clean_db.go:51`, against the comment above it); the unit of port
  1688 is never removed.
- *Disks.*  B-021 matches by path and size whenever matching by WWID finds nothing
  (`os_auto_discover_shared_disks.go:311`), not only where WWIDs are unreliable, as
  the comment at line 295 has it: the local disks of two hosts that share none are
  taken for shared ones if they have one name and one size (the condition
  `SeenByAll # {}` of `DiscoveryIsSound`); C-012 refuses them under the multipath
  policy.  Two paths to a LUN put it in two groups (`os_auto_discover_shared_disks.go:342`,
  the condition `IsInjective` of `DiscoveryIsSound`); for NVMe the WWN is compared
  across hosts only when multipathing is needed (`db_disk_check.go:72`, the
  condition `policy.need` of `DeploymentIsSound`); an unforced rerun after a run for
  other disks may meet their maps (`run = 1 \/ opt.force`); where all WWIDs are
  equal, the entries of `multipath.conf` name one WWID and a map is whichever disk
  comes first (`lay.reliable`), and `/dev/yfs` names given on the command line are
  taken for what they are linked to; the policy that holds for all is that of the
  last host (`os_validate_yac_diskgroups.go:167`).
- *Database steps.*  A disk group that exists ends C-023, whether the archive
  destination was set or not (`db_create_archdg.go:75`); C-029 fails on policies
  that exist (`db_configure_unified_audit.go:146`); a PreCheck error of the Optional
  C-010 and C-011 skips the step instead of reporting the conflict
  (`db_write_hosts.go:29`, `db_scandns_check.go:120`), and entries of an earlier run
  stay in `/etc/hosts`; a run taken up at C-010 without `--yac-vips` does not know the
  VIPs that C-009 chose in the run before, writes none (`db_write_hosts.go:48-49`)
  and, in scan mode, ends well (`KnowsVIPs`, excepted in `SuccessIsAsked`), and it may pick
  one of them as its SCAN address, if nobody answers to it yet; next to another database the unit of port 1688 is started
  with a file nobody writes (`autostart.go:165`); the TPCC settings keep a database
  with small redo files from starting again (`Bootable`); a failing `sed` of C-020
  is only logged (`db_tune_yfs_params.go:65`).  What is passed over sets `swallowed`,
  which `SuccessIsAsked` excepts.

## 7. What is not modelled

- Text: console formatting, log file names, command-line quoting, parsing of
  yasboot tables and TOML files, argument validation.
- What the hosts do with a command, beyond the effects the steps look for.
- The B-* steps other than the disks (users, limits, kernel parameters, packages,
  time, firewall) and the R-* steps: single calls in the phase models.  The R-*
  steps gather files and change no host.
- Of C-*: shared memory checks (`db_gen_config.go`), the replication addresses in
  the TOML, password files, and the comparison of the hosts' identities.
- Of YCM and YMP: unanswered queries other than those of G-001, H-001, H-002 and the
  clean of YMP; several hosts, and the operating system steps in front.  The
  package path that the first host leaves in shared parameters
  (`ycm_extract_package.go:70`) is therefore not seen.
- `yinstall stressos` and the load generators behind it; connecting with its
  retries and fallbacks, which has no state but the connection; previews of
  `Deployment`, `CleanDB` and `Products`.
- Of `yinstall standby`: how hosts, credentials and path parameters are
  resolved, the disk group probing, the fields patched into the TOML files, and
  more than one new instance per target.
- Whether executors are closed on every path, and the display numbers that later
  hosts take over from the first: both are in `HostPhases`, neither is stated as
  a property.
- `RunEmbeddedSteps`: it has no caller; `ymp_cleanup.go`: it is in no registry.

## 8. The plan

1. Proofs: that the log account of `CommandStream` equals the result of a remote
   command, for any number of lines; what
   `DeploymentIsSound` still promises where WWIDs cannot be told apart.
2. `Deployment` with the identity comparison and the password files; several hosts
   in `Products`.
3. `ConnectRetry` - `createExecutor`, methods, dials and back-off; liveness: gives
   up after finitely many dials and leaves no client open.
4. Abstract specifications: *handover* (a primary role moves, at most one holder
   acts, nothing is lost), implemented by the steps of `OMMigrate` without its
   rollback; *artefact chain* (each step's input is some earlier step's output),
   implemented by `Deployment` and by E-011 to E-014 of `Standby`.

A dozen runs is about what a reader can keep apart.  A new module takes the place
of properties that a theorem has made superfluous.

## 9. How to run it

In this directory, with TLC and TLAPS installed and the community modules on
the library path:

    tlc -workers 2 -config MCStepRunner.cfg MCStepRunner.tla
    tlc -workers 2 -config DBInstallExit.cfg MCDBInstall.tla     # a violation
    tlapm StepRunnerProofs.tla

The configurations named `MC*.cfg` must pass; `DBInstallExit.cfg` states one
property and ends with a counterexample.  The longest take three minutes
(`Products`, 13.8 million states) and one (`CleanDB`, 8.9 million), most under
fifteen seconds; `tlapm` needs a few minutes for
`ProductsProofs`.
