---------------------------- MODULE PackageStage ----------------------------
(***************************************************************************)
(* Step C-007 "Extract Package" (steps/db/db_extract_package.go) over      *)
(* several runs of yinstall db, with the search and distribution of the    *)
(* package (common/file/file.go) and the upload (ssh/upload.go).           *)
(*                                                                         *)
(* Any run may be interrupted, or fail, between two effects on the host;   *)
(* what it leaves behind - half an upload, half a stage directory - is     *)
(* what the next run finds.  A package is its version; a file on the host  *)
(* is absent, shorter than the original, or whole.  The control machine    *)
(* holds whole files.                                                      *)
(***************************************************************************)
EXTENDS Naturals, FiniteSets

CONSTANTS Versions,              \* package versions, naturals
          Runs                   \* bound on the runs of the command

ASSUME VersionsAssumption == Versions \subseteq Nat \ {0} /\ IsFiniteSet(Versions)
ASSUME RunsAssumption == Runs \in Nat \ {0}

VARIABLES local,                 \* versions in the -L directories
          reached,               \* the control machine has the very path that is named
          there,                 \* what the host has at a path outside the two directories
          remote,                \* the package files on the host
          stage,                 \* the stage directory
          run,                   \* number of the current run
          pc,                    \* where the run is
          asked,                 \* --db-package: "auto" or a package
          force,                 \* C-007 is among the forced steps
          package,               \* the parameter db_package
          source,                \* the host path FindAndDistribute returned
          skipped,               \* the Action found the stage complete
          disturbed,             \* something failed or was interrupted in this run
          outcome                \* of the step in this run

stageVars == <<local, reached, there, remote, stage, run, pc, asked, force, package, source,
          skipped, disturbed, outcome>>
host == <<local, reached, there, remote, stage>>

SoftDir == "soft"                \* --remote-software-dir, default /data/yashan/soft
HomeDir == "home"                \* $HOME of the login user
Dirs == {SoftDir, HomeDir}
Sizes == {"none", "part", "whole"}

(* How a package may be named: an absolute path in one of the two          *)
(* directories of the host or another one, which either machine may have;  *)
(* a relative path; or a bare file name.                                   *)
OtherDir == "other"
AbsoluteDirs == Dirs \cup {OtherDir}
Packages == [at : AbsoluteDirs \cup {"relative", "name"}, ver : Versions]
NoPackage == [at |-> "unset", ver |-> 0]
Unspecified == [at |-> "auto", ver |-> 0]

(* The two members of the archive the step looks for. *)
Members == {"yasboot", "database"}
EmptyStage == [files |-> {}, whole |-> {}, ver |-> 0, owned |-> FALSE]
Complete(v) == stage = [files |-> Members, whole |-> Members, ver |-> v, owned |-> TRUE]

StageInit ==
    /\ local = {}
    /\ reached = FALSE
    /\ there = "none"
    /\ remote \in [Dirs -> [Versions -> {"none", "whole"}]]
    /\ stage = EmptyStage
    /\ run = 0
    /\ pc = "idle"
    /\ asked = NoPackage
    /\ force = FALSE
    /\ package = NoPackage
    /\ source = NoPackage
    /\ skipped = FALSE
    /\ disturbed = FALSE
    /\ outcome = "none"

(* The operator starts yinstall (again), perhaps on another control        *)
(* machine.  An absolute path may exist there, on the host, or on both; a  *)
(* relative one is found or not below one of the -L directories (a package *)
(* that the search names absolutely exists).                               *)
Start ==
    /\ pc = "idle"
    /\ run < Runs
    /\ run' = run + 1
    /\ pc' = "discover"
    /\ local' \in SUBSET Versions
    /\ \E p \in Packages \cup {Unspecified} :
          /\ asked' = p
          /\ there' \in IF p.at \in {OtherDir, Unspecified.at} THEN Sizes ELSE {"none"}
          /\ reached' \in IF p.at = "name" THEN {FALSE} ELSE BOOLEAN
    /\ force' \in BOOLEAN
    /\ package' = NoPackage
    /\ source' = NoPackage
    /\ skipped' = FALSE
    /\ disturbed' = FALSE
    /\ outcome' = "running"
    /\ UNCHANGED <<remote, stage>>

End(o) == outcome' = o /\ pc' = "idle"

-----------------------------------------------------------------------------
(* FindLatestDBPackage: every package of this architecture in the -R       *)
(* directory and in $HOME by its path, and those of the -L directories by  *)
(* the directory as it is listed joined with the file name: "." leaves the *)
(* bare name, "./pkg" a relative path.                                     *)
FoundOnHost == {p \in Packages : p.at \in Dirs /\ remote[p.at][p.ver] # "none"}

Hits == {p \in Packages : /\ p.at \in {OtherDir, "relative", "name"}
                          /\ p.ver \in local
                          /\ p.at = OtherDir => reached}

Found == FoundOnHost \cup Hits

(* The order in which the candidates are collected. *)
Rank(p) == CASE p.at = SoftDir -> 1 [] p.at = HomeDir -> 2 [] OTHER -> 3

(* findLatestVersion: the highest version, and among equals the first one  *)
(* collected (sort.Slice keeps the order of up to twelve candidates).      *)
Latest(S) == {p \in S : \A q \in S : q.ver < p.ver \/ (q.ver = p.ver /\ Rank(p) <= Rank(q))}

DiscoverHostFirst ==                     \* mutant: -L is searched only if the host has nothing
    /\ pc = "discover"
    /\ \/ asked # Unspecified /\ package' = asked
       \/ asked = Unspecified /\ package' \in Latest(IF FoundOnHost = {} THEN Found ELSE FoundOnHost)
    /\ pc' = "precheck"
    /\ UNCHANGED <<host, run, asked, force, source, skipped, disturbed, outcome>>

Discover ==
    /\ pc = "discover"
    /\ \/ asked # Unspecified /\ package' = asked
       \/ asked = Unspecified /\ package' \in Latest(Found)
    /\ pc' = "precheck"
    /\ UNCHANGED <<host, run, asked, force, source, skipped, disturbed, outcome>>

NothingDiscovered ==
    /\ pc = "discover"
    /\ asked = Unspecified
    /\ Found = {}
    /\ End("failed")
    /\ UNCHANGED <<host, run, asked, force, package, source, skipped, disturbed>>

(* stageEmptyAndReady and stageVersionMatchesPackage: the presence of the  *)
(* two files, and the version in the name of the payload.                  *)
Empty == stage.files = {}
Ready == stage.files = Members /\ stage.ver = package.ver

PreCheckIgnoresForce ==                  \* mutant: a forced run is refused as well
    /\ pc = "precheck"
    /\ IF Empty \/ Ready
       THEN pc' = "action" /\ UNCHANGED outcome
       ELSE End("failed")
    /\ UNCHANGED <<host, run, asked, force, package, source, skipped, disturbed>>

(* precheckStageReadyForExtract *)
PreCheck ==
    /\ pc = "precheck"
    /\ IF Empty \/ force \/ Ready
       THEN pc' = "action" /\ UNCHANGED outcome
       ELSE End("failed")
    /\ UNCHANGED <<host, run, asked, force, package, source, skipped, disturbed>>

(* Action, first part: a forced step empties the stage. *)
CleanStage ==
    /\ pc = "action"
    /\ ~Empty
    /\ force
    /\ stage' = EmptyStage
    /\ pc' = "distribute"
    /\ UNCHANGED <<local, reached, there, remote, run, asked, force, package, source, skipped, disturbed, outcome>>

(* The removal itself is cut short: some of the files are gone. *)
CleanInterrupted ==
    /\ pc = "action"
    /\ ~Empty
    /\ force
    /\ \E left \in (SUBSET stage.files) \ {{}} :
          stage' = [stage EXCEPT !.files = left, !.whole = @ \cap left]
    /\ disturbed' = TRUE
    /\ End("failed")
    /\ UNCHANGED <<local, reached, there, remote, run, asked, force, package, source, skipped>>

KeepStage ==
    /\ pc = "action"
    /\ Empty
    /\ pc' = "distribute"
    /\ UNCHANGED <<host, run, asked, force, package, source, skipped, disturbed, outcome>>

(* Otherwise a stage that has both files is taken as it is; nothing else   *)
(* but the PostCheck follows, and it looks for yasboot only.               *)
SkipExtract ==
    /\ pc = "action"
    /\ ~Empty
    /\ ~force
    /\ Ready
    /\ skipped' = TRUE
    /\ End("ok")
    /\ UNCHANGED <<host, run, asked, force, package, source, disturbed>>

-----------------------------------------------------------------------------
(* FindAndDistribute and distributeLocalFile *)

Absolute(p) == p.at \in AbsoluteDirs

(* What the host has under an absolute path. *)
SizeOf(p) == IF p.at \in Dirs THEN remote[p.at][p.ver] ELSE there

(* The control machine has the package by the name it was given.  The hit  *)
(* of a search in a relative -L directory is joined with the directories   *)
(* once more, and there again only if "." is one of them.                  *)
Offered == IF package.at = "name" THEN package.ver \in local ELSE reached

(* The first existing one of distributeRemoteCandidates. *)
Existing == CASE remote[SoftDir][package.ver] # "none" -> {SoftDir}
              [] remote[HomeDir][package.ver] # "none" -> {HomeDir}
              [] OTHER -> {}

(* remoteFileNeedsReplace: the sizes differ. *)
NeedsReplace(d) == Offered /\ remote[d][package.ver] # "whole"

(* An absolute path is tried on the host before anything else. *)
OnHost == Absolute(package) /\ SizeOf(package) # "none"

UseFirstExisting ==                      \* mutant: the candidate's size is not compared
    /\ pc = "distribute"
    /\ \/ OnHost /\ source' = package
       \/ /\ ~OnHost
          /\ package.at = "name" \/ Offered
          /\ \E d \in Existing : source' = [at |-> d, ver |-> package.ver]
    /\ pc' = "extract"
    /\ UNCHANGED <<host, run, asked, force, package, skipped, disturbed, outcome>>

(* A path found on the host is used as it is; the file that has the name   *)
(* there is used unless its size differs from the local file.              *)
UseExisting ==
    /\ pc = "distribute"
    /\ \/ OnHost /\ source' = package
       \/ /\ ~OnHost
          /\ package.at = "name" \/ Offered
          /\ \E d \in Existing :
                /\ ~NeedsReplace(d)
                /\ source' = [at |-> d, ver |-> package.ver]
    /\ pc' = "extract"
    /\ UNCHANGED <<host, run, asked, force, package, skipped, disturbed, outcome>>

(* Not where its name says, on either machine; only a bare name is looked  *)
(* for in the host's directories without a local file.                     *)
NotFound ==
    /\ pc = "distribute"
    /\ ~OnHost /\ ~Offered
    /\ package.at = "name" => Existing = {}
    /\ End("failed")
    /\ UNCHANGED <<host, run, asked, force, package, source, skipped, disturbed>>

(* uploadLocalToRemote goes to the -R directory.  EnsureDir may fail; SFTP *)
(* creates the file, over whatever is there, before it copies.             *)
UploadBegins ==
    /\ pc = "distribute"
    /\ ~OnHost /\ Offered
    /\ \A d \in Existing : NeedsReplace(d)
    /\ pc' = "sftp"
    /\ UNCHANGED <<host, run, asked, force, package, source, skipped, disturbed, outcome>>

Write(size) == remote' = [remote EXCEPT ![SoftDir][package.ver] = size]

(* The copy in progress, as far as another run could see it. *)
UploadWrites ==
    /\ pc \in {"sftp", "scp"}
    /\ remote[SoftDir][package.ver] # "part"
    /\ Write("part")
    /\ UNCHANGED <<local, reached, there, stage, run, pc, asked, force, package, source, skipped, disturbed, outcome>>

UploadDone ==
    /\ pc \in {"sftp", "scp"}
    /\ remote[SoftDir][package.ver] = "part"
    /\ Write("whole")
    /\ source' = [at |-> SoftDir, ver |-> package.ver]
    /\ pc' = "extract"
    /\ UNCHANGED <<local, reached, there, stage, run, asked, force, package, skipped, disturbed, outcome>>

(* SFTP fails, at any point of the copy: SCP is tried once. *)
SFTPFails ==
    /\ pc = "sftp"
    /\ pc' = "scp"
    /\ UNCHANGED <<host, run, asked, force, package, source, skipped, disturbed, outcome>>

SCPFails ==
    /\ pc = "scp"
    /\ disturbed' = TRUE
    /\ End("failed")
    /\ UNCHANGED <<host, run, asked, force, package, source, skipped>>

-----------------------------------------------------------------------------
(* tar, chown, payload check, PostCheck *)

(* tar creates a member and then fills it, in the order of the archive. *)
TarCreates ==
    /\ pc = "extract"
    /\ stage.files = stage.whole
    /\ \E m \in Members \ stage.files :
          stage' = [stage EXCEPT !.files = @ \cup {m}, !.ver = source.ver]
    /\ UNCHANGED <<local, reached, there, remote, run, pc, asked, force, package, source, skipped, disturbed, outcome>>

(* A file that ends early has no end of the archive: its last member stays *)
(* short at best.                                                          *)
TarFills ==
    /\ pc = "extract"
    /\ stage.files # stage.whole
    /\ SizeOf(source) = "whole" \/ stage.files # Members
    /\ stage' = [stage EXCEPT !.whole = stage.files]
    /\ UNCHANGED <<local, reached, there, remote, run, pc, asked, force, package, source, skipped, disturbed, outcome>>

TarDone ==
    /\ pc = "extract"
    /\ stage.whole = Members
    /\ pc' = "chown"
    /\ UNCHANGED <<host, run, asked, force, package, source, skipped, disturbed, outcome>>

TarErrorIgnored ==                       \* mutant: Execute in place of ExecuteWithCheck
    /\ pc = "extract"
    /\ SizeOf(source) = "part"
    /\ pc' = "chown"
    /\ UNCHANGED <<host, run, asked, force, package, source, skipped, disturbed, outcome>>

(* "unexpected end of file": ExecuteWithCheck returns the error of tar. *)
TarHitsEnd ==
    /\ pc = "extract"
    /\ SizeOf(source) = "part"
    /\ End("failed")
    /\ UNCHANGED <<host, run, asked, force, package, source, skipped, disturbed>>

Chown ==
    /\ pc = "chown"
    /\ stage' = [stage EXCEPT !.owned = TRUE]
    /\ pc' = "verify"
    /\ UNCHANGED <<local, reached, there, remote, run, asked, force, package, source, skipped, disturbed, outcome>>

(* The payload file, then in the PostCheck yasboot, by their presence. *)
Verify ==
    /\ pc = "verify"
    /\ End(IF stage.files = Members THEN "ok" ELSE "failed")
    /\ UNCHANGED <<host, run, asked, force, package, source, skipped, disturbed>>

(* Another failure of a command, a lost connection or Ctrl-C: the run ends *)
(* and the host keeps what it has.                                         *)
Interrupted ==
    /\ pc # "idle"
    /\ disturbed' = TRUE
    /\ End("failed")
    /\ UNCHANGED <<host, run, asked, force, package, source, skipped>>

(* Between runs the operator deletes a package from the host. *)
OperatorDeletes ==
    /\ pc = "idle"
    /\ run < Runs
    /\ \E d \in Dirs, v \in Versions :
          /\ remote[d][v] # "none"
          /\ remote' = [remote EXCEPT ![d][v] = "none"]
    /\ UNCHANGED <<local, reached, there, stage, run, pc, asked, force, package, source, skipped, disturbed, outcome>>

Finished ==
    /\ pc = "idle"
    /\ run = Runs
    /\ UNCHANGED stageVars

StageNext ==
    \/ Start \/ Discover \/ NothingDiscovered \/ PreCheck
    \/ CleanStage \/ CleanInterrupted \/ KeepStage \/ SkipExtract
    \/ UseExisting \/ NotFound \/ UploadBegins \/ UploadWrites \/ UploadDone
    \/ SFTPFails \/ SCPFails
    \/ TarCreates \/ TarFills \/ TarDone \/ TarHitsEnd
    \/ Chown \/ Verify
    \/ Interrupted \/ OperatorDeletes \/ Finished

StageSpec == StageInit /\ [][StageNext]_stageVars

-----------------------------------------------------------------------------
StageTypeOK ==
    /\ local \subseteq Versions
    /\ reached \in BOOLEAN /\ there \in Sizes
    /\ remote \in [Dirs -> [Versions -> Sizes]]
    /\ stage \in [files : SUBSET Members, whole : SUBSET Members,
                  ver : Versions \cup {0}, owned : BOOLEAN]
    /\ stage.whole \subseteq stage.files
    /\ run \in 0..Runs
    /\ pc \in {"idle", "discover", "precheck", "action", "distribute", "sftp", "scp",
               "extract", "chown", "verify"}
    /\ asked \in Packages \cup {Unspecified, NoPackage}
    /\ package \in Packages \cup {NoPackage}
    /\ source \in [at : AbsoluteDirs, ver : Versions] \cup {NoPackage}
    /\ {force, skipped, disturbed} \subseteq BOOLEAN
    /\ outcome \in {"none", "running", "ok", "failed"}

(* The file to unpack was taken from the host by its path, which is done   *)
(* without a look at the control machine, and it is not a whole one.       *)
Unchecked == Absolute(package) /\ source = package /\ SizeOf(source) # "whole"

(* What a package is worth that the control machine has: the file that is  *)
(* unpacked is whole, whatever earlier interrupted uploads have left on    *)
(* the host, unless the host already had something at the very path.       *)
NamedPackageIsWhole ==
    pc = "extract" /\ Offered /\ ~Unchecked => SizeOf(source) = "whole"

(* Without --db-package the newest version in reach is installed, wherever *)
(* it is and whatever this run does to the host afterwards.                *)
NewestIsChosen ==
    asked = Unspecified /\ pc \notin {"idle", "discover"} =>
        \A v \in Versions :
            v \in local \/ (\E d \in Dirs : remote[d][v] # "none") => v <= package.ver

(* A run that unpacks and reports success has left a whole stage of the    *)
(* version it was given, owned by the product user: a short package or a   *)
(* failure on the way never passes for success.                            *)
ExtractedIsComplete ==
    outcome = "ok" /\ ~skipped => Complete(package.ver)

(* Nothing that is in the stage is removed by a run that was not told to:  *)
(* only a forced C-007 empties it.                                         *)
OnlyForceEmptiesStage ==
    [][~(stage.files \subseteq stage'.files) => force]_stageVars

(* The way out of every half-done state: a forced run on a control machine *)
(* that has the package succeeds if nothing goes wrong in that run, and    *)
(* leaves a complete stage, unless the host had a short file at the very   *)
(* path.                                                                   *)
ForcedRunRecovers ==
    pc = "idle" /\ outcome # "none" /\ force /\ ~disturbed
    /\ package # NoPackage /\ Offered /\ ~Unchecked
    => outcome = "ok" /\ Complete(package.ver)

(* The inductive invariant behind ExtractedIsComplete, NamedPackageIsWhole *)
(* and ForcedRunRecovers: what each point of a run may rely on.            *)
Running == pc # "idle"

RunInv ==
    /\ stage.files = {} => stage = EmptyStage
    /\ Running => /\ outcome = "running"
                  /\ ~skipped
                  /\ ~disturbed
                  /\ asked \in Packages \cup {Unspecified}
    /\ pc = "discover" => package = NoPackage
    /\ Running /\ pc # "discover" => package \in Packages
    /\ pc \in {"distribute", "sftp", "scp"} => stage = EmptyStage
    /\ pc \in {"sftp", "scp"} => Offered
    /\ pc \in {"extract", "chown", "verify"} =>
          source \in [at : AbsoluteDirs, ver : {package.ver}]
    /\ pc = "extract" => /\ ~stage.owned
                         /\ stage.files # {} => stage.ver = package.ver
                         /\ Offered /\ ~Unchecked => SizeOf(source) = "whole"
    /\ pc = "chown" => stage = [files |-> Members, whole |-> Members,
                                ver |-> package.ver, owned |-> FALSE]
    /\ pc = "verify" => Complete(package.ver)
    /\ ~Running => outcome # "running"
    /\ ~Running /\ outcome = "ok" => IF skipped THEN ~force ELSE Complete(package.ver)
    /\ ~Running /\ outcome = "failed" => ~(force /\ ~disturbed /\ Offered /\ ~Unchecked /\ package # NoPackage)
=============================================================================
