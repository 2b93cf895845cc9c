-------------------------------- MODULE YCM --------------------------------
(***************************************************************************)
(* YCM on the host: the steps G-001 to G-011 of internal/steps/ycm and     *)
(* "clean --type ycm".  The install directory is /opt, which others use    *)
(* too, or one of its own; below it the home "ycm" and, in some packages,  *)
(* ycm-init beside it.  External: the package, ycm-init and systemd.       *)
(***************************************************************************)
EXTENDS ProductRun

CONSTANT Layouts                 \* how YCM lies on the disk

(* own: the install directory is not /opt; split: ycm-init beside the home.*)
ASSUME LayoutsAssumption == \A l \in Layouts : l \in [{"own", "split"} -> BOOLEAN]

(* files: anything unpacked; deploy: etc/deploy.yml or ycm-init inside;    *)
(* meta: what the deployment leaves; foreign: files of somebody else.      *)
VARIABLES lay,                   \* one of Layouts
          ycmHome, beside,       \* what lies in the home and in the install directory
          unit,                  \* none, idle or active (it remains so after its start)
          ycmUp,                 \* web: the Web port is open, back: any other process
          ready                  \* set up since the package was unpacked

ycmVars == <<lay, ycmHome, beside, unit, ycmUp, ready>>
Things == {"foreign", "files", "deploy", "meta"}

YCMInit ==
    /\ lay \in Layouts
    /\ ycmHome \in {{}, {"foreign"}} /\ beside \in (IF lay.own THEN {{}, {"foreign"}} ELSE {{}})
    /\ unit = "none" /\ ycmUp = {} /\ ready = {}

-----------------------------------------------------------------------------
(* G-001: ports, processes and the unit are never forced, nor is a home    *)
(* that does not look like YCM; one that does is, with -f G-003.  Without  *)
(* an answer nothing is there.                                             *)
LooksLikeYCM == "deploy" \in ycmHome \/ "init" \in beside
PreinstallNeverForced(wipe) ==           \* mutant: -f G-003 is not asked for
    ycmUp # {} \/ unit = "active" \/ ycmHome # {}
PreinstallBlocked(wipe) ==
    \/ ycmUp # {}
    \/ unit = "active"
    \/ ycmHome # {} /\ ~(LooksLikeYCM /\ wipe)

CheckPreinstall ==
    /\ At("ycm", "preinstall") /\ UNCHANGED ycmVars
    /\ IF PreinstallBlocked(Has("wipe")) THEN Fail ELSE Pass

CheckPreinstallUnanswered ==
    /\ At("ycm", "preinstall") /\ UNCHANGED ycmVars
    /\ PreinstallBlocked(Has("wipe")) /\ PassBlind

(* G-002: optional, skipped when everything is there; no later step looks  *)
(* for the packages.                                                       *)
InstallYCMDeps == At("ycm", "deps") /\ Pass /\ UNCHANGED ycmVars

(* G-003: -f deletes the home without another look; then tar or unzip,     *)
(* perhaps not to its end.                                                 *)
Unpacked == {"files", "deploy"}
KeptHome == IF Has("wipe") THEN {} ELSE ycmHome
InitInside == IF lay.split THEN {"deploy"} ELSE {}    \* mutant: ycm-init under a wrong name
InitFile == IF lay.split THEN {"init"} ELSE {}
ExtractPackage ==
    /\ At("ycm", "extract") /\ Pass
    /\ ycmHome' = KeptHome \cup Unpacked /\ beside' = beside \cup InitFile
    /\ ready' = ready \ {"owner", "webport", "ports"}
    /\ UNCHANGED <<lay, unit, ycmUp>>
ExtractCut ==
    /\ At("ycm", "extract") /\ Break
    /\ \E part \in {{}, {"files"}, Unpacked} :
          /\ ycmHome' = KeptHome \cup part
          /\ beside' \in {beside, beside \cup InitFile}
    /\ ready' = ready \ {"owner", "webport", "ports"}
    /\ UNCHANGED <<lay, unit, ycmUp>>

(* G-004, G-005, G-006; one sed for each port in deploy.yml, and the one   *)
(* for the Web port or another may fail with no more than a warning.       *)
SetOwnership ==
    /\ At("ycm", "owner") /\ Pass
    /\ ready' = ready \cup {"owner"} /\ UNCHANGED <<lay, ycmHome, beside, unit, ycmUp>>
CheckDeployConfig ==
    /\ At("ycm", "config") /\ UNCHANGED ycmVars
    /\ IF "deploy" \in ycmHome THEN Pass ELSE Fail
ConfigurePorts ==
    /\ At("ycm", "ports")
    /\ IF "deploy" \notin ycmHome THEN Fail /\ UNCHANGED ready
       ELSE \/ Pass /\ ready' = ready \cup {"webport", "ports"}
            \/ PassBadly /\ \E set \in {{}, {"webport"}, {"ports"}} : ready' = ready \cup set
    /\ UNCHANGED <<lay, ycmHome, beside, unit, ycmUp>>

(* G-007: ycm-init in the home or beside it.  It fails with some of the    *)
(* processes running or none.                                              *)
DeployYCM ==
    /\ At("ycm", "deploy")
    /\ IF "deploy" \notin ycmHome \/ (lay.split /\ "init" \notin beside)
       THEN Fail /\ UNCHANGED <<lay, ycmHome, ycmUp>>
       ELSE \/ Pass /\ ycmHome' = ycmHome \cup {"meta"}
               /\ ycmUp' = ycmUp \cup {"back"} \cup (IF "webport" \in ready THEN {"web"} ELSE {})
            \/ Break /\ ycmHome' = ycmHome \cup {"meta"} /\ ycmUp' \in {ycmUp, ycmUp \cup {"back"}}
    /\ UNCHANGED <<lay, beside, unit, ready>>

(* G-008, G-009, G-010: three attempts each; no HTTP probe without curl.   *)
VerifyYCMProcess ==
    /\ At("ycm", "process") /\ UNCHANGED ycmVars
    /\ IF ycmUp # {} THEN Pass ELSE Fail
VerifyYCMPorts ==
    /\ At("ycm", "listen") /\ UNCHANGED ycmVars
    /\ IF "web" \in ycmUp THEN Pass ELSE Fail
VerifyYCMWeb ==
    /\ At("ycm", "web") /\ UNCHANGED ycmVars
    /\ Pass \/ ("web" \notin ycmUp /\ Fail)

(* G-011: skipped without root; what systemctl says is not looked at.      *)
ConfigAutostart ==
    /\ At("ycm", "unit")
    /\ IF ~Has("root") THEN Pass /\ UNCHANGED unit
       ELSE \/ Pass /\ unit' = "active"
            \/ PassBadly /\ unit' = "idle"
    /\ UNCHANGED <<lay, ycmHome, beside, ycmUp, ready>>
-----------------------------------------------------------------------------
(* clean --type ycm: a directory of its own goes with all that is in it,   *)
(* unless only --ycm-home is named.                                        *)
WholeDir == lay.own /\ ~Has("home")
CleanTarget == ycmHome \cup (IF WholeDir THEN beside ELSE {})

CleanYCMProbe ==
    /\ At("cleanYCM", "probe") /\ UNCHANGED ycmVars
    /\ IF CleanTarget = {} THEN SkipAll ELSE Pass

UnitKept == unit                         \* mutant: the unit is not stopped
UnitAfterClean == IF Has("root") THEN "none" ELSE unit

(* Stop the unit, kill, delete; then look whether a process survived.      *)
CleanYCM ==
    /\ At("cleanYCM", "remove")
    /\ unit' = UnitAfterClean
    /\ ycmHome' = {} /\ beside' = IF WholeDir THEN {} ELSE beside
    /\ ready' = {} /\ UNCHANGED lay
    /\ \/ ycmUp' = {} /\ Pass
       \/ ycmUp # {} /\ UNCHANGED ycmUp /\ Break

(* rm fails, which is only a warning, or the command is cut off.           *)
CleanYCMFails ==
    /\ At("cleanYCM", "remove")
    /\ unit' \in {unit, UnitAfterClean}
    /\ ycmUp' \in {{}, ycmUp} /\ (PassBadly \/ Break)
    /\ UNCHANGED <<lay, ycmHome, beside, ready>>

(* The unit starts YCM again after a reboot, if it is still there.         *)
YCMReboots ==
    /\ unit' = IF unit = "none" THEN "none" ELSE IF "meta" \in ycmHome THEN "active" ELSE "idle"
    /\ ycmUp' = IF unit' = "active" THEN {"web", "back"} ELSE {}
    /\ UNCHANGED <<lay, ycmHome, beside, ready>>

YCMForeign ==
    /\ ycmHome = {} /\ ycmHome' = {"foreign"} /\ UNCHANGED <<lay, beside, unit, ycmUp, ready>>

(* A command fails or the connection is lost.                              *)
YCMBreaks == Running /\ cmd.do \in {"ycm", "cleanYCM"} /\ Break /\ UNCHANGED ycmVars

YCMNext ==
    \/ CheckPreinstall \/ CheckPreinstallUnanswered \/ InstallYCMDeps
    \/ ExtractPackage \/ ExtractCut \/ SetOwnership
    \/ CheckDeployConfig \/ ConfigurePorts \/ DeployYCM \/ VerifyYCMProcess
    \/ VerifyYCMPorts \/ VerifyYCMWeb \/ ConfigAutostart
    \/ CleanYCMProbe \/ CleanYCM \/ CleanYCMFails \/ YCMBreaks

YCMTypeOK ==
    /\ lay \in Layouts /\ ycmHome \subseteq Things /\ beside \subseteq {"init", "foreign"}
    /\ unit \in {"none", "idle", "active"} /\ ycmUp \subseteq {"web", "back"}
    /\ ready \subseteq {"owner", "webport", "ports"}
=============================================================================
