--------------------------- MODULE ProductsProofs ---------------------------
(***************************************************************************)
(* Theorems about YCM and YMP on one host, for every set of commands and   *)
(* layouts and any number of runs.                                         *)
(***************************************************************************)
EXTENDS Products, TLAPS

Do == {"ycm", "ymp", "cleanYCM", "cleanYMP"}

(* The part of the state that ProductRun keeps.                            *)
ControlOK ==
    /\ cmd \in Commands /\ run \in 0..Runs /\ step \in DOMAIN Steps
    /\ exit \in {"none", "ok", "skipped", "error", "idle"} /\ looked \in BOOLEAN /\ lost \subseteq Mishaps

(* How a command goes on.                                                  *)
Goes == Pass \/ PassBadly \/ PassBlind
Stops == Fail \/ Break \/ SkipAll \/ SkipBlind
Moves == Goes \/ Stops \/ Look \/ LookUnanswered

LEMMA CommandsKnown ==
    ASSUME NEW c \in Commands
    PROVE  c.do \in Do /\ c.dir \in Dirs \cup {"c"} /\ (c.do = "ymp" => c.dir \in Dirs)
BY CommandsAssumption DEF IsCommand, Do

LEMMA StepLists ==
    /\ Len(YCMSteps) = 11 /\ DOMAIN YCMSteps = 1..11
    /\ Len(YMPSteps) = 14 /\ DOMAIN YMPSteps = 1..14
    /\ Len(CleanSteps) = 2 /\ DOMAIN CleanSteps = 1..2
<1>1. Len(YCMSteps) = 11 /\ DOMAIN YCMSteps = 1..11
  BY DEF YCMSteps
<1>2. Len(YMPSteps) = 14 /\ DOMAIN YMPSteps = 1..14
  BY DEF YMPSteps
<1>3. Len(CleanSteps) = 2 /\ DOMAIN CleanSteps = 1..2
  BY DEF CleanSteps
<1>4. QED  BY <1>1, <1>2, <1>3

LEMMA StepsOf ==
    ASSUME cmd.do \in Do
    PROVE  /\ cmd.do = "ycm" => Steps = YCMSteps
           /\ cmd.do = "ymp" => Steps = YMPSteps
           /\ cmd.do \in {"cleanYCM", "cleanYMP"} => Steps = CleanSteps
BY DEF Steps, Do

LEMMA StepsLength ==
    ASSUME cmd.do \in Do
    PROVE  \E n \in Nat \ {0} : Len(Steps) = n /\ DOMAIN Steps = 1..n
<1>1. CASE cmd.do = "ycm"
  <2>1. Steps = YCMSteps
    BY <1>1, StepsOf
  <2>2. QED  BY <2>1, StepLists
<1>2. CASE cmd.do = "ymp"
  <2>1. Steps = YMPSteps
    BY <1>2, StepsOf
  <2>2. QED  BY <2>1, StepLists
<1>3. CASE cmd.do \in {"cleanYCM", "cleanYMP"}
  <2>1. Steps = CleanSteps
    BY <1>3, StepsOf
  <2>2. QED  BY <2>1, StepLists
<1>4. QED  BY <1>1, <1>2, <1>3 DEF Do

(* Wherever a command goes, its position stays in its list of steps.       *)
LEMMA MovesTyped ==
    ASSUME ControlOK, Moves
    PROVE  ControlOK' /\ cmd' = cmd /\ run' = run
<1>1. cmd' = cmd /\ run' = run
  BY DEF Moves, Goes, Stops, Pass, PassBadly, PassBlind, Advance, Fail, Break, SkipAll, SkipBlind,
         Look, LookUnanswered
<1>2. Steps' = Steps
  BY <1>1 DEF Steps
<1>3. PICK n \in Nat \ {0} : Len(Steps) = n /\ DOMAIN Steps = 1..n
  BY StepsLength, CommandsKnown DEF ControlOK
<1>4. step' \in DOMAIN Steps
  <2>1. CASE Goes
    <3>1. step' = step \/ (step < Len(Steps) /\ step' = step + 1)
      BY <2>1 DEF Goes, Pass, PassBadly, PassBlind, Advance
    <3>2. QED  BY <3>1, <1>3 DEF ControlOK
  <2>2. CASE Stops \/ Look \/ LookUnanswered
    BY <2>2 DEF Stops, Fail, Break, SkipAll, SkipBlind, Look, LookUnanswered, ControlOK
  <2>3. QED  BY <2>1, <2>2 DEF Moves
<1>5. exit' \in {"none", "ok", "skipped", "error", "idle"}
  BY DEF Moves, Goes, Stops, Pass, PassBadly, PassBlind, Advance, Fail, Break, SkipAll, SkipBlind,
         Look, LookUnanswered, ControlOK
<1>6. looked' \in BOOLEAN /\ lost' \subseteq Mishaps
  BY DEF Moves, Goes, Stops, Pass, PassBadly, PassBlind, Advance, Fail, Break, SkipAll, SkipBlind,
         Look, LookUnanswered, ControlOK, Mishaps
<1>7. QED  BY <1>1, <1>2, <1>4, <1>5, <1>6 DEF ControlOK
-----------------------------------------------------------------------------
LEMMA YCMStepTyped ==
    ASSUME YCMTypeOK, YCMNext
    PROVE  Moves /\ YCMTypeOK'
<1>1. CASE CheckPreinstall \/ CheckPreinstallUnanswered
  BY <1>1 DEF CheckPreinstall, CheckPreinstallUnanswered, Moves, Goes, Stops, YCMTypeOK, ycmVars
<1>2. CASE InstallYCMDeps
  BY <1>2 DEF InstallYCMDeps, Moves, Goes, Stops, YCMTypeOK, ycmVars
<1>3. CASE ExtractPackage
  BY <1>3 DEF ExtractPackage, Moves, Goes, Stops, YCMTypeOK, KeptHome, Unpacked, InitFile, Things
<1>4. CASE ExtractCut
  BY <1>4 DEF ExtractCut, Moves, Goes, Stops, YCMTypeOK, KeptHome, Unpacked, InitFile, Things
<1>5. CASE SetOwnership
  BY <1>5 DEF SetOwnership, Moves, Goes, Stops, YCMTypeOK
<1>6. CASE CheckDeployConfig
  BY <1>6 DEF CheckDeployConfig, Moves, Goes, Stops, YCMTypeOK, ycmVars
<1>7. CASE ConfigurePorts
  BY <1>7 DEF ConfigurePorts, Moves, Goes, Stops, YCMTypeOK
<1>8. CASE DeployYCM
  BY <1>8 DEF DeployYCM, Moves, Goes, Stops, YCMTypeOK, Things
<1>9. CASE VerifyYCMProcess
  BY <1>9 DEF VerifyYCMProcess, Moves, Goes, Stops, YCMTypeOK, ycmVars
<1>10. CASE VerifyYCMPorts
  BY <1>10 DEF VerifyYCMPorts, Moves, Goes, Stops, YCMTypeOK, ycmVars
<1>11. CASE VerifyYCMWeb
  BY <1>11 DEF VerifyYCMWeb, Moves, Goes, Stops, YCMTypeOK, ycmVars
<1>12. CASE ConfigAutostart
  BY <1>12 DEF ConfigAutostart, Moves, Goes, Stops, YCMTypeOK
<1>13. CASE CleanYCMProbe
  BY <1>13 DEF CleanYCMProbe, Moves, Goes, Stops, YCMTypeOK, ycmVars
<1>14. CASE CleanYCM
  BY <1>14 DEF CleanYCM, Moves, Goes, Stops, YCMTypeOK, UnitAfterClean
<1>15. CASE CleanYCMFails
  BY <1>15 DEF CleanYCMFails, Moves, Goes, Stops, YCMTypeOK, UnitAfterClean
<1>16. CASE YCMBreaks
  BY <1>16 DEF YCMBreaks, Moves, Goes, Stops, YCMTypeOK, ycmVars
<1>17. QED
  BY <1>1, <1>2, <1>3, <1>4, <1>5, <1>6, <1>7, <1>8, <1>9, <1>10, <1>11, <1>12, <1>13, <1>14, <1>15, <1>16 DEF YCMNext

LEMMA YMPStepTyped ==
    ASSUME cmd \in Commands, YMPTypeOK, YMPNext
    PROVE  Moves /\ YMPTypeOK'
<1>1. CASE CheckPort
  BY <1>1 DEF CheckPort, Moves, Goes, Stops, YMPTypeOK, ympVars
<1>2. CASE CheckInstallDir \/ CheckInstallDirUnanswered
  BY <1>2 DEF CheckInstallDir, CheckInstallDirUnanswered, Moves, Goes, Stops, YMPTypeOK, ympVars
<1>3. CASE WipeInstallDir \/ WipeCut
  BY <1>3 DEF WipeInstallDir, WipeCut, Moves, Goes, Stops, YMPTypeOK, EnvWithout, Parts
<1>4. CASE CreateUser
  BY <1>4 DEF CreateUser, Moves, Goes, Stops, YMPTypeOK
<1>5. CASE WriteLimits
  BY <1>5 DEF WriteLimits, Moves, Goes, Stops, YMPTypeOK, Adds
<1>6. CASE InstallYMPDeps
  BY <1>6 DEF InstallYMPDeps, Moves, Goes, Stops, YMPTypeOK, ympVars
<1>7. CASE InstallJdk
  BY <1>7 DEF InstallJdk, Moves, Goes, Stops, YMPTypeOK, Adds
<1>8. CASE ValidateJdk
  BY <1>8 DEF ValidateJdk, Moves, Goes, Stops, YMPTypeOK, ympVars
<1>9. CASE ExtractYmp
  BY <1>9 DEF ExtractYmp, Moves, Goes, Stops, YMPTypeOK, Unzips, Parts
<1>10. CASE ExtractInstantclient
  BY <1>10 DEF ExtractInstantclient, Moves, Goes, Stops, YMPTypeOK, Unzips, Parts
<1>11. CASE UnzipCut
  BY <1>11 DEF UnzipCut, Moves, Goes, Stops, YMPTypeOK, Unzips, Parts
<1>12. CASE SetupSqlplus
  BY <1>12 DEF SetupSqlplus, Moves, Goes, Stops, YMPTypeOK, ympVars
<1>13. CASE InstallYmpSkipped
  BY <1>13 DEF InstallYmpSkipped, Moves, Goes, Stops, YMPTypeOK, ympVars
<1>14. CASE InstallYmp
  BY <1>14, CommandsKnown DEF InstallYmp, Moves, Goes, Stops, YMPTypeOK, EnvToInstall, EnvWithout, Parts, d, At
<1>15. CASE InstallYmpFails
  BY <1>15, CommandsKnown DEF InstallYmpFails, Moves, Goes, Stops, YMPTypeOK, EnvToInstall, EnvWithout, Parts, d, At
<1>16. CASE VerifyYMPProcess
  BY <1>16 DEF VerifyYMPProcess, Moves, Goes, Stops, YMPTypeOK, ympVars
<1>17. CASE VerifyYMPPort
  BY <1>17 DEF VerifyYMPPort, Moves, Goes, Stops, YMPTypeOK, ympVars
<1>18. CASE VerifyYMPWeb
  BY <1>18 DEF VerifyYMPWeb, Moves, Goes, Stops, YMPTypeOK, ympVars
<1>19. CASE CleanYMPProbe \/ CleanYMPProbeUnanswered
  BY <1>19 DEF CleanYMPProbe, CleanYMPProbeUnanswered, Moves, Goes, Stops, YMPTypeOK, ympVars
<1>20. CASE KillYMP
  BY <1>20 DEF KillYMP, Moves, Goes, Stops, YMPTypeOK, UpWithout
<1>21. CASE CleanYMP \/ CleanYMPFails
  BY <1>21 DEF CleanYMP, CleanYMPFails, Moves, Goes, Stops, YMPTypeOK, ReduceTo, HomeOf, EnvWithout, Parts
<1>22. CASE YMPBreaks
  BY <1>22 DEF YMPBreaks, Moves, Goes, Stops, YMPTypeOK, ympVars
<1>23. QED
  BY <1>1, <1>2, <1>3, <1>4, <1>5, <1>6, <1>7, <1>8, <1>9, <1>10, <1>11, <1>12, <1>13, <1>14, <1>15, <1>16, <1>17, <1>18, <1>19, <1>20, <1>21, <1>22 DEF YMPNext

LEMMA InitTyped == Init => TypeOK
<1> SUFFICES ASSUME Init PROVE TypeOK
  OBVIOUS
<1>1. ControlOK
  <2>1. cmd \in Commands /\ run = 0 /\ step = 1 /\ exit = "idle"
        /\ looked = FALSE /\ lost = {}
    BY DEF Init, Idle
  <2>2. 1 \in DOMAIN Steps
    <3>1. Steps \in {YCMSteps, YMPSteps, CleanSteps}
      BY DEF Steps
    <3>2. QED  BY <3>1, StepLists
  <2>3. run \in 0..Runs
    BY <2>1, RunsAssumption
  <2>4. QED  BY <2>1, <2>2, <2>3 DEF ControlOK
<1>2. YCMTypeOK
  BY DEF Init, YCMInit, YCMTypeOK, Things
<1>3. YMPTypeOK
  BY DEF Init, YMPInit, YMPTypeOK, Parts
<1>4. QED  BY <1>1, <1>2, <1>3 DEF TypeOK, ControlOK

LEMMA RestTyped == ControlOK /\ Rest /\ run' = run => ControlOK'
<1> SUFFICES ASSUME ControlOK, Rest, run' = run PROVE ControlOK'
  OBVIOUS
<1>1. 1 \in DOMAIN Steps'
  <2>1. Steps' \in {YCMSteps, YMPSteps, CleanSteps}
    BY DEF Steps
  <2>2. QED  BY <2>1, StepLists
<1>2. QED  BY <1>1 DEF ControlOK, Rest

LEMMA NextTyped == TypeOK /\ [Next]_vars => TypeOK'
<1> SUFFICES ASSUME TypeOK, [Next]_vars PROVE TypeOK'
  OBVIOUS
<1>0. ControlOK /\ YCMTypeOK /\ YMPTypeOK
  BY DEF TypeOK, ControlOK
<1>1. CASE StartRun
  <2>1. /\ cmd' \in Commands /\ run' = run + 1 /\ run < Runs /\ step' = 1
        /\ exit' = "none" /\ looked' = FALSE /\ lost' = {}
    BY <1>1 DEF StartRun, Start
  <2>2. 1 \in DOMAIN Steps'
    <3>1. Steps' \in {YCMSteps, YMPSteps, CleanSteps}
      BY DEF Steps
    <3>2. QED  BY <3>1, StepLists
  <2>3. ControlOK'
    <3>1. run' \in 0..Runs
      BY <1>0, <2>1, RunsAssumption DEF ControlOK
    <3>2. QED  BY <2>1, <2>2, <3>1 DEF ControlOK
  <2>4. YCMTypeOK' /\ YMPTypeOK'
    BY <1>0, <1>1 DEF StartRun, ycmVars, ympVars, YCMTypeOK, YMPTypeOK
  <2>5. QED  BY <2>3, <2>4 DEF TypeOK, ControlOK
<1>2. CASE YCMStep
  <2>1. Moves /\ YCMTypeOK'
    BY <1>0, <1>2, YCMStepTyped DEF YCMStep
  <2>2. YMPTypeOK'
    BY <1>0, <1>2 DEF YCMStep, ympVars, YMPTypeOK
  <2>3. ControlOK'
    BY <1>0, <2>1, MovesTyped
  <2>4. QED  BY <2>1, <2>2, <2>3 DEF TypeOK, ControlOK
<1>3. CASE YMPStep
  <2>1. Moves /\ YMPTypeOK'
    BY <1>0, <1>3, YMPStepTyped DEF YMPStep, ControlOK
  <2>2. YCMTypeOK'
    BY <1>0, <1>3 DEF YMPStep, ycmVars, YCMTypeOK
  <2>3. ControlOK'
    BY <1>0, <2>1, MovesTyped
  <2>4. QED  BY <2>1, <2>2, <2>3 DEF TypeOK, ControlOK
<1>4. CASE Reboot
  <2>1. ControlOK'
    BY <1>0, <1>4, RestTyped DEF Reboot
  <2>2. YCMTypeOK' /\ YMPTypeOK'
    BY <1>0, <1>4 DEF Reboot, YCMReboots, YMPReboots, YCMTypeOK, YMPTypeOK
  <2>3. QED  BY <2>1, <2>2 DEF TypeOK, ControlOK
<1>5. CASE SomebodyElse
  <2>1. ControlOK'
    <3>1. CASE Running
      BY <1>0, <1>5, <3>1 DEF SomebodyElse, ControlOK, Steps, Mishaps
    <3>2. CASE ~Running
      BY <1>0, <1>5, <3>2, RestTyped DEF SomebodyElse
    <3>3. QED  BY <3>1, <3>2
  <2>2. YCMTypeOK' /\ YMPTypeOK'
    BY <1>0, <1>5 DEF SomebodyElse, YCMForeign, YMPForeign, YCMTypeOK, YMPTypeOK, ycmVars, ympVars,
                Things, Parts
  <2>3. QED  BY <2>1, <2>2 DEF TypeOK, ControlOK
<1>6. CASE Done \/ UNCHANGED vars
  BY <1>0, <1>6 DEF Done, vars, TypeOK, control, ycmVars, ympVars, ControlOK, Steps, YCMTypeOK, YMPTypeOK
<1>7. QED  BY <1>1, <1>2, <1>3, <1>4, <1>5, <1>6 DEF Next

(* Every reachable state is well typed: a command never leaves its list of *)
(* steps, whatever fails, restarts or is put on the host.                  *)
THEOREM TypeCorrect == Spec => []TypeOK
BY InitTyped, NextTyped, PTL DEF Spec

-----------------------------------------------------------------------------
(* What the steps before the present one have achieved, and what nobody    *)
(* can have undone since.                                                  *)
YCMAlong ==
    Running /\ cmd.do = "ycm" =>
        /\ step > 1 /\ lost = {} => ycmHome = {} \/ LooksLikeYCM
        /\ step \in 2..7 => "blind" \in lost \/ ycmUp = {}
        /\ step > 3 => {"files", "deploy"} \subseteq ycmHome /\ InitFile \subseteq beside
        /\ step > 4 => "owner" \in ready
        /\ step > 6 /\ lost = {} => {"webport", "ports"} \subseteq ready
        /\ step > 7 => "meta" \in ycmHome
                       /\ ("web" \in ycmUp => "blind" \in lost \/ "webport" \in ready)
        /\ step > 7 /\ lost = {} => ycmUp = {"web", "back"}
        /\ step > 9 => "web" \in ycmUp

YMPAlong ==
    Running /\ cmd.do = "ymp" =>
        /\ step \in 2..11 => "blind" \in lost \/ "web" \notin ympUp[d]
        /\ step \in 3..11 /\ Has("wipe") => "blind" \in lost \/ "db" \notin ympHome[d]
        /\ step > 3 => user
        /\ step > 4 => "limits" \in host
        /\ step > 6 => "jdk" \in host
        /\ step > 8 => "platform" \in ympHome[d]
        /\ step > 9 => "client" \in ympHome[d]
        /\ step > 11 /\ "web" \in ympUp[d] =>
              "blind" \in lost \/ (env = d /\ "db" \in ympHome[d])
        /\ step > 11 /\ lost = {} =>
              "web" \in ympUp[d] \/ (Has("wipe") => env # "none" /\ ~Has("again"))
        /\ step > 13 => "web" \in ympUp[d]

Along == YCMAlong /\ YMPAlong

(* Where a step stands in its list, and where a command goes from there.   *)
LEMMA Where ==
    ASSUME TypeOK
    PROVE  /\ cmd.do \in Do /\ cmd.dir \in Dirs \cup {"c"} /\ (cmd.do = "ymp" => cmd.dir \in Dirs)
           /\ cmd.do = "ycm" => Len(Steps) = 11 /\ step \in 1..11
           /\ cmd.do = "ymp" => Len(Steps) = 14 /\ step \in 1..14
           /\ cmd.do \in {"cleanYCM", "cleanYMP"} => Len(Steps) = 2 /\ step \in 1..2
<1>1. cmd.do \in Do /\ cmd.dir \in Dirs \cup {"c"} /\ (cmd.do = "ymp" => cmd.dir \in Dirs)
  BY CommandsKnown DEF TypeOK
<1>2. cmd.do = "ycm" => Len(Steps) = 11 /\ step \in 1..11
  BY <1>1, StepsOf, StepLists DEF TypeOK
<1>3. cmd.do = "ymp" => Len(Steps) = 14 /\ step \in 1..14
  BY <1>1, StepsOf, StepLists DEF TypeOK
<1>4. cmd.do \in {"cleanYCM", "cleanYMP"} => Len(Steps) = 2 /\ step \in 1..2
  BY <1>1, StepsOf, StepLists DEF TypeOK
<1>5. QED  BY <1>1, <1>2, <1>3, <1>4

LEMMA YCMWhere ==
    ASSUME TypeOK, NEW s, At("ycm", s)
    PROVE  /\ Running /\ cmd.do = "ycm"
           /\ s = "preinstall" => step = 1
           /\ s = "deps" => step = 2
           /\ s = "extract" => step = 3
           /\ s = "owner" => step = 4
           /\ s = "config" => step = 5
           /\ s = "ports" => step = 6
           /\ s = "deploy" => step = 7
           /\ s = "process" => step = 8
           /\ s = "listen" => step = 9
           /\ s = "web" => step = 10
           /\ s = "unit" => step = 11
<1>1. Running /\ cmd.do = "ycm" /\ Steps[step] = s
  BY DEF At
<1>2. Steps = YCMSteps /\ step \in 1..11
  BY <1>1, Where, StepsOf
<1>3. QED  BY <1>1, <1>2 DEF YCMSteps

LEMMA YMPWhere ==
    ASSUME TypeOK, NEW s, At("ymp", s)
    PROVE  /\ Running /\ cmd.do = "ymp"
           /\ s = "port" => step = 1
           /\ s = "dir" => step = 2
           /\ s = "user" => step = 3
           /\ s = "limits" => step = 4
           /\ s = "deps" => step = 5
           /\ s = "jdk" => step = 6
           /\ s = "java" => step = 7
           /\ s = "platform" => step = 8
           /\ s = "client" => step = 9
           /\ s = "sqlplus" => step = 10
           /\ s = "install" => step = 11
           /\ s = "process" => step = 12
           /\ s = "listen" => step = 13
           /\ s = "web" => step = 14
<1>1. Running /\ cmd.do = "ymp" /\ Steps[step] = s
  BY DEF At
<1>2. Steps = YMPSteps /\ step \in 1..14
  BY <1>1, Where, StepsOf
<1>3. QED  BY <1>1, <1>2 DEF YMPSteps

LEMMA CleanWhere ==
    ASSUME TypeOK, cmd.do \in {"cleanYCM", "cleanYMP"}
    PROVE  /\ step \in {1, 2} /\ Len(Steps) = 2
           /\ step = 1 => Steps[step] = "probe"
           /\ step = 2 => Steps[step] = "remove"
<1>1. Steps = CleanSteps
  BY StepsOf DEF Do
<1>2. step \in 1..2
  BY Where
<1>3. Len(Steps) = 2
  BY Where
<1>4. CleanSteps[1] = "probe" /\ CleanSteps[2] = "remove"
  BY DEF CleanSteps
<1>5. step = 1 \/ step = 2
  BY <1>2
<1>6. QED  BY <1>1, <1>3, <1>4, <1>5

LEMMA Passes ==
    ASSUME Goes
    PROVE  /\ cmd' = cmd /\ looked' = FALSE
           /\ lost' = {} => lost = {} /\ Pass
           /\ lost \subseteq lost'
           /\ \/ step < Len(Steps) /\ step' = step + 1 /\ exit' = exit
              \/ ~(step < Len(Steps)) /\ step' = step /\ exit' = "ok"
BY DEF Goes, Pass, PassBadly, PassBlind, Advance

LEMMA Ends ==
    ASSUME Stops
    PROVE  ~Running' /\ cmd' = cmd /\ step' = step /\ exit' # "ok" /\ looked' = FALSE
BY DEF Stops, Fail, Break, SkipAll, SkipBlind, Running

LEMMA Looks ==
    ASSUME Look \/ LookUnanswered
    PROVE  /\ UNCHANGED <<cmd, run, step, exit>> /\ looked' = TRUE
           /\ lost' = {} => lost = {}
           /\ lost \subseteq lost'
BY DEF Look, LookUnanswered

(* One step of the YCM commands keeps what the steps before it have set up.*)
LEMMA YCMStepAlong ==
    ASSUME TypeOK, YCMAlong, YCMNext
    PROVE  YCMAlong' /\ YMPAlong'
<1>1. CASE CheckPreinstall \/ CheckPreinstallUnanswered
  <2>1. Running /\ cmd.do = "ycm" /\ step = 1 /\ Len(Steps) = 11
    BY <1>1, YCMWhere, Where DEF CheckPreinstall, CheckPreinstallUnanswered
  <2>2. CASE Stops
    BY <2>1, <2>2, Ends DEF YCMAlong, YMPAlong
  <2>3. CASE Goes
    <3>1. cmd' = cmd /\ step' = 2 /\ exit' = exit /\ (lost' = {} => lost = {} /\ Pass)
          /\ lost \subseteq lost'
      BY <2>1, <2>3, Passes
    <3>2. ~Fail
      BY <2>1, <3>1 DEF Fail, Running
    <3>3. UNCHANGED ycmVars /\ (~PreinstallBlocked(Has("wipe")) \/ PassBlind)
      BY <1>1, <3>2 DEF CheckPreinstall, CheckPreinstallUnanswered
    <3>4. "blind" \in lost' \/ (ycmUp' = {} /\ (ycmHome' = {} \/ LooksLikeYCM'))
      BY <3>3 DEF PreinstallBlocked, ycmVars, LooksLikeYCM, PassBlind
    <3>5. QED  BY <2>1, <3>1, <3>4 DEF YCMAlong, YMPAlong
  <2>4. QED  BY <1>1, <2>2, <2>3 DEF Goes, Stops, CheckPreinstall, CheckPreinstallUnanswered
<1>2. CASE InstallYCMDeps
  <2>1. Running /\ cmd.do = "ycm" /\ step = 2 /\ Len(Steps) = 11
    BY <1>2, YCMWhere, Where DEF InstallYCMDeps
  <2>2. CASE Stops
    BY <2>1, <2>2, Ends DEF YCMAlong, YMPAlong
  <2>3. CASE Goes
    <3>1. cmd' = cmd /\ step' = 3 /\ exit' = exit /\ (lost' = {} => lost = {} /\ Pass)
          /\ lost \subseteq lost'
      BY <2>1, <2>3, Passes
    <3>2. ~Fail /\ ~Break
      BY <2>1, <3>1 DEF Fail, Break, Running
    <3>3. QED  BY <1>2, <2>1, <2>3, <3>1, <3>2 DEF YCMAlong, YMPAlong, Running, InstallYCMDeps, ycmVars, LooksLikeYCM
  <2>4. QED  BY <1>2, <2>2, <2>3 DEF Goes, Stops, InstallYCMDeps
<1>3. CASE ExtractPackage
  <2>1. Running /\ cmd.do = "ycm" /\ step = 3 /\ Len(Steps) = 11
    BY <1>3, YCMWhere, Where DEF ExtractPackage
  <2>2. CASE Stops
    BY <2>1, <2>2, Ends DEF YCMAlong, YMPAlong
  <2>3. CASE Goes
    <3>1. cmd' = cmd /\ step' = 4 /\ exit' = exit /\ (lost' = {} => lost = {} /\ Pass)
          /\ lost \subseteq lost'
      BY <2>1, <2>3, Passes
    <3>2. ~Fail /\ ~Break
      BY <2>1, <3>1 DEF Fail, Break, Running
    <3>3. QED  BY <1>3, <2>1, <2>3, <3>1, <3>2 DEF YCMAlong, YMPAlong, Running, ExtractPackage, Unpacked, InitFile, LooksLikeYCM
  <2>4. QED  BY <1>3, <2>2, <2>3 DEF Goes, Stops, ExtractPackage
<1>4. CASE ExtractCut
  <2>1. Running /\ cmd.do = "ycm" /\ step = 3 /\ Len(Steps) = 11
    BY <1>4, YCMWhere, Where DEF ExtractCut
  <2>2. Stops
    BY <1>4 DEF ExtractCut, Stops
  <2>3. QED  BY <2>1, <2>2, Ends DEF YCMAlong, YMPAlong
<1>5. CASE SetOwnership
  <2>1. Running /\ cmd.do = "ycm" /\ step = 4 /\ Len(Steps) = 11
    BY <1>5, YCMWhere, Where DEF SetOwnership
  <2>2. CASE Stops
    BY <2>1, <2>2, Ends DEF YCMAlong, YMPAlong
  <2>3. CASE Goes
    <3>1. cmd' = cmd /\ step' = 5 /\ exit' = exit /\ (lost' = {} => lost = {} /\ Pass)
          /\ lost \subseteq lost'
      BY <2>1, <2>3, Passes
    <3>2. ~Fail /\ ~Break
      BY <2>1, <3>1 DEF Fail, Break, Running
    <3>3. QED  BY <1>5, <2>1, <2>3, <3>1, <3>2 DEF YCMAlong, YMPAlong, Running, SetOwnership, InitFile, LooksLikeYCM
  <2>4. QED  BY <1>5, <2>2, <2>3 DEF Goes, Stops, SetOwnership
<1>6. CASE CheckDeployConfig
  <2>1. Running /\ cmd.do = "ycm" /\ step = 5 /\ Len(Steps) = 11
    BY <1>6, YCMWhere, Where DEF CheckDeployConfig
  <2>2. CASE Stops
    BY <2>1, <2>2, Ends DEF YCMAlong, YMPAlong
  <2>3. CASE Goes
    <3>1. cmd' = cmd /\ step' = 6 /\ exit' = exit /\ (lost' = {} => lost = {} /\ Pass)
          /\ lost \subseteq lost'
      BY <2>1, <2>3, Passes
    <3>2. ~Fail /\ ~Break
      BY <2>1, <3>1 DEF Fail, Break, Running
    <3>3. QED  BY <1>6, <2>1, <2>3, <3>1, <3>2 DEF YCMAlong, YMPAlong, Running, CheckDeployConfig, ycmVars, InitFile, LooksLikeYCM
  <2>4. QED  BY <1>6, <2>2, <2>3 DEF Goes, Stops, CheckDeployConfig
<1>7. CASE ConfigurePorts
  <2>1. Running /\ cmd.do = "ycm" /\ step = 6 /\ Len(Steps) = 11
    BY <1>7, YCMWhere, Where DEF ConfigurePorts
  <2>2. CASE Stops
    BY <2>1, <2>2, Ends DEF YCMAlong, YMPAlong
  <2>3. CASE Goes
    <3>1. cmd' = cmd /\ step' = 7 /\ exit' = exit /\ (lost' = {} => lost = {} /\ Pass)
          /\ lost \subseteq lost'
      BY <2>1, <2>3, Passes
    <3>2. ~Fail /\ ~Break
      BY <2>1, <3>1 DEF Fail, Break, Running
    <3>3. "deploy" \in ycmHome /\ (lost' = {} => ready' = ready \cup {"webport", "ports"})
      BY <1>7, <3>2 DEF ConfigurePorts, PassBadly
    <3>4. ready \subseteq ready'
      BY <1>7, <3>2 DEF ConfigurePorts
    <3>5. UNCHANGED <<lay, ycmHome, beside, unit, ycmUp>> /\ "owner" \in ready'
      BY <1>7, <2>1, <3>4 DEF ConfigurePorts, YCMAlong
    <3>6. QED  BY <2>1, <3>1, <3>3, <3>5 DEF YCMAlong, YMPAlong, InitFile, LooksLikeYCM
  <2>4. QED  BY <1>7, <2>2, <2>3 DEF Goes, Stops, ConfigurePorts
<1>8. CASE DeployYCM
  <2>1. Running /\ cmd.do = "ycm" /\ step = 7 /\ Len(Steps) = 11
    BY <1>8, YCMWhere, Where DEF DeployYCM
  <2>2. CASE Stops
    BY <2>1, <2>2, Ends DEF YCMAlong, YMPAlong
  <2>3. CASE Goes
    <3>1. cmd' = cmd /\ step' = 8 /\ exit' = exit /\ (lost' = {} => lost = {} /\ Pass)
          /\ lost \subseteq lost'
      BY <2>1, <2>3, Passes
    <3>2. ~Fail /\ ~Break
      BY <2>1, <3>1 DEF Fail, Break, Running
    <3>3. QED  BY <1>8, <2>1, <2>3, <3>1, <3>2 DEF YCMAlong, YMPAlong, Running, DeployYCM, InitFile, LooksLikeYCM
  <2>4. QED  BY <1>8, <2>2, <2>3 DEF Goes, Stops, DeployYCM
<1>9. CASE VerifyYCMProcess
  <2>1. Running /\ cmd.do = "ycm" /\ step = 8 /\ Len(Steps) = 11
    BY <1>9, YCMWhere, Where DEF VerifyYCMProcess
  <2>2. CASE Stops
    BY <2>1, <2>2, Ends DEF YCMAlong, YMPAlong
  <2>3. CASE Goes
    <3>1. cmd' = cmd /\ step' = 9 /\ exit' = exit /\ (lost' = {} => lost = {} /\ Pass)
          /\ lost \subseteq lost'
      BY <2>1, <2>3, Passes
    <3>2. ~Fail /\ ~Break
      BY <2>1, <3>1 DEF Fail, Break, Running
    <3>3. QED  BY <1>9, <2>1, <2>3, <3>1, <3>2 DEF YCMAlong, YMPAlong, Running, VerifyYCMProcess, ycmVars, InitFile, LooksLikeYCM
  <2>4. QED  BY <1>9, <2>2, <2>3 DEF Goes, Stops, VerifyYCMProcess
<1>10. CASE VerifyYCMPorts
  <2>1. Running /\ cmd.do = "ycm" /\ step = 9 /\ Len(Steps) = 11
    BY <1>10, YCMWhere, Where DEF VerifyYCMPorts
  <2>2. CASE Stops
    BY <2>1, <2>2, Ends DEF YCMAlong, YMPAlong
  <2>3. CASE Goes
    <3>1. cmd' = cmd /\ step' = 10 /\ exit' = exit /\ (lost' = {} => lost = {} /\ Pass)
          /\ lost \subseteq lost'
      BY <2>1, <2>3, Passes
    <3>2. ~Fail /\ ~Break
      BY <2>1, <3>1 DEF Fail, Break, Running
    <3>3. QED  BY <1>10, <2>1, <2>3, <3>1, <3>2 DEF YCMAlong, YMPAlong, Running, VerifyYCMPorts, ycmVars, InitFile, LooksLikeYCM
  <2>4. QED  BY <1>10, <2>2, <2>3 DEF Goes, Stops, VerifyYCMPorts
<1>11. CASE VerifyYCMWeb
  <2>1. Running /\ cmd.do = "ycm" /\ step = 10 /\ Len(Steps) = 11
    BY <1>11, YCMWhere, Where DEF VerifyYCMWeb
  <2>2. CASE Stops
    BY <2>1, <2>2, Ends DEF YCMAlong, YMPAlong
  <2>3. CASE Goes
    <3>1. cmd' = cmd /\ step' = 11 /\ exit' = exit /\ (lost' = {} => lost = {} /\ Pass)
          /\ lost \subseteq lost'
      BY <2>1, <2>3, Passes
    <3>2. ~Fail /\ ~Break
      BY <2>1, <3>1 DEF Fail, Break, Running
    <3>3. QED  BY <1>11, <2>1, <2>3, <3>1, <3>2 DEF YCMAlong, YMPAlong, Running, VerifyYCMWeb, ycmVars, InitFile, LooksLikeYCM
  <2>4. QED  BY <1>11, <2>2, <2>3 DEF Goes, Stops, VerifyYCMWeb
<1>12. CASE ConfigAutostart
  <2>1. Running /\ cmd.do = "ycm" /\ step = 11 /\ Len(Steps) = 11
    BY <1>12, YCMWhere, Where DEF ConfigAutostart
  <2>2. ~Running' /\ cmd' = cmd
    <3>1. Goes
      BY <1>12 DEF ConfigAutostart, Goes
    <3>2. QED  BY <2>1, <3>1, Passes DEF Running
  <2>3. QED  BY <2>1, <2>2 DEF YCMAlong, YMPAlong
<1>13. CASE CleanYCMProbe \/ CleanYCM \/ CleanYCMFails \/ YCMBreaks
  <2>1. cmd.do \in {"ycm", "cleanYCM"} /\ cmd' = cmd /\ (cmd.do = "ycm" => ~Running')
    BY <1>13, Passes, Ends DEF Goes, Stops, CleanYCMProbe, CleanYCM, CleanYCMFails, YCMBreaks, At
  <2>2. QED  BY <2>1 DEF YCMAlong, YMPAlong
<1>14. QED
  BY <1>1, <1>2, <1>3, <1>4, <1>5, <1>6, <1>7, <1>8, <1>9, <1>10, <1>11, <1>12, <1>13 DEF YCMNext

(* One step of the YMP commands keeps what the steps before it have set up.*)
LEMMA YMPStepAlong ==
    ASSUME TypeOK, YMPAlong, YMPNext
    PROVE  YCMAlong' /\ YMPAlong'
<1>0. YMPTypeOK /\ (cmd.do = "ymp" => d \in Dirs)
  BY Where DEF TypeOK, d
<1>1. CASE CheckPort
  <2>1. Running /\ cmd.do = "ymp" /\ step = 1 /\ Len(Steps) = 14
    BY <1>1, YMPWhere, Where DEF CheckPort
  <2>2. CASE Stops
    BY <2>1, <2>2, Ends DEF YCMAlong, YMPAlong
  <2>3. CASE Goes
    <3>1. cmd' = cmd /\ step' = 2 /\ exit' = exit /\ (lost' = {} => lost = {} /\ Pass)
          /\ lost \subseteq lost'
      BY <2>1, <2>3, Passes
    <3>2. ~Fail
      BY <2>1, <3>1 DEF Fail, Running
    <3>3. UNCHANGED ympVars /\ ("web" \notin ympUp[d] \/ "blind" \in lost')
      BY <1>1, <3>2 DEF CheckPort, PassBlind
    <3>4. QED  BY <2>1, <3>1, <3>3 DEF YCMAlong, YMPAlong, ympVars, d
  <2>4. QED  BY <1>1, <2>2, <2>3 DEF Goes, Stops, CheckPort
<1>2. CASE (CheckInstallDir \/ CheckInstallDirUnanswered \/ WipeInstallDir) /\ Goes
  <2>1. Running /\ cmd.do = "ymp" /\ step = 2 /\ Len(Steps) = 14
    BY <1>2, YMPWhere, Where DEF CheckInstallDir, CheckInstallDirUnanswered, WipeInstallDir
  <2>2. cmd' = cmd /\ step' = 3 /\ exit' = exit /\ (lost' = {} => lost = {} /\ Pass)
        /\ lost \subseteq lost' /\ looked' = FALSE
    BY <1>2, <2>1, Passes
  <2>3. ~Fail /\ ~Look /\ ~LookUnanswered
    BY <2>1, <2>2 DEF Fail, Look, LookUnanswered, Running
  <2>4. ympUp' = ympUp /\ (Has("wipe") => "blind" \in lost' \/ ympHome'[d] = {})
    BY <1>0, <1>2, <2>1, <2>3 DEF CheckInstallDir, CheckInstallDirUnanswered, WipeInstallDir,
                               PassBlind, YMPTypeOK, ympVars
  <2>5. QED  BY <2>1, <2>2, <2>4 DEF YCMAlong, YMPAlong, d, Has
<1>3. CASE (CheckInstallDir \/ CheckInstallDirUnanswered) /\ (Look \/ LookUnanswered)
  <2>1. /\ UNCHANGED <<cmd, step, exit>> /\ lost \subseteq lost' /\ (lost' = {} => lost = {})
        /\ UNCHANGED ympVars /\ cmd.do = "ymp"
    BY <1>3, Looks DEF CheckInstallDir, CheckInstallDirUnanswered, At
  <2>2. QED  BY <2>1 DEF YCMAlong, YMPAlong, Running, ympVars, d, Has
<1>21. CASE WipeCut \/ ((CheckInstallDir \/ CheckInstallDirUnanswered) /\ Stops)
  <2>1. Running /\ cmd.do = "ymp" /\ Stops
    BY <1>21, YMPWhere DEF WipeCut, CheckInstallDir, CheckInstallDirUnanswered, Stops
  <2>2. QED  BY <2>1, Ends DEF YCMAlong, YMPAlong
<1>22. CASE CheckInstallDir \/ CheckInstallDirUnanswered \/ WipeInstallDir \/ WipeCut
  BY <1>2, <1>3, <1>21, <1>22 DEF CheckInstallDir, CheckInstallDirUnanswered, WipeInstallDir, Goes, Stops
<1>4. CASE CreateUser
  <2>1. Running /\ cmd.do = "ymp" /\ step = 3 /\ Len(Steps) = 14
    BY <1>4, YMPWhere, Where DEF CreateUser
  <2>2. CASE Stops
    BY <2>1, <2>2, Ends DEF YCMAlong, YMPAlong
  <2>3. CASE Goes
    <3>1. cmd' = cmd /\ step' = 4 /\ exit' = exit /\ (lost' = {} => lost = {} /\ Pass)
          /\ lost \subseteq lost'
      BY <2>1, <2>3, Passes
    <3>2. ~Fail /\ ~Break
      BY <2>1, <3>1 DEF Fail, Break, Running
    <3>3. QED  BY <1>0, <1>4, <2>1, <2>3, <3>1, <3>2 DEF YCMAlong, YMPAlong, YMPTypeOK, Running, d, Has, CreateUser
  <2>4. QED  BY <1>4, <2>2, <2>3 DEF Goes, Stops, CreateUser
<1>5. CASE WriteLimits
  <2>1. Running /\ cmd.do = "ymp" /\ step = 4 /\ Len(Steps) = 14
    BY <1>5, YMPWhere, Where DEF WriteLimits
  <2>2. CASE Stops
    BY <2>1, <2>2, Ends DEF YCMAlong, YMPAlong
  <2>3. CASE Goes
    <3>1. cmd' = cmd /\ step' = 5 /\ exit' = exit /\ (lost' = {} => lost = {} /\ Pass)
          /\ lost \subseteq lost'
      BY <2>1, <2>3, Passes
    <3>2. ~Fail /\ ~Break
      BY <2>1, <3>1 DEF Fail, Break, Running
    <3>3. QED  BY <1>0, <1>5, <2>1, <2>3, <3>1, <3>2 DEF YCMAlong, YMPAlong, YMPTypeOK, Running, d, Has, WriteLimits, Adds
  <2>4. QED  BY <1>5, <2>2, <2>3 DEF Goes, Stops, WriteLimits, Adds
<1>6. CASE InstallYMPDeps
  <2>1. Running /\ cmd.do = "ymp" /\ step = 5 /\ Len(Steps) = 14
    BY <1>6, YMPWhere, Where DEF InstallYMPDeps
  <2>2. CASE Stops
    BY <2>1, <2>2, Ends DEF YCMAlong, YMPAlong
  <2>3. CASE Goes
    <3>1. cmd' = cmd /\ step' = 6 /\ exit' = exit /\ (lost' = {} => lost = {} /\ Pass)
          /\ lost \subseteq lost'
      BY <2>1, <2>3, Passes
    <3>2. ~Fail /\ ~Break
      BY <2>1, <3>1 DEF Fail, Break, Running
    <3>3. QED  BY <1>0, <1>6, <2>1, <2>3, <3>1, <3>2 DEF YCMAlong, YMPAlong, YMPTypeOK, Running, d, Has, InstallYMPDeps, ympVars
  <2>4. QED  BY <1>6, <2>2, <2>3 DEF Goes, Stops, InstallYMPDeps
<1>7. CASE InstallJdk
  <2>1. Running /\ cmd.do = "ymp" /\ step = 6 /\ Len(Steps) = 14
    BY <1>7, YMPWhere, Where DEF InstallJdk
  <2>2. CASE Stops
    BY <2>1, <2>2, Ends DEF YCMAlong, YMPAlong
  <2>3. CASE Goes
    <3>1. cmd' = cmd /\ step' = 7 /\ exit' = exit /\ (lost' = {} => lost = {} /\ Pass)
          /\ lost \subseteq lost'
      BY <2>1, <2>3, Passes
    <3>2. ~Fail /\ ~Break
      BY <2>1, <3>1 DEF Fail, Break, Running
    <3>3. QED  BY <1>0, <1>7, <2>1, <2>3, <3>1, <3>2 DEF YCMAlong, YMPAlong, YMPTypeOK, Running, d, Has, InstallJdk, Adds
  <2>4. QED  BY <1>7, <2>2, <2>3 DEF Goes, Stops, InstallJdk, Adds
<1>8. CASE ValidateJdk
  <2>1. Running /\ cmd.do = "ymp" /\ step = 7 /\ Len(Steps) = 14
    BY <1>8, YMPWhere, Where DEF ValidateJdk
  <2>2. CASE Stops
    BY <2>1, <2>2, Ends DEF YCMAlong, YMPAlong
  <2>3. CASE Goes
    <3>1. cmd' = cmd /\ step' = 8 /\ exit' = exit /\ (lost' = {} => lost = {} /\ Pass)
          /\ lost \subseteq lost'
      BY <2>1, <2>3, Passes
    <3>2. ~Fail /\ ~Break
      BY <2>1, <3>1 DEF Fail, Break, Running
    <3>3. QED  BY <1>0, <1>8, <2>1, <2>3, <3>1, <3>2 DEF YCMAlong, YMPAlong, YMPTypeOK, Running, d, Has, ValidateJdk, ympVars
  <2>4. QED  BY <1>8, <2>2, <2>3 DEF Goes, Stops, ValidateJdk
<1>9. CASE ExtractYmp
  <2>1. Running /\ cmd.do = "ymp" /\ step = 8 /\ Len(Steps) = 14
    BY <1>9, YMPWhere, Where DEF ExtractYmp
  <2>2. CASE Stops
    BY <2>1, <2>2, Ends DEF YCMAlong, YMPAlong
  <2>3. CASE Goes
    <3>1. cmd' = cmd /\ step' = 9 /\ exit' = exit /\ (lost' = {} => lost = {} /\ Pass)
          /\ lost \subseteq lost'
      BY <2>1, <2>3, Passes
    <3>2. ~Fail /\ ~Break
      BY <2>1, <3>1 DEF Fail, Break, Running
    <3>3. QED  BY <1>0, <1>9, <2>1, <2>3, <3>1, <3>2 DEF YCMAlong, YMPAlong, YMPTypeOK, Running, d, Has, ExtractYmp, Unzips
  <2>4. QED  BY <1>9, <2>2, <2>3 DEF Goes, Stops, ExtractYmp
<1>10. CASE ExtractInstantclient
  <2>1. Running /\ cmd.do = "ymp" /\ step = 9 /\ Len(Steps) = 14
    BY <1>10, YMPWhere, Where DEF ExtractInstantclient
  <2>2. CASE Stops
    BY <2>1, <2>2, Ends DEF YCMAlong, YMPAlong
  <2>3. CASE Goes
    <3>1. cmd' = cmd /\ step' = 10 /\ exit' = exit /\ (lost' = {} => lost = {} /\ Pass)
          /\ lost \subseteq lost'
      BY <2>1, <2>3, Passes
    <3>2. ~Fail /\ ~Break
      BY <2>1, <3>1 DEF Fail, Break, Running
    <3>3. QED  BY <1>0, <1>10, <2>1, <2>3, <3>1, <3>2 DEF YCMAlong, YMPAlong, YMPTypeOK, Running, d, Has, ExtractInstantclient, Unzips
  <2>4. QED  BY <1>10, <2>2, <2>3 DEF Goes, Stops, ExtractInstantclient
<1>11. CASE UnzipCut
  <2>1. Running /\ cmd.do = "ymp" /\ Break
    BY <1>11, YMPWhere DEF UnzipCut
  <2>2. QED  BY <2>1, Ends DEF Stops, YCMAlong, YMPAlong
<1>12. CASE SetupSqlplus
  <2>1. Running /\ cmd.do = "ymp" /\ step = 10 /\ Len(Steps) = 14
    BY <1>12, YMPWhere, Where DEF SetupSqlplus
  <2>2. CASE Stops
    BY <2>1, <2>2, Ends DEF YCMAlong, YMPAlong
  <2>3. CASE Goes
    <3>1. cmd' = cmd /\ step' = 11 /\ exit' = exit /\ (lost' = {} => lost = {} /\ Pass)
          /\ lost \subseteq lost'
      BY <2>1, <2>3, Passes
    <3>2. ~Fail /\ ~Break
      BY <2>1, <3>1 DEF Fail, Break, Running
    <3>3. UNCHANGED <<ympHome, env, user, ympUp>> /\ host \subseteq host'
      BY <1>12 DEF SetupSqlplus, ympVars
    <3>4. QED  BY <2>1, <3>1, <3>3 DEF YCMAlong, YMPAlong, d, Has
  <2>4. QED  BY <1>12, <2>2, <2>3 DEF Goes, Stops, SetupSqlplus
<1>13. CASE InstallYmpSkipped
  <2>1. Running /\ cmd.do = "ymp" /\ step = 11 /\ Len(Steps) = 14
    BY <1>13, YMPWhere, Where DEF InstallYmpSkipped
  <2>2. CASE Stops
    BY <2>1, <2>2, Ends DEF YCMAlong, YMPAlong
  <2>3. CASE Goes
    <3>1. cmd' = cmd /\ step' = 12 /\ exit' = exit /\ (lost' = {} => lost = {} /\ Pass)
          /\ lost \subseteq lost'
      BY <2>1, <2>3, Passes
    <3>2. ~Fail /\ ~Break
      BY <2>1, <3>1 DEF Fail, Break, Running
    <3>3. UNCHANGED ympVars /\ ~Has("again") /\ (HomeOf(d) = ympHome[d])
      BY <1>0, <1>13, <2>1 DEF InstallYmpSkipped, HomeOf
    <3>4. "db" \in ympHome[d] \/ env # "none"
      BY <1>13, <3>3 DEF InstallYmpSkipped, InstallCompleted
    <3>5. /\ "blind" \in lost \/ "web" \notin ympUp[d]
          /\ Has("wipe") => "blind" \in lost \/ "db" \notin ympHome[d]
          /\ user /\ {"limits", "jdk"} \subseteq host
          /\ {"platform", "client"} \subseteq ympHome[d]
      BY <2>1 DEF YMPAlong
    <3>6. QED  BY <2>1, <3>1, <3>3, <3>4, <3>5 DEF YCMAlong, YMPAlong, ympVars, d, Has
  <2>4. QED  BY <1>13, <2>2, <2>3 DEF Goes, Stops, InstallYmpSkipped
<1>14. CASE InstallYmp
  <2>1. Running /\ cmd.do = "ymp" /\ step = 11 /\ Len(Steps) = 14
    BY <1>14, YMPWhere, Where DEF InstallYmp
  <2>2. CASE Stops
    BY <2>1, <2>2, Ends DEF YCMAlong, YMPAlong
  <2>3. CASE Goes
    <3>1. cmd' = cmd /\ step' = 12 /\ exit' = exit /\ (lost' = {} => lost = {} /\ Pass)
          /\ lost \subseteq lost'
      BY <2>1, <2>3, Passes
    <3>2. ~Fail /\ ~Break
      BY <2>1, <3>1 DEF Fail, Break, Running
    <3>3. /\ ympHome' = [ympHome EXCEPT ![d] = @ \cup {"db"}] /\ env' = d
          /\ UNCHANGED <<user, host>>
          /\ \/ Pass /\ ympUp' = [ympUp EXCEPT ![d] = {"web", "back"}]
             \/ PassBadly /\ \E up \in {{}, {"back"}} : ympUp' = [ympUp EXCEPT ![d] = up]
      BY <1>14, <3>2 DEF InstallYmp
    <3>4. d \in Dirs /\ d' = d /\ ympHome \in [Dirs -> SUBSET Parts]
      BY <1>0, <2>1, <3>1 DEF d, YMPTypeOK
    <3>5. ympHome'[d] = ympHome[d] \cup {"db"}
      BY <3>3, <3>4
    <3>6. lost' = {} => ympUp'[d] = {"web", "back"}
      BY <1>0, <3>3, <3>4 DEF PassBadly, YMPTypeOK
    <3>7. user /\ {"limits", "jdk"} \subseteq host /\ {"platform", "client"} \subseteq ympHome[d]
      BY <2>1 DEF YMPAlong
    <3>8. QED  BY <2>1, <3>1, <3>3, <3>4, <3>5, <3>6, <3>7 DEF YCMAlong, YMPAlong
  <2>4. QED  BY <1>14, <2>2, <2>3 DEF Goes, Stops, InstallYmp
<1>15. CASE InstallYmpFails
  <2>1. Running /\ cmd.do = "ymp" /\ Break
    BY <1>15, YMPWhere DEF InstallYmpFails
  <2>2. QED  BY <2>1, Ends DEF Stops, YCMAlong, YMPAlong
<1>16. CASE VerifyYMPProcess
  <2>1. Running /\ cmd.do = "ymp" /\ step = 12 /\ Len(Steps) = 14
    BY <1>16, YMPWhere, Where DEF VerifyYMPProcess
  <2>2. CASE Stops
    BY <2>1, <2>2, Ends DEF YCMAlong, YMPAlong
  <2>3. CASE Goes
    <3>1. cmd' = cmd /\ step' = 13 /\ exit' = exit /\ (lost' = {} => lost = {} /\ Pass)
          /\ lost \subseteq lost'
      BY <2>1, <2>3, Passes
    <3>2. ~Fail /\ ~Break
      BY <2>1, <3>1 DEF Fail, Break, Running
    <3>3. QED  BY <1>0, <1>16, <2>1, <2>3, <3>1, <3>2 DEF YCMAlong, YMPAlong, YMPTypeOK, Running, d, Has, VerifyYMPProcess, ympVars
  <2>4. QED  BY <1>16, <2>2, <2>3 DEF Goes, Stops, VerifyYMPProcess
<1>17. CASE VerifyYMPPort
  <2>1. Running /\ cmd.do = "ymp" /\ step = 13 /\ Len(Steps) = 14
    BY <1>17, YMPWhere, Where DEF VerifyYMPPort
  <2>2. CASE Stops
    BY <2>1, <2>2, Ends DEF YCMAlong, YMPAlong
  <2>3. CASE Goes
    <3>1. cmd' = cmd /\ step' = 14 /\ exit' = exit /\ (lost' = {} => lost = {} /\ Pass)
          /\ lost \subseteq lost'
      BY <2>1, <2>3, Passes
    <3>2. ~Fail /\ ~Break
      BY <2>1, <3>1 DEF Fail, Break, Running
    <3>3. QED  BY <1>0, <1>17, <2>1, <2>3, <3>1, <3>2 DEF YCMAlong, YMPAlong, YMPTypeOK, Running, d, Has, VerifyYMPPort, ympVars
  <2>4. QED  BY <1>17, <2>2, <2>3 DEF Goes, Stops, VerifyYMPPort
<1>18. CASE VerifyYMPWeb
  <2>1. Running /\ cmd.do = "ymp" /\ step = 14 /\ Len(Steps) = 14
    BY <1>18, YMPWhere, Where DEF VerifyYMPWeb
  <2>2. ~Running' /\ cmd' = cmd
    <3>1. Goes \/ Stops
      BY <1>18 DEF VerifyYMPWeb, Goes, Stops
    <3>2. CASE Goes
      <4>1. cmd' = cmd /\ exit' = "ok"
        BY <2>1, <3>2, Passes
      <4>2. QED  BY <4>1 DEF Running
    <3>3. CASE Stops
      BY <3>3, Ends
    <3>4. QED  BY <3>1, <3>2, <3>3
  <2>3. QED  BY <2>1, <2>2 DEF YCMAlong, YMPAlong
<1>19. CASE CleanYMPProbe \/ CleanYMPProbeUnanswered \/ KillYMP \/ CleanYMP \/ CleanYMPFails
  <2>1. cmd.do = "cleanYMP" /\ cmd' = cmd
    BY <1>19, Passes, Ends, Looks DEF Goes, Stops, CleanYMPProbe, CleanYMPProbeUnanswered, KillYMP,
       CleanYMP, CleanYMPFails, At
  <2>2. QED  BY <2>1 DEF YCMAlong, YMPAlong
<1>20. CASE YMPBreaks
  <2>1. cmd.do \in {"ymp", "cleanYMP"} /\ cmd' = cmd /\ ~Running'
    BY <1>20, Ends DEF Stops, YMPBreaks
  <2>2. QED  BY <2>1 DEF YCMAlong, YMPAlong
<1>23. QED
  BY <1>1, <1>22, <1>4, <1>5, <1>6, <1>7, <1>8, <1>9, <1>10, <1>11, <1>12, <1>13, <1>14, <1>15, <1>16,
     <1>17, <1>18, <1>19, <1>20 DEF YMPNext

(* What the steps have achieved holds in every reachable state.            *)
LEMMA NextAlong == TypeOK /\ Along /\ [Next]_vars => Along'
<1> SUFFICES ASSUME TypeOK, Along, [Next]_vars PROVE Along'
  OBVIOUS
<1>1. CASE StartRun
  <2>1. step' = 1
    BY <1>1 DEF StartRun, Start
  <2>2. QED  BY <2>1 DEF Along, YCMAlong, YMPAlong
<1>2. CASE YCMStep
  BY <1>2, YCMStepAlong DEF YCMStep, Along
<1>3. CASE YMPStep
  BY <1>3, YMPStepAlong DEF YMPStep, Along
<1>4. CASE Reboot
  <2>1. ~Running'
    BY <1>4 DEF Reboot, Rest, Running
  <2>2. QED  BY <2>1 DEF Along, YCMAlong, YMPAlong
<1>5. CASE SomebodyElse
  <2>1. CASE ~Running
    <3>1. ~Running'
      BY <1>5, <2>1 DEF SomebodyElse, Rest, Running
    <3>2. QED  BY <3>1 DEF Along, YCMAlong, YMPAlong
  <2>2. CASE Running
    <3>1. UNCHANGED <<cmd, step, exit>> /\ lost \subseteq lost' /\ lost' # {}
      BY <1>5, <2>2 DEF SomebodyElse
    <3>2. CASE YCMForeign /\ UNCHANGED ympVars
      BY <2>2, <3>1, <3>2 DEF Along, YCMAlong, YMPAlong, YCMForeign, ympVars, Running, InitFile,
                          LooksLikeYCM, d, Has
    <3>3. CASE YMPForeign /\ UNCHANGED ycmVars
      <4>1. YCMAlong'
        BY <2>2, <3>1, <3>3 DEF Along, YCMAlong, ycmVars, Running, InitFile, LooksLikeYCM
      <4>2. YMPAlong'
        BY <2>2, <3>1, <3>3 DEF TypeOK, YMPTypeOK, Along, YMPAlong, YMPForeign, Running, d, Has
      <4>3. QED  BY <4>1, <4>2 DEF Along
    <3>4. QED  BY <1>5, <3>2, <3>3 DEF SomebodyElse
  <2>3. QED  BY <2>1, <2>2
<1>6. CASE Done \/ UNCHANGED vars
  BY <1>6 DEF Done, vars, control, ycmVars, ympVars, Along, YCMAlong, YMPAlong, Running, InitFile,
              LooksLikeYCM, d, Has
<1>7. QED  BY <1>1, <1>2, <1>3, <1>4, <1>5, <1>6 DEF Next

LEMMA InitAlong == Init => Along
BY DEF Init, Idle, Along, YCMAlong, YMPAlong

(* Whoever deletes a directory has looked at it, and has seen nothing      *)
(* foreign unless the look got no answer or was too early.                 *)
Seen == looked /\ "foreign" \in HomeOf(d) => lost \cap {"unseen", "late"} # {}

LEMMA InitSeen == Init => Seen
BY DEF Init, Idle, Seen

LEMMA NextSeen == TypeOK /\ Seen /\ [Next]_vars => Seen'
<1> SUFFICES ASSUME TypeOK, Seen, [Next]_vars PROVE Seen'
  OBVIOUS
<1>1. CASE StartRun \/ Reboot \/ (SomebodyElse /\ ~Running)
  BY <1>1 DEF StartRun, Start, Reboot, SomebodyElse, Rest, Seen
<1>2. CASE SomebodyElse /\ Running
  BY <1>2 DEF SomebodyElse, Seen
<1>3. CASE Goes \/ Stops
  BY <1>3, Passes, Ends DEF Seen
<1>4. CASE CheckInstallDir \/ CheckInstallDirUnanswered
  <2>1. CASE CheckInstallDir /\ Look
    <3>1. cmd' = cmd /\ UNCHANGED ympVars /\ ~Foreign(d)
      <4>1. ~Pass /\ ~Fail
        BY <2>1 DEF Look, Pass, Advance, Fail
      <4>2. QED  BY <2>1, <4>1 DEF CheckInstallDir, Look
    <3>2. QED  BY <3>1 DEF Seen, Foreign, HomeOf, ympVars, d
  <2>2. CASE LookUnanswered
    BY <2>2 DEF LookUnanswered, Seen
  <2>3. QED  BY <1>3, <1>4, <2>1, <2>2 DEF CheckInstallDir, CheckInstallDirUnanswered, Goes, Stops
<1>5. CASE KillYMP
  <2>1. CASE Look /\ ~Foreign(d)
    <3>1. cmd' = cmd /\ ympHome' = ympHome
      BY <1>5, <2>1 DEF KillYMP, Look
    <3>2. QED  BY <2>1, <3>1 DEF Seen, Foreign, HomeOf, d
  <2>2. CASE LookUnanswered
    BY <2>2 DEF LookUnanswered, Seen
  <2>3. QED  BY <1>3, <1>5, <2>1, <2>2 DEF KillYMP, Stops
<1>6. CASE YCMStep
  <2>1. Goes \/ Stops
    BY <1>6 DEF YCMStep, YCMNext, CheckPreinstall, CheckPreinstallUnanswered, InstallYCMDeps,
       ExtractPackage, ExtractCut, SetOwnership, CheckDeployConfig, ConfigurePorts, DeployYCM,
       VerifyYCMProcess, VerifyYCMPorts, VerifyYCMWeb, ConfigAutostart, CleanYCMProbe, CleanYCM,
       CleanYCMFails, YCMBreaks, Goes, Stops
  <2>2. QED  BY <1>3, <2>1
<1>7. CASE YMPStep
  <2>1. Goes \/ Stops \/ CheckInstallDir \/ CheckInstallDirUnanswered \/ KillYMP
    BY <1>7 DEF YMPStep, YMPNext, CheckPort, WipeInstallDir, WipeCut, CreateUser, WriteLimits,
       InstallYMPDeps, InstallJdk, ValidateJdk, ExtractYmp, ExtractInstantclient, UnzipCut,
       SetupSqlplus, InstallYmpSkipped, InstallYmp, InstallYmpFails, VerifyYMPProcess,
       VerifyYMPPort, VerifyYMPWeb, CleanYMPProbe, CleanYMPProbeUnanswered, CleanYMP,
       CleanYMPFails, YMPBreaks, Adds, Goes, Stops
  <2>2. QED  BY <1>3, <1>4, <1>5, <2>1
<1>8. CASE Done \/ UNCHANGED vars
  BY <1>8 DEF Done, vars, control, ympVars, Seen, HomeOf, d
<1>9. QED  BY <1>1, <1>2, <1>6, <1>7, <1>8 DEF Next

(* The YMP commands leave the files of others and the other instance       *)
(* alone, but for a directory that they have looked at.                    *)
LEMMA YMPKeepsOthers ==
    ASSUME TypeOK, YMPNext
    PROVE  /\ \A x \in Dirs : "foreign" \in ympHome[x] /\ "foreign" \notin ympHome'[x] =>
                 Running /\ x = cmd.dir /\ looked
           /\ \A x \in Dirs \ {cmd.dir} :
                 ympHome[x] \subseteq ympHome'[x] /\ ympUp[x] \subseteq ympUp'[x]
<1>0. /\ ympHome \in [Dirs -> SUBSET Parts] /\ ympUp \in [Dirs -> SUBSET {"web", "back"}]
      /\ (cmd.do = "ymp" => cmd.dir \in Dirs)
  BY Where DEF TypeOK, YMPTypeOK
<1>1. CASE UNCHANGED <<ympHome, ympUp>>
  BY <1>1
<1>2. CASE WipeInstallDir \/ WipeCut
  <2>1. Running /\ looked /\ ympUp' = ympUp
    BY <1>2 DEF WipeInstallDir, WipeCut, At
  <2>2. PICK rest : ympHome' = [ympHome EXCEPT ![d] = rest]
    BY <1>2 DEF WipeInstallDir, WipeCut
  <2>3. QED  BY <1>0, <2>1, <2>2 DEF d
<1>3. CASE ExtractYmp \/ ExtractInstantclient \/ UnzipCut
  BY <1>0, <1>3, YMPWhere DEF ExtractYmp, ExtractInstantclient, UnzipCut, Unzips, d
<1>4. CASE InstallYmp \/ InstallYmpFails
  <2>1. cmd.dir \in Dirs
    BY <1>0, <1>4, YMPWhere DEF InstallYmp, InstallYmpFails
  <2>2. ympHome' = ympHome \/ ympHome' = [ympHome EXCEPT ![d] = @ \cup {"db"}]
    BY <1>4 DEF InstallYmp, InstallYmpFails
  <2>3. ympUp' = ympUp \/ (\E up : ympUp' = [ympUp EXCEPT ![d] = up])
    BY <1>4 DEF InstallYmp, InstallYmpFails
  <2>4. QED  BY <1>0, <2>1, <2>2, <2>3 DEF d
<1>5. CASE KillYMP
  <2>1. ympHome' = ympHome /\ (ympUp' = ympUp \/ ympUp' = UpWithout(d))
    BY <1>5 DEF KillYMP
  <2>2. QED  BY <1>0, <2>1 DEF UpWithout, ProcessesIn, d
<1>6. CASE CleanYMP \/ CleanYMPFails
  <2>1. Running /\ looked /\ ympUp' = ympUp
    BY <1>6 DEF CleanYMP, CleanYMPFails, At
  <2>2. PICK rest : ympHome' = [x \in Dirs |-> IF x = d THEN rest ELSE ympHome[x]]
    BY <1>6 DEF CleanYMP, CleanYMPFails, ReduceTo
  <2>3. QED  BY <1>0, <2>1, <2>2 DEF d
<1>7. CASE CheckPort \/ CheckInstallDir \/ CheckInstallDirUnanswered \/ CreateUser
           \/ WriteLimits \/ InstallYMPDeps \/ InstallJdk \/ ValidateJdk
           \/ SetupSqlplus \/ InstallYmpSkipped \/ VerifyYMPProcess \/ VerifyYMPPort
           \/ VerifyYMPWeb \/ CleanYMPProbe \/ CleanYMPProbeUnanswered \/ YMPBreaks
  BY <1>1, <1>7 DEF CheckPort, CheckInstallDir, CheckInstallDirUnanswered, CreateUser, WriteLimits,
       InstallYMPDeps, InstallJdk, ValidateJdk, SetupSqlplus, InstallYmpSkipped, VerifyYMPProcess,
       VerifyYMPPort, VerifyYMPWeb, CleanYMPProbe, CleanYMPProbeUnanswered, YMPBreaks, Adds, ympVars
<1>8. QED  BY <1>2, <1>3, <1>4, <1>5, <1>6, <1>7 DEF YMPNext

(* An install of YCM that has got past G-001 works on its own home.        *)
LEMMA ForeignHomeKept ==
    ASSUME TypeOK, Along, [Next]_vars,
           Running, cmd.do = "ycm", lost = {}, "init" \notin beside, ycmHome = {"foreign"}
    PROVE  "foreign" \in ycmHome'
<1>1. step = 1
  BY Where DEF Along, YCMAlong, LooksLikeYCM
<1>2. CASE YCMStep
  <2>1. CheckPreinstall \/ CheckPreinstallUnanswered \/ YCMBreaks
    BY <1>1, <1>2, YCMWhere DEF YCMStep, YCMNext, InstallYCMDeps, ExtractPackage, ExtractCut,
       SetOwnership, CheckDeployConfig, ConfigurePorts, DeployYCM, VerifyYCMProcess,
       VerifyYCMPorts, VerifyYCMWeb, ConfigAutostart, CleanYCMProbe, CleanYCM, CleanYCMFails, At
  <2>2. QED  BY <2>1 DEF CheckPreinstall, CheckPreinstallUnanswered, YCMBreaks, ycmVars
<1>3. CASE SomebodyElse
  BY <1>3 DEF SomebodyElse, YCMForeign, ycmVars
<1>4. CASE StartRun \/ YMPStep \/ Reboot \/ Done \/ UNCHANGED vars
  BY <1>4 DEF StartRun, Start, YMPStep, Reboot, Done, vars, ycmVars
<1>5. QED  BY <1>2, <1>3, <1>4 DEF Next

(* What a step does to the directories that are not its own.               *)
LEMMA NextKeepsOthers ==
    ASSUME TypeOK, Seen, [Next]_vars
    PROVE  /\ \A x \in Dirs : "foreign" \in ympHome[x] /\ "foreign" \notin ympHome'[x] =>
                 Running /\ x = cmd.dir /\ lost \cap {"unseen", "late"} # {}
           /\ Running => \A x \in Dirs \ {cmd.dir} :
                 ympHome[x] \subseteq ympHome'[x] /\ ympUp[x] \subseteq ympUp'[x]
<1>1. CASE YMPStep
  BY <1>1, YMPKeepsOthers DEF YMPStep, Seen, HomeOf, d
<1>2. CASE SomebodyElse
  <2>1. ympHome \in [Dirs -> SUBSET Parts]
    BY DEF TypeOK, YMPTypeOK
  <2>2. QED  BY <1>2, <2>1 DEF SomebodyElse, YMPForeign, ympVars
<1>3. CASE Reboot
  BY <1>3 DEF Reboot, YMPReboots
<1>4. CASE StartRun \/ YCMStep \/ Done \/ UNCHANGED vars
  BY <1>4 DEF StartRun, YCMStep, Done, vars, ympVars
<1>5. QED  BY <1>1, <1>2, <1>3, <1>4 DEF Next

(* Foreign files and the other instance survive every command, whatever    *)
(* the commands are, how they are mixed and where they fail - but for      *)
(* files in the directory of a command whose last look before "rm -rf" got *)
(* no answer or came before them.                                          *)
THEOREM OthersAreKept == Spec => OthersKept
<1>1. TypeOK /\ Along /\ Seen /\ [Next]_vars =>
        [/\ \A x \in Dirs : "foreign" \in ympHome[x] /\ "foreign" \notin ympHome'[x] =>
               Running /\ x = cmd.dir /\ lost \cap {"unseen", "late"} # {}
         /\ Running => \A x \in Dirs \ {cmd.dir} :
               ympHome[x] \subseteq ympHome'[x] /\ ympUp[x] \subseteq ympUp'[x]
         /\ Running /\ cmd.do = "ycm" /\ lost = {} /\ "init" \notin beside /\ ycmHome = {"foreign"} =>
               "foreign" \in ycmHome']_vars
  BY NextKeepsOthers, ForeignHomeKept
<1>2. QED  BY <1>1, InitTyped, InitAlong, InitSeen, NextTyped, NextAlong, NextSeen, PTL DEF Spec, OthersKept

(* How a command of YCM can end.                                           *)
LEMMA YCMEnds ==
    ASSUME TypeOK, YCMNext
    PROVE  /\ exit' = "ok" =>
                 \/ cmd.do = "ycm" /\ step = 11 /\ ConfigAutostart
                 \/ cmd.do = "cleanYCM" /\ (CleanYCM \/ CleanYCMFails)
           /\ exit' = "error" /\ lost' = {} =>
                 /\ cmd.do = "ycm" /\ Fail
                 /\ CheckPreinstall \/ CheckDeployConfig \/ ConfigurePorts \/ DeployYCM
                    \/ VerifyYCMProcess \/ VerifyYCMPorts \/ VerifyYCMWeb
<1>1. CASE CheckPreinstall \/ InstallYCMDeps \/ ExtractPackage \/ SetOwnership \/
           CheckDeployConfig \/ ConfigurePorts \/ DeployYCM \/ VerifyYCMProcess \/
           VerifyYCMPorts \/ VerifyYCMWeb
  <2>1. PICK s \in {"preinstall", "deps", "extract", "owner", "config", "ports", "deploy",
                "process", "listen", "web"} : At("ycm", s)
    BY <1>1 DEF CheckPreinstall, InstallYCMDeps, ExtractPackage, SetOwnership, CheckDeployConfig,
       ConfigurePorts, DeployYCM, VerifyYCMProcess, VerifyYCMPorts, VerifyYCMWeb
  <2>2. Running /\ cmd.do = "ycm" /\ step < Len(Steps)
    <3>1. Running /\ cmd.do = "ycm"
      BY <2>1 DEF At
    <3>2. step \in 1..10 /\ Len(Steps) = 11
      BY <2>1, <3>1, YCMWhere, Where
    <3>3. QED  BY <3>1, <3>2
  <2>3. Goes \/ Fail \/ Break
    BY <1>1 DEF CheckPreinstall, InstallYCMDeps, ExtractPackage, SetOwnership, CheckDeployConfig,
       ConfigurePorts, DeployYCM, VerifyYCMProcess, VerifyYCMPorts, VerifyYCMWeb, Goes
  <2>4. exit' # "ok" /\ (exit' = "error" /\ lost' = {} => Fail)
    BY <2>2, <2>3 DEF Goes, Pass, PassBadly, PassBlind, Advance, Fail, Break, Running
  <2>5. ~Fail \/ ~(InstallYCMDeps \/ ExtractPackage \/ SetOwnership)
    BY <2>2 DEF InstallYCMDeps, ExtractPackage, SetOwnership, Pass, Advance, Fail, Running
  <2>6. QED  BY <1>1, <2>2, <2>3, <2>4, <2>5
<1>2. CASE ExtractCut \/ YCMBreaks
  BY <1>2 DEF ExtractCut, YCMBreaks, Break
<1>7. CASE CheckPreinstallUnanswered
  <2>1. At("ycm", "preinstall") /\ PassBlind
    BY <1>7 DEF CheckPreinstallUnanswered
  <2>2. Running /\ cmd.do = "ycm" /\ step = 1
    BY <2>1, YCMWhere
  <2>3. Len(Steps) = 11
    BY <2>2, Where
  <2>4. exit' = exit
    BY <2>1, <2>2, <2>3 DEF PassBlind, Advance
  <2>5. QED  BY <2>2, <2>4 DEF Running
<1>3. CASE ConfigAutostart
  BY <1>3, YCMWhere DEF ConfigAutostart, Pass, PassBadly, Advance, Running
<1>4. CASE CleanYCMProbe
  <2>1. cmd.do = "cleanYCM" /\ step = 1 /\ Len(Steps) = 2
    BY <1>4, CleanWhere DEF CleanYCMProbe, At
  <2>2. QED  BY <1>4, <2>1 DEF CleanYCMProbe, SkipAll, Pass, Advance, At, Running
<1>5. CASE CleanYCM \/ CleanYCMFails
  BY <1>5 DEF CleanYCM, CleanYCMFails, Pass, PassBadly, Break, Advance, At, Running
<1>6. QED  BY <1>1, <1>2, <1>3, <1>4, <1>5, <1>7 DEF YCMNext

(* How a command of YMP can end.                                           *)
LEMMA YMPEnds ==
    ASSUME TypeOK, YMPNext
    PROVE  /\ exit' = "ok" =>
                 \/ cmd.do = "ymp" /\ step = 14 /\ VerifyYMPWeb
                 \/ cmd.do = "cleanYMP" /\ (CleanYMP \/ CleanYMPFails)
           /\ exit' = "error" /\ lost' = {} =>
                 /\ Fail
                 /\ \/ cmd.do = "ymp" /\ (CheckPort \/ CheckInstallDir \/ ValidateJdk \/ InstallYmp
                                        \/ VerifyYMPProcess \/ VerifyYMPPort \/ VerifyYMPWeb)
                    \/ cmd.do = "cleanYMP" /\ (CleanYMPProbe \/ KillYMP)
<1>1. CASE CheckPort \/ WipeInstallDir \/ CreateUser \/ WriteLimits \/ InstallYMPDeps \/
           InstallJdk \/ ValidateJdk \/ ExtractYmp \/ ExtractInstantclient \/ SetupSqlplus \/
           InstallYmpSkipped \/ InstallYmp \/ VerifyYMPProcess \/ VerifyYMPPort
  <2>1. PICK s \in {"port", "dir", "user", "limits", "deps", "jdk", "java", "platform", "client",
                "sqlplus", "install", "process", "listen"} : At("ymp", s)
    BY <1>1 DEF CheckPort, WipeInstallDir, CreateUser, WriteLimits, InstallYMPDeps, InstallJdk,
       ValidateJdk, ExtractYmp, ExtractInstantclient, SetupSqlplus, InstallYmpSkipped,
       InstallYmp, VerifyYMPProcess, VerifyYMPPort
  <2>2. Running /\ cmd.do = "ymp" /\ step < Len(Steps)
    <3>1. Running /\ cmd.do = "ymp"
      BY <2>1 DEF At
    <3>2. step \in 1..13 /\ Len(Steps) = 14
      BY <2>1, <3>1, YMPWhere, Where
    <3>3. QED  BY <3>1, <3>2
  <2>3. Goes \/ Fail \/ Break
    BY <1>1 DEF CheckPort, WipeInstallDir, CreateUser, WriteLimits, InstallYMPDeps, InstallJdk,
       ValidateJdk, ExtractYmp, ExtractInstantclient, SetupSqlplus, InstallYmpSkipped,
       InstallYmp, VerifyYMPProcess, VerifyYMPPort, Adds, Goes
  <2>4. exit' # "ok" /\ (exit' = "error" /\ lost' = {} => Fail)
    BY <2>2, <2>3 DEF Goes, Pass, PassBadly, PassBlind, Advance, Fail, Break, Running
  <2>5. ~Fail \/ ~(WipeInstallDir \/ CreateUser \/ WriteLimits \/ InstallYMPDeps \/ InstallJdk \/ ExtractYmp
                   \/ ExtractInstantclient \/ SetupSqlplus \/ InstallYmpSkipped)
    BY <2>2 DEF WipeInstallDir, PassBlind, CreateUser, WriteLimits, InstallYMPDeps, InstallJdk, ExtractYmp, ExtractInstantclient,
                SetupSqlplus, InstallYmpSkipped, Adds, Pass, Advance, Fail, Running
  <2>6. QED  BY <1>1, <2>2, <2>3, <2>4, <2>5
<1>2. CASE WipeCut \/ UnzipCut \/ InstallYmpFails \/ YMPBreaks
  BY <1>2 DEF WipeCut, UnzipCut, InstallYmpFails, YMPBreaks, Break
<1>3. CASE VerifyYMPWeb
  BY <1>3, YMPWhere DEF VerifyYMPWeb, Pass, Fail, Advance, Running
<1>4. CASE CheckInstallDir \/ CheckInstallDirUnanswered
  <2>1. Running /\ cmd.do = "ymp" /\ step = 2 /\ Len(Steps) = 14
    BY <1>4, YMPWhere, Where DEF CheckInstallDir, CheckInstallDirUnanswered
  <2>2. Pass \/ PassBlind \/ Look \/ LookUnanswered \/ (Fail /\ CheckInstallDir)
    BY <1>4 DEF CheckInstallDir, CheckInstallDirUnanswered
  <2>3. exit' # "ok" /\ (exit' = "error" => Fail /\ CheckInstallDir)
    BY <2>1, <2>2 DEF Pass, PassBlind, Look, LookUnanswered, Fail, Advance, Running
  <2>4. QED  BY <2>1, <2>3
<1>5. CASE CleanYMPProbe \/ CleanYMPProbeUnanswered
  <2>1. cmd.do = "cleanYMP" /\ step = 1 /\ Len(Steps) = 2 /\ Running
    BY <1>5, CleanWhere DEF CleanYMPProbe, CleanYMPProbeUnanswered, At
  <2>2. Pass \/ PassBlind \/ SkipAll \/ SkipBlind \/ (Fail /\ CleanYMPProbe)
    BY <1>5 DEF CleanYMPProbe, CleanYMPProbeUnanswered
  <2>3. QED  BY <2>1, <2>2 DEF SkipAll, SkipBlind, Pass, PassBlind, Fail, Advance, Running
<1>6. CASE KillYMP
  BY <1>6 DEF KillYMP, Look, LookUnanswered, Break, Fail, At, Running
<1>7. CASE CleanYMP \/ CleanYMPFails
  BY <1>7 DEF CleanYMP, CleanYMPFails, Pass, PassBadly, PassBlind, Break, Advance, At, Running
<1>8. QED  BY <1>1, <1>2, <1>3, <1>4, <1>5, <1>6, <1>7 DEF YMPNext

(* A command keeps to its command line, and only its own steps end it.     *)
LEMMA YCMKeepsCommand == YCMNext => cmd' = cmd /\ cmd.do \in {"ycm", "cleanYCM"}
BY DEF YCMNext, CheckPreinstall, CheckPreinstallUnanswered, InstallYCMDeps, ExtractPackage, ExtractCut,
       SetOwnership, CheckDeployConfig, ConfigurePorts, DeployYCM, VerifyYCMProcess, VerifyYCMPorts,
       VerifyYCMWeb, ConfigAutostart, CleanYCMProbe, CleanYCM, CleanYCMFails, YCMBreaks,
       At, Pass, PassBadly, PassBlind, Fail, Break, SkipAll, Advance

LEMMA YMPKeepsCommand == YMPNext => cmd' = cmd /\ cmd.do \in {"ymp", "cleanYMP"}
<1> SUFFICES ASSUME YMPNext PROVE cmd' = cmd /\ cmd.do \in {"ymp", "cleanYMP"}
  OBVIOUS
<1>1. cmd.do \in {"ymp", "cleanYMP"}
  BY DEF YMPNext, CheckPort, CheckInstallDir, CheckInstallDirUnanswered, WipeInstallDir, WipeCut,
         CreateUser, WriteLimits, InstallYMPDeps, InstallJdk, ValidateJdk, ExtractYmp,
         ExtractInstantclient, UnzipCut, SetupSqlplus, InstallYmpSkipped, InstallYmp,
         InstallYmpFails, VerifyYMPProcess, VerifyYMPPort, VerifyYMPWeb, CleanYMPProbe,
         CleanYMPProbeUnanswered, KillYMP, CleanYMP, CleanYMPFails, YMPBreaks, At
<1>2. Goes \/ Stops \/ Look \/ LookUnanswered
  BY DEF YMPNext, CheckPort, CheckInstallDir, CheckInstallDirUnanswered, WipeInstallDir, WipeCut,
         CreateUser, WriteLimits, InstallYMPDeps, InstallJdk, ValidateJdk, ExtractYmp,
         ExtractInstantclient, UnzipCut, SetupSqlplus, InstallYmpSkipped, InstallYmp,
         InstallYmpFails, VerifyYMPProcess, VerifyYMPPort, VerifyYMPWeb, CleanYMPProbe,
         CleanYMPProbeUnanswered, KillYMP, CleanYMP, CleanYMPFails, YMPBreaks, Adds, Goes, Stops
<1>3. QED  BY <1>1, <1>2, Passes, Ends, Looks

LEMMA Quiet == StartRun \/ Reboot \/ SomebodyElse => exit' \notin {"ok", "error"}
BY DEF StartRun, Start, Reboot, SomebodyElse, Rest, Running

(* What a successful install leaves.                                       *)
LEMMA NextInstalled == TypeOK /\ Along /\ SuccessIsInstalled /\ [Next]_vars => SuccessIsInstalled'
<1> SUFFICES ASSUME TypeOK, Along, SuccessIsInstalled, [Next]_vars PROVE SuccessIsInstalled'
  OBVIOUS
<1>1. CASE exit' # "ok" \/ cmd'.do \notin {"ycm", "ymp"}
  BY <1>1 DEF SuccessIsInstalled
<1>2. CASE YCMStep /\ exit' = "ok" /\ cmd'.do = "ycm"
  <2>1. cmd' = cmd /\ cmd.do = "ycm" /\ step = 11 /\ ConfigAutostart
    BY <1>2, YCMKeepsCommand, YCMEnds DEF YCMStep, CleanYCM, CleanYCMFails, At
  <2>2. /\ {"files", "deploy", "meta"} \subseteq ycmHome /\ "owner" \in ready
        /\ "web" \in ycmUp /\ ("blind" \in lost \/ "webport" \in ready)
        /\ (lost = {} => "ports" \in ready)
    BY <2>1 DEF Along, YCMAlong, ConfigAutostart, At
  <2>3. /\ UNCHANGED <<ycmHome, ready, ycmUp>> /\ lost \subseteq lost'
        /\ (Has("root") /\ lost' = {} => unit' = "active")
    BY <2>1 DEF ConfigAutostart, Pass, PassBadly
  <2>4. QED  BY <2>1, <2>2, <2>3 DEF SuccessIsInstalled, Has
<1>3. CASE YMPStep /\ exit' = "ok" /\ cmd'.do = "ymp"
  <2>1. cmd' = cmd /\ cmd.do = "ymp" /\ step = 14 /\ VerifyYMPWeb
    BY <1>3, YMPKeepsCommand, YMPEnds DEF YMPStep, CleanYMP, CleanYMPFails, At
  <2>2. /\ "web" \in ympUp[d] /\ user
        /\ "blind" \in lost \/ (env = d /\ "db" \in ympHome[d])
        /\ {"platform", "client"} \subseteq ympHome[d] /\ {"limits", "jdk"} \subseteq host
    BY <2>1 DEF Along, YMPAlong, VerifyYMPWeb, At
  <2>3. UNCHANGED ympVars /\ lost' = lost
    BY <2>1 DEF VerifyYMPWeb, Pass, Fail
  <2>4. QED  BY <2>1, <2>2, <2>3 DEF SuccessIsInstalled, ympVars, d
<1>4. CASE UNCHANGED vars \/ Done
  BY <1>4 DEF Done, vars, control, ycmVars, ympVars, SuccessIsInstalled, Has
<1>5. QED
  BY <1>1, <1>2, <1>3, <1>4, Quiet, YCMKeepsCommand, YMPKeepsCommand DEF Next, YCMStep, YMPStep

(* An install that reports success has installed what it says, for every   *)
(* sequence of commands, failures, reboots and foreign files before it.    *)
THEOREM InstalledOnSuccess == Spec => []SuccessIsInstalled
<1>1. Init => SuccessIsInstalled
  BY DEF Init, Idle, SuccessIsInstalled
<1>2. QED  BY <1>1, InitTyped, InitAlong, NextTyped, NextAlong, NextInstalled, PTL DEF Spec

(* What a clean leaves, and what stops it.                                 *)
LEMMA NextCleaned == TypeOK /\ CleanRecovers /\ [Next]_vars => CleanRecovers'
<1> SUFFICES ASSUME TypeOK, CleanRecovers, [Next]_vars, lost' = {} PROVE CleanRecovers'
  BY DEF CleanRecovers
<1>0. ympHome \in [Dirs -> SUBSET Parts] /\ ympUp \in [Dirs -> SUBSET {"web", "back"}]
      /\ env \in Dirs \cup {"none"}
  BY DEF TypeOK, YMPTypeOK
<1>1. CASE exit' \notin {"ok", "error"} \/ cmd'.do \notin {"cleanYCM", "cleanYMP"}
  BY <1>1 DEF CleanRecovers
<1>2. CASE YCMStep /\ cmd'.do = "cleanYCM" /\ exit' = "ok"
  <2>1. cmd' = cmd /\ CleanYCM /\ Pass
    BY <1>2, YCMKeepsCommand, YCMEnds
       DEF YCMStep, ConfigAutostart, CleanYCM, CleanYCMFails, PassBadly, Break, At
  <2>2. ycmUp' = {} /\ ycmHome' = {} /\ (Has("root") => unit' = "none")
    BY <1>2, <2>1 DEF CleanYCM, UnitAfterClean, Break
  <2>3. Has("root")' => ~PreinstallBlocked(FALSE)'
    BY <2>1, <2>2 DEF PreinstallBlocked, Has
  <2>4. QED  BY <1>2, <2>3 DEF CleanRecovers
<1>3. CASE YCMStep /\ cmd'.do = "cleanYCM" /\ exit' = "error"
  BY <1>3, YCMKeepsCommand, YCMEnds DEF YCMStep
<1>4. CASE YMPStep /\ cmd'.do = "cleanYMP" /\ exit' = "ok"
  <2>1. cmd' = cmd /\ CleanYMP /\ Pass
    <3>1. cmd' = cmd /\ cmd.do = "cleanYMP" /\ (CleanYMP \/ CleanYMPFails)
      BY <1>4, YMPKeepsCommand, YMPEnds DEF YMPStep
    <3>2. ~PassBadly /\ ~PassBlind /\ ~Break /\ ~Fail
      BY <1>4 DEF PassBadly, PassBlind, Break, Fail
    <3>3. QED  BY <3>1, <3>2 DEF CleanYMP, CleanYMPFails
  <2>2. UpOf(d) = {} /\ ympUp' = ympUp /\ ReduceTo({}) /\ env' = EnvWithout(d)
    BY <1>4, <2>1 DEF CleanYMP, PassBlind, Break
  <2>3. cmd.dir \in Dirs => ympUp'[cmd.dir] = {} /\ ympHome'[cmd.dir] = {} /\ env' # cmd.dir
    BY <1>0, <2>2 DEF UpOf, ReduceTo, EnvWithout, Mentions, Dirs, d
  <2>4. QED  BY <1>4, <2>1, <2>3 DEF CleanRecovers
<1>5. CASE YMPStep /\ cmd'.do = "cleanYMP" /\ exit' = "error"
  <2>1. cmd' = cmd /\ Fail /\ (CleanYMPProbe \/ KillYMP)
    BY <1>5, YMPKeepsCommand, YMPEnds DEF YMPStep
  <2>2. (~user \/ Foreign(d)) /\ UNCHANGED <<user, ympHome>>
    <3>1. CASE CleanYMPProbe
      <4>1. CASE ~user \/ Foreign(d)
        BY <3>1, <4>1 DEF CleanYMPProbe, ympVars
      <4>2. CASE user /\ ~Foreign(d)
        <5>1. SkipAll \/ Pass
          BY <3>1, <4>2 DEF CleanYMPProbe
        <5>2. QED  BY <1>5, <3>1, <5>1 DEF CleanYMPProbe, Pass, SkipAll, Advance, Running, At
      <4>3. QED  BY <4>1, <4>2
    <3>2. CASE KillYMP
      BY <1>5, <2>1, <3>2 DEF KillYMP, Fail, Look, Break, Running, At
    <3>3. QED  BY <2>1, <3>1, <3>2
  <2>3. QED  BY <1>5, <2>1, <2>2 DEF CleanRecovers, Foreign, HomeOf, d
<1>6. CASE UNCHANGED vars \/ Done
  BY <1>6 DEF Done, vars, control, ycmVars, ympVars, CleanRecovers, Has, PreinstallBlocked,
              LooksLikeYCM, HomeOf
<1>7. QED
  BY <1>1, <1>2, <1>3, <1>4, <1>5, <1>6, Quiet, YCMKeepsCommand, YMPKeepsCommand
     DEF Next, YCMStep, YMPStep

(* The documented way out of a failed install is open after a clean, from  *)
(* every state that any sequence of commands can have left.                *)
THEOREM CleanIsAWayOut == Spec => []CleanRecovers
<1>1. Init => CleanRecovers
  BY DEF Init, Idle, CleanRecovers
<1>2. QED  BY <1>1, InitTyped, NextTyped, NextCleaned, PTL DEF Spec

(* Where a forced install can stop.                                        *)
LEMMA YCMForced ==
    ASSUME TypeOK, Along, YCMNext, exit' = "error", lost' = {}, Has("wipe")
    PROVE  step = 1 /\ UNCHANGED ycmVars /\ (ycmUp # {} \/ unit = "active" \/ ~LooksLikeYCM)
<1>0. Fail /\ lost = {}
  BY YCMEnds DEF Fail
<1>1. ~Pass /\ ~PassBadly /\ ~Break
  <2>1. Running
    BY YCMEnds DEF CheckPreinstall, CheckDeployConfig, ConfigurePorts, DeployYCM,
                   VerifyYCMProcess, VerifyYCMPorts, VerifyYCMWeb, At
  <2>2. QED  BY <2>1 DEF Pass, PassBadly, Break, Advance, Running
<1>2. CASE CheckPreinstall
  <2>1. step = 1 /\ Running
    BY <1>2, YCMWhere DEF CheckPreinstall
  <2>2. PreinstallBlocked(Has("wipe")) /\ UNCHANGED ycmVars
    <3>1. ~Pass
      BY <2>1 DEF Pass, Advance, Running
    <3>2. QED  BY <1>2, <3>1 DEF CheckPreinstall
  <2>3. QED  BY <2>1, <2>2 DEF PreinstallBlocked
<1>3. CASE CheckDeployConfig \/ ConfigurePorts \/ DeployYCM
  <2>1. step \in 5..7 /\ Running /\ cmd.do = "ycm"
    BY <1>3, YCMWhere DEF CheckDeployConfig, ConfigurePorts, DeployYCM
  <2>2. "deploy" \in ycmHome /\ InitFile \subseteq beside
    BY <2>1 DEF Along, YCMAlong
  <2>3. lay.split => "init" \in beside
    BY <2>2 DEF InitFile
  <2>4. QED  BY <1>1, <1>3, <2>2, <2>3 DEF CheckDeployConfig, ConfigurePorts, DeployYCM
<1>4. CASE VerifyYCMProcess \/ VerifyYCMPorts \/ VerifyYCMWeb
  <2>1. step \in 8..10 /\ Running /\ cmd.do = "ycm"
    BY <1>4, YCMWhere DEF VerifyYCMProcess, VerifyYCMPorts, VerifyYCMWeb
  <2>2. ycmUp = {"web", "back"}
    BY <1>0, <2>1 DEF Along, YCMAlong
  <2>3. QED  BY <1>1, <1>4, <2>2 DEF VerifyYCMProcess, VerifyYCMPorts, VerifyYCMWeb
<1>5. QED  BY <1>2, <1>3, <1>4, YCMEnds

LEMMA YMPForced ==
    ASSUME TypeOK, Along, YMPNext, exit' = "error", lost' = {}, Has("wipe"), cmd.do = "ymp"
    PROVE  /\ step' = step /\ UNCHANGED ympVars
           /\ \/ step = 1 /\ ympUp[d] # {}
              \/ step = 2 /\ "foreign" \in ympHome[d]
              \/ step \in {12, 13} /\ "web" \notin ympUp[d] /\ env # "none" /\ ~Has("again")
<1>0. Fail /\ lost = {} /\ step' = step
  BY YMPEnds DEF Fail
<1>1. ~Pass /\ ~PassBadly /\ ~Break
  <2>1. Running
    BY YMPEnds DEF CheckPort, CheckInstallDir, ValidateJdk, InstallYmp,
                   VerifyYMPProcess, VerifyYMPPort, VerifyYMPWeb, At
  <2>2. QED  BY <2>1 DEF Pass, PassBadly, Break, Advance, Running
<1>2. CASE CheckPort
  <2>1. ~PassBlind
    BY <1>0 DEF PassBlind
  <2>2. QED  BY <1>0, <1>1, <1>2, <2>1, YMPWhere DEF CheckPort
<1>3. CASE CheckInstallDir
  <2>1. d \in Dirs
    BY Where DEF d
  <2>2. Foreign(d) /\ UNCHANGED ympVars
    <3>1. ~Look
      BY <1>0, <1>3 DEF Look, Fail
    <3>2. QED  BY <1>1, <1>3, <3>1 DEF CheckInstallDir, ympVars
  <2>3. QED  BY <1>0, <1>3, <2>1, <2>2, YMPWhere DEF CheckInstallDir, Foreign, HomeOf
<1>4. CASE ValidateJdk \/ InstallYmp
  <2>1. step \in {7, 11} /\ Running
    BY <1>4, YMPWhere DEF ValidateJdk, InstallYmp
  <2>2. "jdk" \in host /\ (step = 11 => "client" \in ympHome[d])
    BY <2>1 DEF Along, YMPAlong
  <2>3. ~ValidateJdk
    BY <1>1, <2>2 DEF ValidateJdk
  <2>4. step = 11
    BY <1>4, <2>3, YMPWhere DEF InstallYmp
  <2>5. QED  BY <1>1, <1>4, <2>2, <2>3, <2>4 DEF InstallYmp
<1>5. CASE VerifyYMPProcess \/ VerifyYMPPort
  <2>1. step \in {12, 13} /\ Running /\ "web" \notin ympUp[d] /\ UNCHANGED ympVars
    BY <1>1, <1>5, YMPWhere DEF VerifyYMPProcess, VerifyYMPPort
  <2>2. env # "none" /\ ~Has("again")
    BY <1>0, <2>1 DEF Along, YMPAlong
  <2>3. QED  BY <1>0, <2>1, <2>2
<1>6. CASE VerifyYMPWeb
  <2>1. step = 14 /\ Running
    BY <1>6, YMPWhere DEF VerifyYMPWeb
  <2>2. "web" \in ympUp[d]
    BY <1>0, <2>1 DEF Along, YMPAlong
  <2>3. QED  BY <1>1, <1>6, <2>2 DEF VerifyYMPWeb
<1>7. QED  BY <1>2, <1>3, <1>4, <1>5, <1>6, YMPEnds

LEMMA NextForced ==
    TypeOK /\ Along /\ ForcedInstallRecovers /\ [Next]_vars => ForcedInstallRecovers'
<1> SUFFICES ASSUME TypeOK, Along, ForcedInstallRecovers, [Next]_vars PROVE ForcedInstallRecovers'
  OBVIOUS
<1>1. CASE exit' # "error" \/ lost' # {} \/ ~Has("wipe")'
  BY <1>1 DEF ForcedInstallRecovers
<1>2. CASE YCMStep /\ exit' = "error" /\ lost' = {} /\ Has("wipe")'
  <2>1. cmd' = cmd /\ cmd.do # "ymp" /\ Has("wipe")
    BY <1>2, YCMKeepsCommand DEF YCMStep, Has
  <2>2. step' = step
    BY <1>2, YCMEnds DEF YCMStep, Fail
  <2>3. /\ step = 1 /\ UNCHANGED ycmVars
        /\ ycmUp # {} \/ unit = "active" \/ ~LooksLikeYCM
    BY <1>2, <2>1, YCMForced DEF YCMStep
  <2>4. QED  BY <1>2, <2>1, <2>2, <2>3 DEF ForcedInstallRecovers, ycmVars, LooksLikeYCM
<1>3. CASE YMPStep /\ exit' = "error" /\ lost' = {} /\ Has("wipe")'
  <2>1. cmd' = cmd /\ cmd.do # "ycm" /\ Has("wipe") /\ (Has("again")' <=> Has("again"))
    BY <1>3, YMPKeepsCommand DEF YMPStep, Has
  <2>2. CASE cmd.do = "ymp"
    <3>1. /\ step' = step /\ UNCHANGED ympVars
          /\ \/ step = 1 /\ ympUp[d] # {}
             \/ step = 2 /\ "foreign" \in ympHome[d]
             \/ step \in {12, 13} /\ "web" \notin ympUp[d] /\ env # "none" /\ ~Has("again")
      BY <1>3, <2>1, <2>2, YMPForced DEF YMPStep
    <3>2. YMPSteps[12] = "process" /\ YMPSteps[13] = "listen"
      BY DEF YMPSteps
    <3>3. QED  BY <2>1, <2>2, <3>1, <3>2 DEF ForcedInstallRecovers, ympVars, d
  <2>3. CASE cmd.do # "ymp"
    BY <2>1, <2>3 DEF ForcedInstallRecovers
  <2>4. QED  BY <2>2, <2>3
<1>4. CASE UNCHANGED vars \/ Done
  BY <1>4 DEF Done, vars, control, ycmVars, ympVars, ForcedInstallRecovers, Has, LooksLikeYCM
<1>5. QED  BY <1>1, <1>2, <1>3, <1>4, Quiet DEF Next

(* Whatever earlier runs have left, a forced install gives up only for the *)
(* reasons ForcedInstallRecovers names.                                    *)
THEOREM ForceIsAWayOut == Spec => []ForcedInstallRecovers
<1>1. Init => ForcedInstallRecovers
  BY DEF Init, Idle, ForcedInstallRecovers
<1>2. QED  BY <1>1, InitTyped, InitAlong, NextTyped, NextAlong, NextForced, PTL DEF Spec

=============================================================================
