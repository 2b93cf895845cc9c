-------------------------------- MODULE YMP --------------------------------
(***************************************************************************)
(* YMP on the host: the steps H-001 to H-014 of internal/steps/ymp and     *)
(* "clean --type ymp".  Two instances are possible, in /opt/ymp and, for   *)
(* another port, in /opt/ymp<port>; they share the user and with it        *)
(* ~/.yasboot/ymp.env, which refers to the one whose embedded database was *)
(* set up last.  External: ymp.sh, yasboot and the packages.               *)
(***************************************************************************)
EXTENDS ProductRun

(* platform: ymp.sh is there, client: instantclient, db: the embedded      *)
(* database has been begun, foreign: files of somebody else.               *)
VARIABLES ympHome,               \* what lies in each install directory
          env,                   \* none, or the directory that ymp.env refers to
          user,                  \* the user exists
          ympUp,                 \* per directory; web: its port is open, back: any other process
          host                   \* what the host has: limits, jdk

ympVars == <<ympHome, env, user, ympUp, host>>
Parts == {"foreign", "platform", "client", "db"}

YMPInit ==
    /\ ympHome \in [Dirs -> {{}, {"foreign"}}] /\ env = "none" /\ user \in BOOLEAN
    /\ ympUp = [d \in Dirs |-> {}] /\ host \in {{}, {"jdk"}}

-----------------------------------------------------------------------------
(* What common/os/env.go finds out about a directory. *)

d == cmd.dir
HomeOf(x) == IF x \in Dirs THEN ympHome[x] ELSE {}
UpOf(x) == IF x \in Dirs THEN ympUp[x] ELSE {}

(* Entries at the top of the directory that YMP does not put there, as an  *)
(* answered "find" shows them.                                             *)
ForeignNever(x) == FALSE                 \* mutant: the entries are not looked at
Foreign(x) == "foreign" \in HomeOf(x)

(* ymp.env is a file, and "grep -F /opt/ymp" matches /opt/ymp<port> too.   *)
Mentions(x) == env = x \/ (x = "a" /\ env = "b")
EnvWithout(x) == IF Mentions(x) THEN "none" ELSE env

(* ps is searched for the directory with a "/" behind it.                  *)
ProcessesIn(x) == {x} \cap Dirs
UpWithout(x) == [y \in Dirs |-> IF y \in ProcessesIn(x) THEN {} ELSE ympUp[y]]

-----------------------------------------------------------------------------
(* H-001 asks for four ports, which not every process holds; without an    *)
(* answer a port is free.                                                  *)
CheckPort ==
    /\ At("ymp", "port") /\ UNCHANGED ympVars
    /\ \/ ympUp[d] # {} /\ Fail
       \/ "web" \notin ympUp[d] /\ Pass
       \/ ympUp[d] # {} /\ PassBlind

(* H-002: only -f H-002 deletes the directory; -f H-011 keeps it; without  *)
(* them it has to be empty, and no answer means that it is.                *)
CheckInstallDir ==
    /\ At("ymp", "dir") /\ ~looked /\ UNCHANGED ympVars
    /\ IF ympHome[d] = {} \/ (Has("again") /\ ~Has("wipe"))
       THEN Pass
       ELSE IF Has("wipe") /\ ~Foreign(d) THEN Look ELSE Fail
CheckInstallDirUnanswered ==
    /\ At("ymp", "dir") /\ ~looked /\ ympHome[d] # {} /\ UNCHANGED ympVars
    /\ PassBlind \/ (Has("wipe") /\ LookUnanswered)

(* "rm -rf" is a command of its own and does not look again; then ymp.env  *)
(* goes, if it is found.                                                   *)
WipeInstallDir ==
    /\ At("ymp", "dir") /\ looked /\ UNCHANGED <<user, ympUp, host>>
    /\ ympHome' = [ympHome EXCEPT ![d] = {}]
    /\ \/ Pass /\ env' = EnvWithout(d)
       \/ Mentions(d) /\ PassBlind /\ UNCHANGED env
WipeCut ==
    /\ At("ymp", "dir") /\ looked /\ Break /\ UNCHANGED <<env, user, ympUp, host>>
    /\ \E rest \in SUBSET ympHome[d] : ympHome' = [ympHome EXCEPT ![d] = rest]

(* H-003 to H-007: the user, its limits, packages, which no later step     *)
(* looks for, a JDK.                                                       *)
CreateUser ==
    /\ At("ymp", "user") /\ Pass
    /\ user' = TRUE /\ UNCHANGED <<ympHome, env, ympUp, host>>
Adds(what) == Pass /\ host' = host \cup {what} /\ UNCHANGED <<ympHome, env, user, ympUp>>
WriteLimits == At("ymp", "limits") /\ Adds("limits")
InstallYMPDeps == At("ymp", "deps") /\ Pass /\ UNCHANGED ympVars
InstallJdk == At("ymp", "jdk") /\ Adds("jdk")
ValidateJdk ==
    /\ At("ymp", "java") /\ UNCHANGED ympVars
    /\ IF "jdk" \in host THEN Pass ELSE Fail

(* H-008 and H-009 unzip over what is there; H-010 is skipped without its  *)
(* package, and nothing looks for its sqlplus.                             *)
Unzips(part) ==
    /\ ympHome' = [ympHome EXCEPT ![d] = @ \cup {part}]
    /\ UNCHANGED <<env, user, ympUp, host>>
ExtractYmp == At("ymp", "platform") /\ Unzips("platform") /\ Pass
ExtractInstantclient == At("ymp", "client") /\ Unzips("client") /\ Pass
UnzipCut ==
    \/ At("ymp", "platform") /\ Unzips("platform") /\ Break
    \/ At("ymp", "client") /\ Unzips("client") /\ Break
SetupSqlplus == At("ymp", "sqlplus") /\ Pass /\ UNCHANGED ympVars

-----------------------------------------------------------------------------
(* H-011: a database directory with something in it, or any ymp.env, is a  *)
(* finished installation, which only -f H-011 repeats.                     *)
InstallCompleted(x) == "db" \in HomeOf(x) \/ env # "none"
InstallYmpSkipped ==
    /\ At("ymp", "install") /\ UNCHANGED ympVars
    /\ InstallCompleted(d) /\ ~Has("again") /\ Pass

(* ymp.sh install, and for another port a stop and a start, whose failure  *)
(* is only a warning.                                                      *)
EnvToInstall == IF Has("again") THEN EnvWithout(d) ELSE env
InstallYmp ==
    /\ At("ymp", "install") /\ UNCHANGED <<user, host>>
    /\ (InstallCompleted(d) => Has("again"))
    /\ IF "client" \notin ympHome[d]
       THEN Fail /\ env' = EnvToInstall /\ UNCHANGED <<ympHome, ympUp>>
       ELSE /\ ympHome' = [ympHome EXCEPT ![d] = @ \cup {"db"}] /\ env' = d
            /\ \/ Pass /\ ympUp' = [ympUp EXCEPT ![d] = {"web", "back"}]
               \/ /\ d # "a" /\ PassBadly
                  /\ \E up \in {{}, {"back"}} : ympUp' = [ympUp EXCEPT ![d] = up]
InstallYmpFails ==
    /\ At("ymp", "install") /\ Break /\ UNCHANGED <<user, host>>
    /\ {"platform", "client"} \subseteq ympHome[d] /\ (InstallCompleted(d) => Has("again"))
    /\ ympHome' \in {ympHome, [ympHome EXCEPT ![d] = @ \cup {"db"}]}
    /\ env' \in {env, EnvToInstall, d}
    /\ \E up \in {{}, {"back"}} : ympUp' = [ympUp EXCEPT ![d] = @ \cup up]

(* H-012, H-013, H-014: three attempts each; no HTTP probe without curl.   *)
VerifyYMPProcess ==
    /\ At("ymp", "process") /\ UNCHANGED ympVars
    /\ IF ympUp[d] # {} THEN Pass ELSE Fail
VerifyYMPPortLoosely ==                  \* mutant: only a warning, as for the other ports
    At("ymp", "listen") /\ UNCHANGED ympVars /\ Pass
VerifyYMPPort ==
    /\ At("ymp", "listen") /\ UNCHANGED ympVars
    /\ IF "web" \in ympUp[d] THEN Pass ELSE Fail
VerifyYMPWeb ==
    /\ At("ymp", "web") /\ UNCHANGED ympVars
    /\ Pass \/ ("web" \notin ympUp[d] /\ Fail)
-----------------------------------------------------------------------------
(* clean --type ymp: the PreCheck needs the user, refuses the directory    *)
(* with foreign entries, and skips when there is neither it nor ymp.env.   *)
CleanYMPProbe ==
    /\ At("cleanYMP", "probe") /\ UNCHANGED ympVars
    /\ \/ (~user \/ Foreign(d)) /\ Fail
       \/ user /\ HomeOf(d) = {} /\ env = "none" /\ SkipAll
       \/ user /\ ~Foreign(d) /\ (HomeOf(d) # {} \/ env # "none") /\ Pass
CleanYMPProbeUnanswered ==
    /\ At("cleanYMP", "probe") /\ user /\ UNCHANGED ympVars
    /\ PassBlind \/ SkipBlind

(* The Action kills, whether a process survives or not, and then looks for *)
(* foreign entries again.                                                  *)
KillYMP ==
    /\ At("cleanYMP", "remove") /\ ~looked /\ UNCHANGED <<ympHome, env, user, host>>
    /\ ympUp' \in {ympUp, UpWithout(d)}
    /\ \/ Foreign(d) /\ (Fail \/ LookUnanswered)
       \/ ~Foreign(d) /\ Look
       \/ Break

(* "rm -rf" is a command of its own here too; then ymp.env, and the        *)
(* PostCheck looks for processes.                                          *)
ReduceTo(rest) == ympHome' = [x \in Dirs |-> IF x = d THEN rest ELSE ympHome[x]]
CleanYMP ==
    /\ At("cleanYMP", "remove") /\ looked /\ UNCHANGED <<user, ympUp, host>>
    /\ ReduceTo({}) /\ env' = EnvWithout(d)
    /\ IF UpOf(d) = {} THEN Pass ELSE Break \/ PassBlind

(* rm fails, which is only a warning, ymp.env is not found, or the command *)
(* is cut off.                                                             *)
CleanYMPFails ==
    /\ At("cleanYMP", "remove") /\ looked /\ UNCHANGED <<user, ympUp, host>>
    /\ \E rest \in SUBSET HomeOf(d) : ReduceTo(rest)
    /\ \/ UpOf(d) = {} /\ env' = EnvWithout(d) /\ PassBadly
       \/ env' \in {env, EnvWithout(d)} /\ Break
       \/ UNCHANGED env /\ PassBlind

(* Nothing starts YMP again after a reboot.                                *)
YMPReboots == ympUp' = [x \in Dirs |-> {}] /\ UNCHANGED <<ympHome, env, user, host>>

YMPForeign ==
    \E x \in Dirs :
        /\ "foreign" \notin ympHome[x] /\ ympHome' = [ympHome EXCEPT ![x] = @ \cup {"foreign"}]
        /\ UNCHANGED <<env, user, ympUp, host>>

(* A command fails or the connection is lost.                              *)
YMPBreaks == Running /\ cmd.do \in {"ymp", "cleanYMP"} /\ Break /\ UNCHANGED ympVars

YMPNext ==
    \/ CheckPort \/ CheckInstallDir \/ CheckInstallDirUnanswered \/ WipeInstallDir \/ WipeCut
    \/ CreateUser \/ WriteLimits \/ InstallYMPDeps
    \/ InstallJdk \/ ValidateJdk \/ ExtractYmp \/ ExtractInstantclient \/ UnzipCut
    \/ SetupSqlplus \/ InstallYmpSkipped \/ InstallYmp \/ InstallYmpFails
    \/ VerifyYMPProcess \/ VerifyYMPPort \/ VerifyYMPWeb
    \/ CleanYMPProbe \/ CleanYMPProbeUnanswered \/ KillYMP \/ CleanYMP \/ CleanYMPFails \/ YMPBreaks

YMPTypeOK ==
    /\ ympHome \in [Dirs -> SUBSET Parts] /\ env \in Dirs \cup {"none"} /\ user \in BOOLEAN
    /\ ympUp \in [Dirs -> SUBSET {"web", "back"}]
    /\ host \subseteq {"limits", "jdk"}
=============================================================================
