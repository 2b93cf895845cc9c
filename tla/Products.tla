------------------------------ MODULE Products ------------------------------
(***************************************************************************)
(* YCM and YMP on one host, installed, repaired and cleaned by any sequence*)
(* of runs; between them the host may restart, and somebody may put files  *)
(* where the products want to be.                                          *)
(***************************************************************************)
EXTENDS YCM, YMP

vars == <<control, ycmVars, ympVars>>

Init == Idle /\ YCMInit /\ YMPInit

StartRun == Start /\ UNCHANGED <<ycmVars, ympVars>>
YCMStep == YCMNext /\ UNCHANGED ympVars
YMPStep == YMPNext /\ UNCHANGED ycmVars

Reboot ==
    /\ ~Running /\ exit # "idle" /\ YCMReboots /\ YMPReboots
    /\ Rest /\ UNCHANGED run

(* Also during a run, and between the look at a directory and its deletion.*)
SomebodyElse ==
    /\ \/ YCMForeign /\ UNCHANGED ympVars
       \/ YMPForeign /\ UNCHANGED ycmVars
    /\ IF Running
       THEN /\ lost' = lost \cup {IF looked THEN "late" ELSE "disturbed"}
            /\ UNCHANGED <<cmd, step, exit, looked>>
       ELSE Rest
    /\ UNCHANGED run

Done == ~Running /\ run = Runs /\ UNCHANGED vars

Next == StartRun \/ YCMStep \/ YMPStep \/ Reboot \/ SomebodyElse \/ Done

Spec == Init /\ [][Next]_vars
-----------------------------------------------------------------------------
TypeOK ==
    /\ cmd \in Commands /\ run \in 0..Runs /\ step \in DOMAIN Steps
    /\ exit \in {"none", "ok", "skipped", "error", "idle"} /\ looked \in BOOLEAN
    /\ lost \subseteq Mishaps
    /\ YCMTypeOK /\ YMPTypeOK

(* Nothing of others is lost.  No command, forced or not, deletes foreign  *)
(* files from a YMP directory (env.go "refusing to remove ... non-YMP      *)
(* entries detected") - but from its own, if the last look before the      *)
(* deletion got no answer or they came after it.  None stops or empties    *)
(* the other instance, and no install deletes a YCM home without a file of *)
(* YCM ("does not look like YCM") - unless a ycm-init left beside it       *)
(* vouches for it, G-001 got no answer, or the files came after it.        *)
OthersKept ==
    [][/\ \A x \in Dirs : "foreign" \in ympHome[x] /\ "foreign" \notin ympHome'[x] =>
             Running /\ x = cmd.dir /\ lost \cap {"unseen", "late"} # {}
       /\ Running => \A x \in Dirs \ {cmd.dir} :
             ympHome[x] \subseteq ympHome'[x] /\ ympUp[x] \subseteq ympUp'[x]
       /\ Running /\ cmd.do = "ycm" /\ lost = {} /\ "init" \notin beside /\ ycmHome = {"foreign"} =>
             "foreign" \in ycmHome']_vars

(* An install that reports success serves its Web port from a home that is *)
(* complete, set up as this package needs it, and comes back after a       *)
(* reboot where the code promises it - unless the gates in front of it got *)
(* no answer: then it may be what ran there before that serves the port.   *)
SuccessIsInstalled ==
    exit = "ok" =>
        /\ cmd.do = "ycm" =>
              /\ "web" \in ycmUp /\ {"files", "deploy", "meta"} \subseteq ycmHome
              /\ "owner" \in ready /\ ("blind" \in lost \/ "webport" \in ready)
              /\ lost = {} => "ports" \in ready /\ (Has("root") => unit = "active")
        /\ cmd.do = "ymp" =>
              /\ "web" \in ympUp[cmd.dir] /\ user
              /\ {"platform", "client"} \subseteq ympHome[cmd.dir]
              /\ "blind" \in lost \/ (env = cmd.dir /\ "db" \in ympHome[cmd.dir])
              /\ {"limits", "jdk"} \subseteq host

(* "Remediation: yinstall clean ...; then re-run yinstall ycm"             *)
(* (formatYCMPrecheckError): from every state a clean is refused only for  *)
(* foreign files or a user that does not exist, and after one with root,   *)
(* that was not skipped, the gates of the next install are open.           *)
CleanRecovers ==
    lost = {} =>
        /\ exit = "ok" /\ cmd.do = "cleanYCM" /\ Has("root") => ~PreinstallBlocked(FALSE)
        /\ exit = "ok" /\ cmd.do = "cleanYMP" /\ cmd.dir \in Dirs =>
              ympUp[cmd.dir] = {} /\ ympHome[cmd.dir] = {} /\ env # cmd.dir
        /\ exit = "error" /\ cmd.do \in {"cleanYCM", "cleanYMP"} =>
              cmd.do = "cleanYMP" /\ (~user \/ "foreign" \in HomeOf(cmd.dir))

(* "use -f H-002 to wipe and reinstall", "wipe install dir: ... -f G-003": *)
(* whatever an earlier run left, a forced install is stopped by running    *)
(* processes, an active unit or foreign files, and by nothing else - but   *)
(* for a ymp.env that has outlived its directory or belongs to the other   *)
(* instance, which makes H-011 skip the installation.                      *)
ForcedInstallRecovers ==
    exit = "error" /\ lost = {} /\ Has("wipe") =>
        /\ cmd.do = "ycm" =>
              step = 1 /\ (ycmUp # {} \/ unit = "active" \/ ~LooksLikeYCM)
        /\ cmd.do = "ymp" =>
              \/ step = 1 /\ ympUp[cmd.dir] # {}
              \/ step = 2 /\ "foreign" \in ympHome[cmd.dir]
              \/ YMPSteps[step] \in {"process", "listen"} /\ "web" \notin ympUp[cmd.dir]
                 /\ env # "none" /\ ~Has("again")
=============================================================================
