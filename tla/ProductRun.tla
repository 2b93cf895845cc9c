----------------------------- MODULE ProductRun -----------------------------
(***************************************************************************)
(* The runs of "yinstall ycm", "yinstall ymp" and "yinstall clean" for the *)
(* two products, one after the other on one host: which steps a command    *)
(* has, how it goes from step to step (internal/cli) and how it ends.      *)
(* YCM and YMP add the steps, Products puts both on the host.              *)
(***************************************************************************)
EXTENDS Naturals, Sequences

CONSTANTS Commands,              \* the command lines to check
          Runs                   \* bound on the number of runs

(* YMP is installed in /opt/ymp ("a") or, for another port, /opt/ymp<port> *)
(* ("b"); "c" is /opt/ymp_<port>, which no install uses.                   *)
Dirs == {"a", "b"}

(* wipe: -f G-003 or H-002, again: -f H-011, root: root or sudo, home: a   *)
(* clean that names --ycm-home and no --ycm-install-dir.                   *)
IsCommand(c) ==
    /\ DOMAIN c = {"do", "dir", "flags"}
    /\ c.do \in {"ycm", "ymp", "cleanYCM", "cleanYMP"} /\ c.dir \in Dirs \cup {"c"}
    /\ c.do = "ymp" => c.dir \in Dirs
    /\ c.flags \subseteq {"wipe", "again", "root", "home"}

ASSUME CommandsAssumption == \A c \in Commands : IsCommand(c)
ASSUME RunsAssumption == Runs \in Nat \ {0}

VARIABLES cmd, run, step,        \* the command, its number and its position
          exit,                  \* none while it runs; skipped is reported as success;
                                 \* idle once something else happened to the host
          looked,                \* the YMP directory has been looked at and is deleted next
          lost                   \* what went wrong for a reason of its own, one of Mishaps

control == <<cmd, run, step, exit, looked, lost>>

(* disturbed: a command failed, the connection broke or somebody put files *)
(* there; late: he did after the look at the directory; unseen: that look  *)
(* got no answer, blind: another question got none, which the code takes   *)
(* for "nothing there".                                                    *)
Mishaps == {"disturbed", "late", "unseen", "blind"}

YCMSteps == <<"preinstall", "deps", "extract", "owner", "config", "ports", "deploy",
              "process", "listen", "web", "unit">>
YMPSteps == <<"port", "dir", "user", "limits", "deps", "jdk", "java", "platform", "client",
              "sqlplus", "install", "process", "listen", "web">>
CleanSteps == <<"probe", "remove">>
Steps == CASE cmd.do = "ycm" -> YCMSteps
           [] cmd.do = "ymp" -> YMPSteps
           [] OTHER -> CleanSteps

Running == exit = "none"
At(do, s) == Running /\ cmd.do = do /\ Steps[step] = s
Has(f) == f \in cmd.flags

Idle ==
    /\ run = 0 /\ exit = "idle" /\ cmd \in Commands /\ step = 1
    /\ looked = FALSE /\ lost = {}
Rest == exit' = "idle" /\ step' = 1 /\ looked' = FALSE /\ lost' = {} /\ UNCHANGED cmd

Start ==
    /\ ~Running /\ run < Runs
    /\ cmd' \in Commands /\ run' = run + 1 /\ step' = 1 /\ exit' = "none"
    /\ looked' = FALSE /\ lost' = {}

(* The next step; a step that was skipped counts as passed.                *)
Advance ==
    /\ IF step < Len(Steps) THEN step' = step + 1 /\ UNCHANGED exit
                            ELSE exit' = "ok" /\ UNCHANGED step
    /\ looked' = FALSE /\ UNCHANGED <<cmd, run>>
Pass == Advance /\ UNCHANGED lost
PassBadly == Advance /\ lost' = lost \cup {"disturbed"}
PassBlind == Advance /\ lost' = lost \cup {"blind"}

(* A step that fails ends the command, an optional one too.                *)
Fail == exit' = "error" /\ looked' = FALSE /\ UNCHANGED <<cmd, run, step, lost>>
Break ==
    /\ exit' = "error" /\ looked' = FALSE /\ lost' = lost \cup {"disturbed"}
    /\ UNCHANGED <<cmd, run, step>>

(* The only step of a clean is skipped.                                    *)
SkipAll == exit' = "skipped" /\ looked' = FALSE /\ UNCHANGED <<cmd, run, step, lost>>
SkipBlind ==
    /\ exit' = "skipped" /\ looked' = FALSE /\ lost' = lost \cup {"blind"}
    /\ UNCHANGED <<cmd, run, step>>

(* The look at a directory before the command that deletes it.             *)
Look == looked' = TRUE /\ UNCHANGED <<cmd, run, step, exit, lost>>
LookUnanswered ==
    /\ looked' = TRUE /\ lost' = lost \cup {"unseen"}
    /\ UNCHANGED <<cmd, run, step, exit>>
=============================================================================
