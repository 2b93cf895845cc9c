----------------------------- MODULE MCStandby -----------------------------
(* One primary and two more hosts.  The command lines are whole runs on    *)
(* one, both or the primary's host, a repeat from E-011 on, E-018 alone,   *)
(* and previews; each but the plainest with some of the flags.             *)
EXTENDS Standby

CONSTANTS h0, h1, h2

MCOthers == {h1, h2}

Line(targets, plan, mode, flags) ==
    [targets |-> targets, plan |-> plan, mode |-> mode,
     force |-> "F" \in flags, auto |-> "auto" \in flags,
     restart |-> "restart" \in flags, soft |-> "soft" \in flags]

MCOptions ==
         {Line(ts, Steps, "apply", fs) :
             ts \in {<<h1>>, <<h1, h2>>, <<h0>>}, fs \in {{}, {"F", "restart"}}}
    \cup {Line(<<h1>>, Steps, "apply", {"auto", "soft"})}
    \cup {Line(<<h1, h2>>, Expansion \cup {"verify"}, "apply", {})}
    \cup {Line(<<h1>>, {"failed"}, "apply", {"F"})}
    \cup {Line(<<h1>>, Steps, m, {"F", "restart"}) : m \in {"precheck", "dryRun"}}
=============================================================================
