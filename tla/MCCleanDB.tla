----------------------------- MODULE MCCleanDB -----------------------------
(* A primary with a standby, on the default port or another, a standby of  *)
(* which was stopped; a YAC cluster of two nodes, with its disks below     *)
(* /dev/yfs or known to ycsctl only; next to a cluster whose name begins   *)
(* with the same letters or does not; with agents or a database that only  *)
(* their ports tell.  A clean of its own host, as "localhost".             *)
EXTENDS CleanDB

CONSTANTS h1, h2

MCHostList == <<h1, h2>>

Replica == (h1 :> "primary") @@ (h2 :> "standby")
YAC == (h1 :> "primary") @@ (h2 :> "primary")
Kind(role, flags, stopped, mute) ==
    [role |-> role, default |-> "default" \in flags, yac |-> "yac" \in flags,
     yfs |-> "yfs" \in flags, prefix |-> "prefix" \in flags, stopped |-> stopped,
     mute |-> mute]

MCLayouts ==
    {Kind(Replica, {"default", "prefix"}, {}, {"agent"}), Kind(Replica, {}, {}, {"agent", "db"}),
     Kind(Replica, {}, {h2}, {}), Kind(Replica, {}, {h1, h2}, {}),
     Kind(YAC, {"yac", "yfs"}, {}, {}), Kind(YAC, {"yac"}, {}, {}), Kind(YAC, {"default", "yac"}, {h2}, {})}

Line(targets, flags) ==
    [targets |-> targets, named |-> "local" \notin flags, skip |-> "skip" \in flags, force |-> "force" \in flags,
     disks |-> "disks" \in flags, om |-> "om" \in flags, pass |-> "pass" \in flags]

MCOptions ==
         {Line(<<h2>>, fs) : fs \in {{}, {"pass"}, {"pass", "om"}, {"skip"}, {"force"}}}
    \cup {Line(<<h1>>, {"local"})}
    \cup {Line(<<h1, h2>>, fs) : fs \in {{"pass"}, {"force"}, {"skip"},
                                         {"force", "disks", "pass"}, {"skip", "disks"}}}
=============================================================================
