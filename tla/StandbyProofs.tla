---------------------------- MODULE StandbyProofs ----------------------------
(***************************************************************************)
(* What yinstall standby keeps for any hosts and command lines, and any    *)
(* number of runs that fail or are cut off anywhere:                       *)
(*   PrimaryIsSafe     no expansion takes the primary out of its cluster;  *)
(*   SuccessExpands    a verified success has an instance on every target; *)
(*   LiveFilesAreSafe  -F deletes no directory of an instance that runs;   *)
(*   RetriesComplete   a forced repeat in which no command fails succeeds. *)
(* The second and third rest on the order of the calls: what E-006 and     *)
(* E-017 found holds until the last call that relies on it (ExpansionInv). *)
(* The last one walks through the calls of a whole run and says what each  *)
(* of them finds (CalmInv).                                                *)
(***************************************************************************)
EXTENDS Standby, FiniteSetTheorems, WellFoundedInduction, TLAPS

(* What E-010 has still to remove is never the primary's host.             *)
SurvivalInv == PrimarySurvives /\ Primary \notin todo

LEMMA InitSurvives == Init => SurvivalInv
BY DEF Init, SurvivalInv, PrimarySurvives

(* Going on in the script and refusing both leave nothing to remove.       *)
LEMMA NothingLeft ==
    /\ Advance => todo' = {}
    /\ \A p : Refuse(p) => todo' = {}
    /\ \A where : Within(where) => todo' = todo
BY DEF Advance, Refuse, Within

LEMMA NothingTouched ==
    ASSUME SurvivalInv, UNCHANGED <<nodes, hosts>>, todo' = {} \/ todo' = todo
    PROVE  SurvivalInv'
BY DEF SurvivalInv, PrimarySurvives

(* Only failed instances are cleared away, and groups above the first.     *)
LEMMA ClearedKeepsPrimary == PrimaryNode \in nodes => PrimaryNode \in Cleared
BY DEF Cleared, FailedNodes, PrimaryNode

LEMMA CleanUpKeepsPrimary ==
    ASSUME PrimaryNode \in nodes, NEW ok \in BOOLEAN, CleanUp(ok)
    PROVE  PrimaryNode \in nodes'
<1>1. CASE ce
  <2>1. PICK S : \E gone \in SUBSET (Selected(S) \cap Groups) :
                    nodes' = {n \in nodes : n.grp \notin gone}
    BY <1>1 DEF CleanUp, RemoveGroups
  <2>2. QED  BY <2>1 DEF Selected, PrimaryNode
<1>2. CASE ~ce
  BY <1>2 DEF CleanUp, RemoveFailedNodes, FailedNodes, PrimaryNode
<1>3. QED  BY <1>1, <1>2

-----------------------------------------------------------------------------
(* Steps that look, stop or start the primary, or prepare files.           *)
LEMMA LookingKeeps ==
    ASSUME SurvivalInv,
           Look \/ CheckArchiveMode \/ CheckArchiveDest \/ StepFails \/ CheckStatus
             \/ CheckReplicationSE \/ EnsureReplicationCE \/ StopCluster \/ StartCluster
             \/ CheckPort \/ MakePaths \/ ResolvePath
    PROVE  SurvivalInv'
<1>1. UNCHANGED <<nodes, hosts>>
  BY DEF Look, CheckArchiveMode, CheckArchiveDest, StepFails, CheckStatus, CheckReplicationSE,
         EnsureReplicationCE, StopCluster, StartCluster, CheckPort, MakePaths, ResolvePath, cluster
<1>2. todo' = {} \/ todo' = todo
  BY NothingLeft
  DEF Look, CheckArchiveMode, CheckArchiveDest, StepFails, CheckStatus, CheckReplicationSE,
      EnsureReplicationCE, StopCluster, StartCluster, CheckPort, MakePaths, ResolvePath
<1>3. QED  BY <1>1, <1>2, NothingTouched

LEMMA ExpansionFilesKeep ==
    ASSUME SurvivalInv,
           (\E s \in {"gen", "software", "sync", "verify", "failed"} : Preview(s))
             \/ GenNodes \/ GenGroup \/ NothingToAdd \/ SkipAdd \/ CheckSync \/ SyncTimesOut
             \/ Verify \/ SkipCleanup
    PROVE  SurvivalInv'
<1>1. UNCHANGED <<nodes, hosts>>
  BY DEF Preview, GenNodes, GenGroup, NothingToAdd, SkipAdd, CheckSync, SyncTimesOut, Verify,
         SkipCleanup, cluster
<1>2. todo' = {}
  BY NothingLeft
  DEF Preview, GenNodes, GenGroup, Generated, NothingToAdd, SkipAdd, CheckSync, SyncTimesOut,
      Verify, SkipCleanup
<1>3. QED  BY <1>1, <1>2, NothingTouched

LEMMA AroundKeeps ==
    ASSUME SurvivalInv, Start \/ Interrupted \/ OperatorRestarts \/ Finished \/ UNCHANGED vars
    PROVE  SurvivalInv'
BY NothingTouched DEF Start, Interrupted, OperatorRestarts, Finished, vars, cluster

(* E-010 never chooses the primary's host, whatever the queries answer.    *)
LEMMA FindingKeeps ==
    ASSUME SurvivalInv, FindExisting
    PROVE  SurvivalInv'
<1>1. UNCHANGED <<nodes, hosts>>
  BY DEF FindExisting, cluster
<1>2. PICK agents \in BOOLEAN, status \in BOOLEAN, again \in BOOLEAN :
        LET found == Targets \cap KnownHosts(agents, status)
            kept  == {h \in found : Reuse(h, again)}
        IN  todo' = {} \/ todo' = found \ kept
  BY NothingLeft DEF FindExisting
<1>3. Reuse(Primary, again)
  BY DEF Reuse
<1>4. Primary \notin todo'
  BY <1>2, <1>3
<1>5. QED  BY <1>1, <1>4 DEF SurvivalInv, PrimarySurvives

LEMMA RemovalKeeps ==
    ASSUME SurvivalInv, RemoveHost \/ RemovalUnseen \/ RemoveFails
    PROVE  SurvivalInv'
<1>1. \A h \in todo : Removed(h) => Primary \notin todo'
  BY NothingLeft DEF Removed, SurvivalInv
<1>2. CASE RemovalUnseen
  BY <1>1, <1>2 DEF RemovalUnseen, cluster, SurvivalInv, PrimarySurvives
<1>3. CASE RemoveHost \/ RemoveFails
  <2>1. PICK h \in todo : nodes' = {n \in nodes : n.host # h} /\ hosts' = hosts \ {h}
    BY <1>3 DEF RemoveHost, RemoveFails
  <2>2. h # Primary
    BY DEF SurvivalInv
  <2>3. PrimarySurvives'
    BY <2>1, <2>2 DEF SurvivalInv, PrimarySurvives, PrimaryNode
  <2>4. Primary \notin todo'
    BY <1>1, <1>3, NothingLeft DEF RemoveHost, RemoveFails
  <2>5. QED  BY <2>3, <2>4 DEF SurvivalInv
<1>4. QED  BY <1>2, <1>3

(* Hosts and instances only come, but for failed ones.                     *)
LEMMA AddingKeeps ==
    ASSUME SurvivalInv, AddHosts \/ AddInstances \/ AddFails
    PROVE  SurvivalInv'
<1>1. todo' = {}
  BY NothingLeft DEF AddHosts, AddInstances, AddFails
<1>2. hosts \subseteq hosts' /\ (nodes' = nodes \/ Cleared \subseteq nodes')
  BY DEF AddHosts, AddInstances, AddFails
<1>3. QED  BY <1>1, <1>2, ClearedKeepsPrimary DEF SurvivalInv, PrimarySurvives

LEMMA CleaningKeeps ==
    ASSUME SurvivalInv, Handle \/ CleanupFailed
    PROVE  SurvivalInv'
<1>1. todo' = {} /\ hosts' = hosts
  BY NothingLeft DEF Handle, CleanupFailed
<1>2. nodes' = nodes \/ CleanUp(TRUE) \/ CleanUp(FALSE)
  BY DEF Handle, CleanupFailed
<1>3. PrimaryNode \in nodes'
  BY <1>2, CleanUpKeepsPrimary DEF SurvivalInv, PrimarySurvives
<1>4. QED  BY <1>1, <1>3 DEF SurvivalInv, PrimarySurvives

LEMMA JoiningKeeps ==
    ASSUME SurvivalInv, Joins
    PROVE  SurvivalInv'
<1>1. UNCHANGED <<hosts, todo>> /\ \E n \in nodes : n.role = "joining" /\ nodes \ {n} \subseteq nodes'
  BY DEF Joins
<1>2. PrimaryNode.role # "joining"
  BY DEF PrimaryNode
<1>3. QED  BY <1>1, <1>2 DEF SurvivalInv, PrimarySurvives

LEMMA NextSurvives == SurvivalInv /\ [Next]_vars => SurvivalInv'
BY LookingKeeps, ExpansionFilesKeep, AroundKeeps, FindingKeeps, RemovalKeeps, AddingKeeps,
   CleaningKeeps, JoiningKeeps
DEF Next

(* No step of yinstall standby, and none of its clean-ups, removes the     *)
(* primary's host or instance from the cluster, also when the primary's    *)
(* own host is a target and no query answers (the reuse rule of E-010, the *)
(* group selection of the failed-expansion clean-up).                      *)
THEOREM PrimaryIsSafe == Spec => []PrimarySurvives
<1>1. SurvivalInv => PrimarySurvives
  BY DEF SurvivalInv
<1>2. QED  BY <1>1, InitSurvives, NextSurvives, PTL DEF Spec

-----------------------------------------------------------------------------
(* The order of the calls. *)

Triples == Int \X Int \X Int

LEMMA BeforeOrders ==
    /\ \A c, d \in Triples : Before(c, d) \/ c = d \/ Before(d, c)
    /\ \A c, d \in Triples : ~(Before(c, d) /\ Before(d, c))
    /\ \A c, d, e \in Triples : Before(c, d) /\ Before(d, e) => Before(c, e)
    /\ \A c, d \in Triples : Before(c, d) => c[1] <= d[1]
BY DEF Before, Triples

LEMMA PhasesAre ==
    /\ DOMAIN Phases = 1..6
    /\ Phases[1] = <<"primary", "status", "archiveMode", "replication">>
    /\ Phases[2] = <<"connect">>
    /\ Phases[3] = <<"reach", "port", "paths">>
    /\ Phases[4] = <<"path", "archiveDest", "network", "cleanup", "gen", "software", "add", "sync">>
    /\ Phases[5] = <<"env", "autostart", "verify">>
    /\ Phases[6] = <<"show", "failed">>
BY DEF Phases, PrimarySteps, PrepSteps, MiddleSteps, PostSteps, LastSteps

LEMMA CallsAreTriples ==
    ASSUME IsOption(opt)
    PROVE  /\ Calls \subseteq Triples
           /\ \A c \in Calls : /\ c[1] \in 1..6 /\ c[2] \in DOMAIN opt.targets /\ c[3] \in 1..8
                               /\ c[3] \in DOMAIN Phases[c[1]]
                               /\ StepOf(c) \in opt.plan \cup Always
                               /\ c[1] \in PerHost \/ c[2] = 1
<1>1. DOMAIN opt.targets \subseteq Int
  BY DEF IsOption
<1>2. QED  BY <1>1 DEF Calls, Triples

(* Where the steps stand that the properties are about. *)
LEMMA Places ==
    ASSUME IsOption(opt), NEW c \in Calls
    PROVE  /\ StepOf(c) = "port" <=> (c[1] = 3 /\ c[3] = 2)
           /\ StepOf(c) = "paths" <=> (c[1] = 3 /\ c[3] = 3)
           /\ StepOf(c) = "replication" => c[1] = 1
           /\ StepOf(c) \in {"cleanup", "add"} => c[1] = 4
           /\ StepOf(c) = "verify" <=> (c[1] = 5 /\ c[3] = 3)
<1>0. c[1] \in 1..6 /\ c[3] \in DOMAIN Phases[c[1]] /\ StepOf(c) = Phases[c[1]][c[3]]
  BY CallsAreTriples DEF StepOf
<1>1. CASE c[1] = 1
  BY <1>0, <1>1, PhasesAre
<1>2. CASE c[1] = 2
  BY <1>0, <1>2, PhasesAre
<1>3. CASE c[1] = 3
  BY <1>0, <1>3, PhasesAre
<1>4. CASE c[1] = 4
  BY <1>0, <1>4, PhasesAre
<1>5. CASE c[1] = 5
  BY <1>0, <1>5, PhasesAre
<1>6. CASE c[1] = 6
  BY <1>0, <1>6, PhasesAre
<1>7. QED  BY <1>0, <1>1, <1>2, <1>3, <1>4, <1>5, <1>6

(* Going on passes the current call and no other. *)
LEMMA AdvancePasses ==
    ASSUME IsOption(opt), at \in Calls, opt' = opt, Advance
    PROVE  \/ /\ part' = "call" /\ at' \in Calls' /\ at'[1] >= at[1] /\ exit' = exit
              /\ \A c \in Calls : Before(c, at') => c = at \/ Before(c, at)
           \/ /\ part' = "idle" /\ exit' = "ok" /\ at' = at
              /\ \A c \in Calls : c = at \/ Before(c, at)
<1>0. Calls \subseteq Triples /\ Calls' = Calls
  BY CallsAreTriples DEF Calls, StepOf
<1>1. CASE \E c \in Calls : Before(at, c)
  <2>1. at' \in Following(at) /\ part' = "call" /\ exit' = exit
    BY <1>1 DEF Advance
  <2>2. at' \in Calls /\ Before(at, at') /\ \A e \in Calls : Before(at, e) => ~Before(e, at')
    BY <2>1 DEF Following
  <2>3. QED  BY <1>0, <2>1, <2>2, BeforeOrders
<1>2. CASE ~(\E c \in Calls : Before(at, c))
  BY <1>0, <1>2, BeforeOrders DEF Advance, Return
<1>3. QED  BY <1>1, <1>2

-----------------------------------------------------------------------------
(* A run stands at one of its calls, and which actions a call can be in.   *)
Orderly ==
    /\ opt \in Options
    /\ Running => at \in Calls /\ exit = "none"
    /\ part \in {"stop", "start"} => StepOf(at) = "replication"
    /\ part = "remove" => StepOf(at) = "cleanup"

(* The targets whose begin-port E-006 has passed, and those E-017 has.     *)
PortsFree ==
    Running /\ opt.mode = "apply" /\ at[1] = 3
        => \A c \in Calls : StepOf(c) = "port" /\ Before(c, at) => ~Listening(HostOf(c))

KeepsAll == opt.mode = "apply" /\ ~("failed" \in opt.plan /\ CleansUp)

Verified ==
    /\ Running /\ KeepsAll
         => \A c \in Calls : StepOf(c) = "verify" /\ Before(c, at) => Occupied(HostOf(c))
    /\ exit = "ok" /\ KeepsAll
         => \A c \in Calls : StepOf(c) = "verify" => Occupied(HostOf(c))

ExpansionInv == Orderly /\ PortsFree /\ Verified

(* How a step moves the run on. *)
Passes ==
    /\ Running /\ Advance
    /\ opt.mode = "apply" /\ StepOf(at) = "port" => ~Listening(HostOf(at)) /\ nodes' = nodes
    /\ opt.mode = "apply" /\ StepOf(at) = "verify" => Occupied(HostOf(at)) /\ nodes' = nodes
Stops == Running /\ part' = "idle" /\ exit' = "error" /\ at' = at
Stays == /\ UNCHANGED <<at, exit>>
         /\ (Running /\ part' \in {"handle", "call", "stop", "start", "remove"}) \/ part' = part
         /\ part' \in {"stop", "start"} => StepOf(at) = "replication"
         /\ part' = "remove" => StepOf(at) = "cleanup"

LEMMA RefuseMoves ==
    ASSUME Running, NEW p, Refuse(p)
    PROVE  Passes \/ Stops \/ Stays
<1>1. CASE opt.mode = "precheck"
  BY <1>1 DEF Refuse, Passes, Stops, Stays, Return
<1>2. CASE opt.mode # "precheck"
  BY <1>2 DEF Refuse, Stops, Stays, Return
<1>3. QED  BY <1>1, <1>2

LEMMA PlainPasses ==
    ASSUME Running, Advance, opt.mode # "apply" \/ StepOf(at) \notin {"port", "verify"}
    PROVE  Passes
BY DEF Passes

LEMMA StepMoves ==
    ASSUME Orderly, [Next]_vars, ~Start
    PROVE  opt' = opt /\ (Passes \/ Stops \/ Stays)
<1>1. CASE Look \/ CheckArchiveMode \/ CheckArchiveDest \/ CheckStatus \/ CheckReplicationSE \/ MakePaths
             \/ ResolvePath \/ NothingToAdd \/ SkipAdd \/ AddInstances \/ AddFails
             \/ CheckSync \/ SyncTimesOut \/ SkipCleanup \/ GenNodes \/ GenGroup \/ AddHosts
  <2>1. Running /\ StepOf(at) \notin {"port", "verify"} /\ opt' = opt
    BY <1>1
    DEF Look, Looks, CheckArchiveMode, CheckArchiveDest, CheckStatus, CheckReplicationSE, MakePaths,
        ResolvePath, NothingToAdd, SkipAdd, AddInstances, AddFails, CheckSync, SyncTimesOut,
        SkipCleanup, GenNodes, GenGroup, AddHosts, Here, Running, Frame
  <2>2. Advance \/ \E p : Refuse(p)
    BY <1>1
    DEF Look, CheckArchiveMode, CheckArchiveDest, CheckStatus, CheckReplicationSE, MakePaths,
        ResolvePath, NothingToAdd, SkipAdd, AddInstances, AddFails, CheckSync, SyncTimesOut,
        SkipCleanup, GenNodes, GenGroup, AddHosts, Generated
  <2>3. QED  BY <2>1, <2>2, RefuseMoves, PlainPasses
<1>2. CASE CheckPort \/ Verify
  <2>1. Running /\ opt' = opt /\ nodes' = nodes
    BY <1>2 DEF CheckPort, Verify, Here, Running, Frame, cluster
  <2>2. CASE Advance
    <3>1. CASE CheckPort
      <4>1. ~Listening(HostOf(at)) \/ \E p : Refuse(p)
        BY <3>1 DEF CheckPort
      <4>2. CASE ~Listening(HostOf(at))
        BY <2>1, <2>2, <3>1, <4>2 DEF CheckPort, Here, Passes
      <4>3. QED  BY <2>1, <4>1, <4>2, RefuseMoves
    <3>2. CASE Verify
      <4>1. Listening(HostOf(at)) \/ \E p : Refuse(p)
        BY <3>2 DEF Verify
      <4>2. CASE Listening(HostOf(at))
        <5>1. Occupied(HostOf(at))
          BY <4>2 DEF Listening, Occupied
        <5>2. QED  BY <2>1, <2>2, <3>2, <5>1 DEF Verify, Here, Passes
      <4>3. QED  BY <2>1, <4>1, <4>2, RefuseMoves
    <3>3. QED  BY <1>2, <3>1, <3>2
  <2>3. CASE \E p : Refuse(p)
    BY <2>1, <2>3, RefuseMoves
  <2>4. QED  BY <1>2, <2>2, <2>3 DEF CheckPort, Verify
<1>3. CASE StepFails \/ (\E s \in {"gen", "software", "sync", "verify", "failed"} : Preview(s))
  <2>1. CASE StepFails
    <3>1. Running /\ opt' = opt /\ Refuse(par)
      BY <2>1 DEF StepFails, Running, Frame
    <3>2. QED  BY <3>1, RefuseMoves
  <2>2. CASE \E s \in {"gen", "software", "sync", "verify", "failed"} : Preview(s)
    <3>1. Running /\ opt' = opt /\ Advance /\ opt.mode # "apply"
      BY <2>2 DEF Preview, Here, Running, Frame, Previewing
    <3>2. QED  BY <3>1, PlainPasses
  <2>3. QED  BY <1>3, <2>1, <2>2
<1>4. CASE EnsureReplicationCE \/ StopCluster \/ StartCluster
  <2>1. Running /\ StepOf(at) = "replication" /\ opt' = opt
    BY <1>4 DEF EnsureReplicationCE, StopCluster, StartCluster, Here, Running, Frame, Orderly
  <2>2. Advance \/ (\E p : Refuse(p)) \/ Within("stop") \/ Within("start")
    BY <1>4 DEF EnsureReplicationCE, StopCluster, StartCluster
  <2>3. QED  BY <2>1, <2>2, RefuseMoves, PlainPasses DEF Within, Stays
<1>5. CASE FindExisting \/ RemoveHost \/ RemovalUnseen \/ RemoveFails
  <2>1. Running /\ StepOf(at) = "cleanup" /\ opt' = opt
    BY <1>5 DEF FindExisting, RemoveHost, RemovalUnseen, RemoveFails, Here, Running, Frame, Orderly
  <2>2. \/ Advance \/ \E p : Refuse(p)
        \/ UNCHANGED <<at, exit>> /\ (part' = "remove" \/ part' = part)
    BY <1>5 DEF FindExisting, RemoveHost, RemovalUnseen, RemoveFails, Removed
  <2>3. QED  BY <2>1, <2>2, RefuseMoves, PlainPasses DEF Stays, Orderly
<1>6. CASE Handle \/ CleanupFailed \/ Interrupted
  <2>1. Running /\ opt' = opt /\ (Handle \/ Interrupted \/ StepOf(at) = "failed")
    BY <1>6 DEF Handle, CleanupFailed, Interrupted, Here, Running, Frame
  <2>2. Stops \/ (Advance /\ StepOf(at) = "failed")
    BY <1>6, <2>1 DEF Handle, CleanupFailed, Interrupted, Here, Return, Stops
  <2>3. QED  BY <2>1, <2>2, PlainPasses
<1>7. CASE Joins \/ OperatorRestarts \/ Finished \/ UNCHANGED vars
  BY <1>7 DEF Joins, OperatorRestarts, Finished, vars, Stays, Orderly, Frame
<1>8. QED  BY <1>1, <1>2, <1>3, <1>4, <1>5, <1>6, <1>7 DEF Next

(* What happens to the instances on the way. *)
LEMMA NodesAct ==
    ASSUME Orderly, [Next]_vars, ~Start
    PROVE  \/ nodes' = nodes
           \/ Joins
           \/ Running /\ StepOf(at) \in {"cleanup", "add"} /\ opt' = opt
           \/ Running /\ StepOf(at) = "failed" /\ CleansUp
           \/ Stops
<1>1. CASE \/ Look \/ CheckArchiveMode \/ CheckArchiveDest \/ StepFails
           \/ CheckStatus \/ CheckReplicationSE \/ EnsureReplicationCE \/ StopCluster \/ StartCluster
           \/ CheckPort \/ MakePaths \/ ResolvePath \/ FindExisting \/ RemovalUnseen
           \/ (\E s \in {"gen", "software", "sync", "verify", "failed"} : Preview(s))
           \/ GenNodes \/ GenGroup \/ AddHosts \/ NothingToAdd \/ SkipAdd
           \/ CheckSync \/ SyncTimesOut \/ Verify \/ SkipCleanup \/ Interrupted
           \/ OperatorRestarts \/ Finished \/ UNCHANGED vars
  BY <1>1
  DEF Look, CheckArchiveMode, CheckArchiveDest, StepFails, CheckStatus, CheckReplicationSE,
      EnsureReplicationCE, StopCluster, StartCluster, CheckPort, MakePaths, ResolvePath, FindExisting,
      RemovalUnseen, Preview, GenNodes, GenGroup, AddHosts, NothingToAdd, SkipAdd, CheckSync,
      SyncTimesOut, Verify, SkipCleanup, Interrupted, OperatorRestarts, Finished, vars, cluster
<1>2. CASE RemoveHost \/ RemoveFails \/ AddInstances \/ AddFails
  BY <1>2 DEF RemoveHost, RemoveFails, AddInstances, AddFails, Here, Running, Orderly, Frame
<1>3. CASE CleanupFailed
  BY <1>3 DEF CleanupFailed, Here, Running
<1>4. CASE Handle
  BY <1>4 DEF Handle, Running, Stops, Return
<1>5. QED  BY <1>1, <1>2, <1>3, <1>4 DEF Next

LEMMA OptionsAreTyped == opt \in Options => IsOption(opt)
BY OptionsAssumption

LEMMA StaysOrderly ==
    ASSUME Orderly, [Next]_vars
    PROVE  Orderly'
<1>1. CASE Start
  <2>1. opt' \in Options /\ exit' = "none" /\ part' = "call" /\ at' \in Following(Outset)'
    BY <1>1 DEF Start
  <2>2. at' \in Calls'
    BY <2>1 DEF Following
  <2>3. QED  BY <2>1, <2>2 DEF Orderly
<1>2. CASE ~Start
  <2>1. opt' = opt /\ opt \in Options /\ IsOption(opt) /\ Calls' = Calls
    BY <1>2, StepMoves, OptionsAreTyped DEF Orderly, Calls, StepOf
  <2>2. CASE Passes
    BY <2>1, <2>2, AdvancePasses DEF Passes, Orderly, Running
  <2>3. CASE Stops
    BY <2>1, <2>3 DEF Stops, Orderly, Running
  <2>4. CASE Stays
    BY <2>1, <2>4 DEF Stays, Orderly, Running, StepOf
  <2>5. QED  BY <1>2, <2>2, <2>3, <2>4, StepMoves
<1>3. QED  BY <1>1, <1>2

(* Joining makes an instance neither come nor go.                          *)
LEMMA JoinsKeep ==
    ASSUME Joins, NEW h
    PROVE  Occupied(h)' <=> Occupied(h)
<1>1. PICK n \in nodes, r \in {"standby", "failed"} : nodes' = (nodes \ {n}) \cup {[n EXCEPT !.role = r]}
  BY DEF Joins
<1>2. [n EXCEPT !.role = r].host = n.host /\ [n EXCEPT !.role = r].port = n.port
  OBVIOUS
<1>3. QED  BY <1>1, <1>2 DEF Occupied, At

LEMMA JoinsListenLess ==
    ASSUME Joins, NEW h, ~Listening(h)
    PROVE  ~Listening(h)'
<1>1. PICK n \in nodes, r \in {"standby", "failed"} :
         n.role = "joining" /\ nodes' = (nodes \ {n}) \cup {[n EXCEPT !.role = r]}
  BY DEF Joins
<1>2. [n EXCEPT !.role = r].host = n.host /\ [n EXCEPT !.role = r].port = n.port
  OBVIOUS
<1>3. QED  BY <1>1, <1>2 DEF Listening, At

(* A run starts with a call that no other comes before.                    *)
LEMMA StartsFirst ==
    ASSUME Start
    PROVE  at' \in Calls' /\ \A c \in Calls' : ~Before(c, at')
<1>1. at' \in Following(Outset)'
  BY DEF Start
<1>2. at' \in Calls' /\ Before(Outset, at') /\ \A e \in Calls' : Before(Outset, e) => ~Before(e, at')
  BY <1>1 DEF Following
<1>3. \A c \in Calls' : Before(Outset, c)
  <2>1. \A c \in Calls' : c[1] \in 1..6
    BY DEF Calls
  <2>2. QED  BY <2>1 DEF Before, Outset
<1>4. QED  BY <1>2, <1>3

LEMMA PortsStayFree ==
    ASSUME ExpansionInv, [Next]_vars
    PROVE  PortsFree'
<1>1. CASE Start
  <2>1. \A c \in Calls' : ~Before(c, at')
    BY <1>1, StartsFirst
  <2>2. QED  BY <2>1 DEF PortsFree, Before
<1>2. CASE ~Start
  <2>0. /\ Orderly /\ opt' = opt /\ IsOption(opt) /\ Calls' = Calls
        /\ \A c : StepOf(c)' = StepOf(c) /\ HostOf(c)' = HostOf(c)
    BY <1>2, StepMoves, OptionsAreTyped DEF ExpansionInv, Orderly, Calls, StepOf, HostOf
  <2>1. SUFFICES ASSUME Running', opt.mode = "apply", at'[1] = 3, NEW c \in Calls,
                        StepOf(c) = "port", Before(c, at')
                 PROVE  ~Listening(HostOf(c))'
    BY <2>0 DEF PortsFree, Before
  <2>2. c \in Triples /\ c[1] = 3 /\ (Running => at \in Calls /\ at \in Triples)
    BY <2>0, <2>1, CallsAreTriples, Places DEF Orderly
  <2>3. CASE Passes
    <3>1. at' \in Calls /\ at'[1] >= at[1] /\ (c = at \/ Before(c, at)) /\ Running
      BY <2>0, <2>1, <2>3, AdvancePasses DEF Passes, Orderly, Running
    <3>2. at[1] = 3
      BY <2>1, <2>2, <3>1, CallsAreTriples, BeforeOrders, <2>0
    <3>3. ~Listening(HostOf(c))
      BY <2>1, <2>3, <3>1, <3>2 DEF Passes, PortsFree, ExpansionInv
    <3>4. CASE nodes' = nodes
      BY <2>0, <3>3, <3>4 DEF Listening, At
    <3>5. CASE Joins
      BY <2>0, <3>3, <3>5, JoinsListenLess
    <3>6. CASE StepOf(at) \in {"cleanup", "add"}
      BY <2>0, <2>2, <3>1, <3>2, <3>6, Places
    <3>7. CASE StepOf(at) = "failed"
      <4>1. StepOf(at) \notin {"reach", "port", "paths"}
        BY <3>7
      <4>2. QED  BY <2>0, <2>2, <3>1, <3>2, <4>1, PhasesAre, CallsAreTriples DEF StepOf
    <3>8. CASE Stops
      BY <2>1, <3>8 DEF Stops, Running
    <3>9. QED  BY <1>2, <2>0, <3>4, <3>5, <3>6, <3>7, <3>8, NodesAct
  <2>4. CASE Stops
    BY <2>1, <2>4 DEF Stops, Running
  <2>5. CASE Stays
    <3>1. at' = at /\ Running
      BY <2>1, <2>5 DEF Stays, Running
    <3>2. ~Listening(HostOf(c))
      BY <2>1, <3>1 DEF PortsFree, ExpansionInv
    <3>3. StepOf(at) \notin {"cleanup", "add", "failed"}
      <4>1. StepOf(at) \in {"reach", "port", "paths"}
        BY <2>0, <2>1, <2>2, <3>1, PhasesAre, CallsAreTriples DEF StepOf
      <4>2. QED  BY <4>1
    <3>4. QED
      BY <1>2, <2>0, <2>1, <3>2, <3>3, JoinsListenLess, NodesAct DEF Listening, At, Stops, Running
  <2>6. QED  BY <1>2, <2>3, <2>4, <2>5, StepMoves, <2>0
<1>3. QED  BY <1>1, <1>2

(* Once something is verified nothing takes an instance away, unless E-018 *)
(* cleans up.                                                              *)
LEMMA StaysVerified ==
    ASSUME ExpansionInv, [Next]_vars
    PROVE  Verified'
<1>1. CASE Start
  <2>1. exit' = "none" /\ \A c \in Calls' : ~Before(c, at')
    BY <1>1, StartsFirst DEF Start
  <2>2. QED  BY <2>1 DEF Verified, Before
<1>2. CASE ~Start
  <2>0. /\ Orderly /\ opt' = opt /\ IsOption(opt) /\ Calls' = Calls
        /\ \A c : StepOf(c)' = StepOf(c) /\ HostOf(c)' = HostOf(c)
        /\ KeepsAll' = KeepsAll
    BY <1>2, StepMoves, OptionsAreTyped
    DEF ExpansionInv, Orderly, Calls, StepOf, HostOf, KeepsAll, CleansUp
  <2>1. SUFFICES ASSUME KeepsAll, NEW c \in Calls, StepOf(c) = "verify",
                        (Running' /\ Before(c, at')) \/ exit' = "ok"
                 PROVE  Occupied(HostOf(c))'
    BY <2>0 DEF Verified, Before
  <2>2. c \in Triples /\ c[1] = 5 /\ (Running => at \in Calls /\ at \in Triples)
    BY <2>0, <2>1, CallsAreTriples, Places DEF Orderly
  <2>3. Running => ~(StepOf(at) = "failed" /\ CleansUp)
    <3>1. "failed" \notin Always
      BY DEF Always
    <3>2. QED  BY <2>0, <2>1, <2>2, <3>1, CallsAreTriples DEF KeepsAll
  <2>4. ASSUME Occupied(HostOf(c)), Running => StepOf(at) \notin {"cleanup", "add"}, ~Stops
        PROVE  Occupied(HostOf(c))'
    <3>1. nodes' = nodes \/ Joins
      BY <1>2, <2>0, <2>3, <2>4, NodesAct
    <3>2. CASE nodes' = nodes
      BY <2>0, <2>4, <3>2 DEF Occupied, At
    <3>3. CASE Joins
      BY <2>0, <2>4, <3>3, JoinsKeep
    <3>4. QED  BY <3>1, <3>2, <3>3
  <2>5. CASE Passes
    <3>1. Running /\ (c = at \/ Before(c, at))
      BY <2>0, <2>1, <2>5, AdvancePasses DEF Passes, Orderly, Running
    <3>2. at[1] >= 5
      BY <2>2, <3>1 DEF Before, Triples
    <3>3. Occupied(HostOf(c))
      BY <2>1, <2>5, <3>1 DEF Passes, Verified, ExpansionInv, KeepsAll
    <3>4. StepOf(at) \notin {"cleanup", "add"}
      BY <2>0, <2>2, <3>1, <3>2, Places
    <3>5. ~Stops
      BY <2>0, <2>1, <2>5 DEF Stops, Running
    <3>6. QED  BY <2>4, <3>3, <3>4, <3>5
  <2>6. CASE Stops
    BY <2>1, <2>6 DEF Stops, Running
  <2>7. CASE Stays
    <3>1. at' = at /\ exit' = exit /\ (Running' => Running)
      BY <2>7 DEF Stays, Running
    <3>2. ~Stops
      BY <2>1 DEF Stops, Running
    <3>3. CASE exit' = "ok"
      <4>1. ~Running /\ Occupied(HostOf(c))
        BY <2>0, <2>1, <3>1, <3>3 DEF Orderly, Verified, ExpansionInv
      <4>2. QED  BY <2>4, <3>2, <4>1
    <3>4. CASE Running' /\ Before(c, at')
      <4>1. Running /\ Before(c, at) /\ Occupied(HostOf(c))
        BY <2>0, <2>1, <3>1, <3>4 DEF Verified, ExpansionInv
      <4>2. StepOf(at) \notin {"cleanup", "add"}
        <5>1. at[1] >= 5
          BY <2>2, <4>1 DEF Before, Triples
        <5>2. QED  BY <2>0, <2>2, <4>1, <5>1, Places
      <4>3. QED  BY <2>4, <3>2, <4>1, <4>2
    <3>5. QED  BY <2>1, <3>3, <3>4
  <2>8. QED  BY <1>2, <2>5, <2>6, <2>7, StepMoves, <2>0
<1>3. QED  BY <1>1, <1>2

LEMMA ExpansionInvariant == Spec => []ExpansionInv
<1>1. Init => ExpansionInv
  BY DEF Init, ExpansionInv, Orderly, PortsFree, Verified, Running
<1>2. ExpansionInv /\ [Next]_vars => ExpansionInv'
  BY StaysOrderly, PortsStayFree, StaysVerified DEF ExpansionInv
<1>3. QED  BY <1>1, <1>2, PTL DEF Spec

(* For any hosts, command lines and earlier runs: a run that verifies, was *)
(* not a preview and returns success leaves an instance at the begin-port  *)
(* of every target, unless E-018 had leave to clean up after E-017.        *)
THEOREM SuccessExpands == Spec => []SuccessIsExpanded
<1>1. ExpansionInv => SuccessIsExpanded
  <2>1. SUFFICES ASSUME ExpansionInv, exit = "ok", ~Previewing, "verify" \in opt.plan,
                        ~("failed" \in opt.plan /\ CleansUp), NEW h \in Targets
                 PROVE  Occupied(h)
    BY DEF SuccessIsExpanded
  <2>2. IsOption(opt) /\ KeepsAll
    BY <2>1, OptionsAreTyped DEF ExpansionInv, Orderly, KeepsAll, Previewing
  <2>3. PICK i \in DOMAIN opt.targets : opt.targets[i] = h
    BY <2>1, <2>2 DEF Targets, ToSet, IsOption
  <2>4. <<5, i, 3>> \in Calls /\ StepOf(<<5, i, 3>>) = "verify" /\ HostOf(<<5, i, 3>>) = h
    BY <2>1, <2>3, PhasesAre DEF Calls, StepOf, HostOf, PerHost
  <2>5. QED  BY <2>1, <2>2, <2>4 DEF ExpansionInv, Verified
<1>2. QED  BY <1>1, ExpansionInvariant, PTL

(* Only E-007 deletes files, and only those of the target it is called for.*)
LEMMA FilesStay ==
    ASSUME [Next]_vars
    PROVE  \/ used \subseteq used'
           \/ /\ Here("paths") /\ ~Previewing /\ opt' = opt
              /\ used' = used \ {HostOf(at)}
<1>1. CASE \/ AddHosts \/ AddInstances \/ AddFails
  BY <1>1 DEF AddHosts, AddInstances, AddFails
<1>2. CASE MakePaths
  BY <1>2 DEF MakePaths, Frame
<1>3. CASE ~(MakePaths \/ AddHosts \/ AddInstances \/ AddFails)
  <2>1. used' = used
    BY <1>3
    DEF Next, Start, Look, CheckArchiveMode, CheckArchiveDest, StepFails, CheckStatus,
        CheckReplicationSE, EnsureReplicationCE, StopCluster, StartCluster, CheckPort, ResolvePath,
        FindExisting, RemoveHost, RemovalUnseen, RemoveFails, Preview, GenNodes, GenGroup,
        NothingToAdd, SkipAdd, CheckSync, SyncTimesOut, Verify, Handle, SkipCleanup, CleanupFailed,
        Interrupted, Joins, OperatorRestarts, Finished, vars, cluster
  <2>2. QED  BY <2>1
<1>4. QED  BY <1>1, <1>2, <1>3

(* With E-006 in its plan no run deletes the directories of an instance    *)
(* that runs, whatever was registered, cleaned up or left by earlier runs, *)
(* and whatever instances join meanwhile.                                  *)
THEOREM LiveFilesAreSafe == Spec => LiveFilesSurvive
<1>1. ASSUME ExpansionInv, [Next]_vars, Running, "port" \in opt.plan, NEW h \in used \ used'
      PROVE  ~Listening(h)
  <2>1. Here("paths") /\ ~Previewing /\ h = HostOf(at)
    BY <1>1, FilesStay
  <2>2. IsOption(opt) /\ at \in Calls /\ opt.mode = "apply"
    BY <1>1, <2>1, OptionsAreTyped DEF ExpansionInv, Orderly, Previewing
  <2>3. at[1] = 3 /\ at[3] = 3 /\ at[2] \in DOMAIN opt.targets
    BY <2>1, <2>2, Places, CallsAreTriples DEF Here
  <2>4. PICK t \in DOMAIN opt.targets : t = at[2]
    BY <2>3
  <2>5. <<3, t, 2>> \in Calls /\ StepOf(<<3, t, 2>>) = "port" /\ HostOf(<<3, t, 2>>) = h
    BY <1>1, <2>1, <2>4, PhasesAre DEF Calls, StepOf, HostOf, PerHost
  <2>6. Before(<<3, t, 2>>, at)
    BY <2>3, <2>4 DEF Before
  <2>7. QED  BY <1>1, <2>2, <2>3, <2>5, <2>6 DEF ExpansionInv, PortsFree
<1>2. ExpansionInv /\ [Next]_vars
        => [Running /\ "port" \in opt.plan => \A h \in used \ used' : ~Listening(h)]_vars
  BY <1>1
<1>3. QED  BY <1>2, ExpansionInvariant, PTL DEF Spec, LiveFilesSurvive

-----------------------------------------------------------------------------
(* Retries.  What every state keeps: finitely many instances, numbered     *)
(* groups, and no instance on a host that the cluster does not know.       *)
Numbered(b, ns) == \A n \in ns : n.grp \in 0..b

Managed ==
    /\ run \in Nat
    /\ IsFiniteSet(nodes) /\ IsFiniteSet(stage.nodes)
    /\ \E b \in Nat : Numbered(b, nodes \cup stage.nodes)
    /\ Members \subseteq hosts

LEMMA LargestIsMax ==
    ASSUME NEW b \in Nat, NEW S, S \subseteq 0..b, S # {}
    PROVE  Max(S) \in S /\ \A y \in S : Max(S) >= y
<1> DEFINE T == {k \in Nat : \A y \in S : y <= k}
<1>1. T \subseteq Nat /\ b \in T
  OBVIOUS
<1> HIDE DEF T
<1>2. PICK m \in T : \A j \in T : <<j, m>> \notin OpToRel(<, Nat)
  BY <1>1, NatLessThanWellFounded, WFMin, Zenon
<1>3. \A j \in T : ~(j < m)
  BY <1>1, <1>2, Zenon DEF OpToRel
<1>4. m \in Nat /\ \A y \in S : y <= m
  BY DEF T
<1>5. m \in S
  <2>1. SUFFICES ASSUME m \notin S PROVE FALSE
    OBVIOUS
  <2>2. PICK y \in S : TRUE
    OBVIOUS
  <2>3. \A z \in S : z \in Nat /\ z <= m /\ z # m
    BY <1>4, <2>1
  <2>4. m - 1 \in T
    BY <1>4, <2>2, <2>3 DEF T
  <2>5. QED  BY <1>3, <1>4, <2>4
<1>6. \E k \in S : \A y \in S : k >= y
  BY <1>4, <1>5
<1>7. QED  BY <1>6 DEF Max

(* The number of a new group is larger than any there is. *)
LEMMA NextGroupIsNew ==
    ASSUME Managed, PrimaryNode \in nodes
    PROVE  NextGroup \in Nat /\ NextGroup > 1 /\ \A n \in nodes : n.grp < NextGroup
<1>1. PICK b \in Nat : Numbered(b, nodes \cup stage.nodes)
  BY DEF Managed
<1>2. Groups \subseteq 0..b /\ 1 \in Groups
  BY <1>1 DEF Groups, Numbered, PrimaryNode
<1>3. Max(Groups) \in 0..b /\ \A y \in Groups : Max(Groups) >= y
  BY <1>2, LargestIsMax
<1>4. \A n \in nodes : n.grp \in Groups /\ n.grp \in 0..b
  BY <1>2 DEF Groups
<1>5. QED  BY <1>2, <1>3, <1>4 DEF NextGroup

LEMMA FiniteStage ==
    ASSUME IsOption(opt)
    PROVE  /\ \A h : IsFiniteSet(OnOneHost(h))
           /\ \A g : IsFiniteSet(OnEachTarget(g))
<1>1. Len(opt.targets) \in 1..2 /\ DOMAIN opt.targets = 1..Len(opt.targets)
  BY DEF IsOption
<1>2. ASSUME NEW a, NEW b, NEW S, S \subseteq {a, b} PROVE IsFiniteSet(S)
  <2>1. IsFiniteSet({a} \cup {b})
    BY FS_AddElement, FS_Singleton
  <2>2. S \in SUBSET ({a} \cup {b})
    BY <1>2
  <2>3. QED  BY <2>1, <2>2, FS_Subset
<1>3. ASSUME NEW h PROVE IsFiniteSet(OnOneHost(h))
  <2>1. OnOneHost(h) \subseteq {NewNode(h, "begin", 0), NewNode(h, "next", 0)}
    <3>1. \A i \in DOMAIN opt.targets : i = 1 \/ i = 2
      <4>1. \A n \in 1..2 : \A i \in 1..n : i = 1 \/ i = 2
        OBVIOUS
      <4>2. QED  BY <1>1, <4>1, Zenon
    <3>2. <<"begin", "next">>[1] = "begin" /\ <<"begin", "next">>[2] = "next"
      OBVIOUS
    <3>3. QED  BY <3>1, <3>2 DEF OnOneHost
  <2>2. QED  BY <1>2, <2>1
<1>4. ASSUME NEW g PROVE IsFiniteSet(OnEachTarget(g))
  <2>1. Targets \subseteq {opt.targets[1], opt.targets[2]}
    BY <1>1 DEF Targets, ToSet
  <2>2. OnEachTarget(g) \subseteq {NewNode(opt.targets[1], "begin", g), NewNode(opt.targets[2], "begin", g)}
    BY <2>1 DEF OnEachTarget
  <2>3. QED  BY <1>2, <2>2
<1>5. QED  BY <1>3, <1>4

LEMMA InitManaged == Init => Managed
<1>1. SUFFICES ASSUME Init PROVE Managed
  OBVIOUS
<1>2. PICK old \in SUBSET Others :
        /\ nodes = {PrimaryNode} \cup
                     {[host |-> h, port |-> "old", role |-> "standby",
                       grp |-> IF ce THEN 2 ELSE 0] : h \in old}
        /\ hosts = {Primary} \cup old
  BY <1>1 DEF Init
<1> DEFINE At2(h) == [host |-> h, port |-> "old", role |-> "standby", grp |-> IF ce THEN 2 ELSE 0]
           f == [h \in old |-> At2(h)]
           olds == {At2(h) : h \in old}
<1>3. IsFiniteSet(olds)
  <2>1. f \in Surjection(old, olds)
    BY DEF Surjection
  <2>2. IsFiniteSet(old)
    BY HostsAssumption, FS_Subset
  <2>3. QED  BY <2>1, <2>2, FS_Surjection
<1>4. nodes = olds \cup {PrimaryNode}
  BY <1>2
<1>5. IsFiniteSet(nodes)
  BY <1>3, <1>4, FS_AddElement
<1>6. stage.nodes = {} /\ IsFiniteSet(stage.nodes) /\ run \in Nat
  BY <1>1, FS_EmptySet DEF Init
<1>7. Numbered(2, nodes \cup stage.nodes) /\ Members \subseteq hosts
  BY <1>2, <1>6 DEF Numbered, PrimaryNode, Members
<1>8. QED  BY <1>5, <1>6, <1>7 DEF Managed

LEMMA FewerStayManaged ==
    ASSUME Managed, run' \in Nat, nodes' \subseteq nodes, stage' = stage,
           \/ hosts \subseteq hosts'
           \/ \E h : hosts' = hosts \ {h} /\ nodes' = {n \in nodes : n.host # h}
    PROVE  Managed'
<1>1. IsFiniteSet(nodes') /\ IsFiniteSet(stage.nodes)'
  BY FS_Subset DEF Managed
<1>2. PICK b \in Nat : Numbered(b, nodes \cup stage.nodes)
  BY DEF Managed
<1>3. Numbered(b, nodes \cup stage.nodes)'
  BY <1>2 DEF Numbered
<1>4. Members' \subseteq hosts'
  BY DEF Managed, Members
<1>5. QED  BY <1>1, <1>3, <1>4 DEF Managed

LEMMA MoreStayManaged ==
    ASSUME Managed, run' = run, stage' = stage, hosts' = hosts,
           NEW X, IsFiniteSet(X), nodes' \subseteq nodes \cup X,
           \A x \in X : x.host \in hosts /\ \E n \in nodes \cup stage.nodes : x.grp = n.grp
    PROVE  Managed'
<1>1. IsFiniteSet(nodes') /\ IsFiniteSet(stage.nodes)'
  <2>1. IsFiniteSet(nodes \cup X)
    BY FS_Union DEF Managed
  <2>2. QED  BY <2>1, FS_Subset DEF Managed
<1>2. PICK b \in Nat : Numbered(b, nodes \cup stage.nodes)
  BY DEF Managed
<1>3. Numbered(b, nodes \cup stage.nodes)'
  BY <1>2 DEF Numbered
<1>4. Members' \subseteq hosts'
  BY DEF Managed, Members
<1>5. run' \in Nat
  BY DEF Managed
<1>6. QED  BY <1>1, <1>3, <1>4, <1>5 DEF Managed

LEMMA StagingStaysManaged ==
    ASSUME Managed, run' = run, nodes' = nodes, hosts' = hosts,
           IsFiniteSet(stage'.nodes), NEW g \in Nat, Numbered(g, stage'.nodes)
    PROVE  Managed'
<1>1. PICK b \in Nat : Numbered(b, nodes \cup stage.nodes)
  BY DEF Managed
<1>2. PICK m \in Nat : b <= m /\ g <= m
  <2>1. b <= b + g /\ g <= b + g /\ b + g \in Nat
    OBVIOUS
  <2>2. QED  BY <2>1
<1>3. Numbered(m, nodes \cup stage.nodes)'
  BY <1>1, <1>2 DEF Numbered
<1>4. Members' \subseteq hosts' /\ IsFiniteSet(nodes') /\ run' \in Nat
  BY DEF Managed, Members
<1>5. QED  BY <1>3, <1>4 DEF Managed

(* What yasboot config gen can write. *)
LEMMA GeneratedAre ==
    ASSUME Managed, PrimaryNode \in nodes, GenNodes \/ GenGroup
    PROVE  \/ \E h : stage'.nodes = OnOneHost(h)
           \/ stage'.nodes = OnEachTarget(0)
           \/ stage'.nodes = OnEachTarget(NextGroup)
<1>1. \A hs, ns, p : Generated(hs, ns, p) => stage'.nodes = ns
  BY DEF Generated
<1>2. CASE GenNodes
  BY <1>1, <1>2 DEF GenNodes
<1>3. CASE GenGroup
  BY <1>1, <1>3 DEF GenGroup
<1>4. QED  BY <1>2, <1>3

LEMMA StaysManaged ==
    ASSUME Managed, SurvivalInv, Orderly, [Next]_vars
    PROVE  Managed'
<1>0. IsOption(opt)
  BY OptionsAreTyped DEF Orderly
<1>1. CASE GenNodes \/ GenGroup
  <2>1. run' = run /\ nodes' = nodes /\ hosts' = hosts /\ PrimaryNode \in nodes
    BY <1>1 DEF GenNodes, GenGroup, Frame, SurvivalInv, PrimarySurvives
  <2>2. NextGroup \in Nat
    BY <2>1, NextGroupIsNew
  <2>3. IsFiniteSet(stage'.nodes)
    BY <1>0, <1>1, <2>1, GeneratedAre, FiniteStage
  <2>4. \E g \in Nat : Numbered(g, stage'.nodes)
    <3>1. \A h : Numbered(0, OnOneHost(h))
      BY DEF Numbered, OnOneHost, NewNode
    <3>2. \A g \in Nat : Numbered(g, OnEachTarget(g))
      BY DEF Numbered, OnEachTarget, NewNode
    <3>3. QED  BY <1>1, <2>1, <2>2, <3>1, <3>2, GeneratedAre
  <2>5. QED  BY <2>1, <2>3, <2>4, StagingStaysManaged
<1>2. CASE AddInstances
  <2>1. run' = run /\ stage' = stage /\ hosts' = hosts
    BY <1>2 DEF AddInstances, Frame
  <2>2. Cleared \subseteq nodes
    BY DEF Cleared
  <2>3. CASE Fits(Cleared)
    <3>1. nodes' \subseteq nodes \cup stage.nodes /\ \A s \in stage.nodes : s.host \in hosts
      BY <1>2, <2>2, <2>3 DEF AddInstances, Fits
    <3>2. QED  BY <2>1, <3>1, MoreStayManaged DEF Managed
  <2>4. CASE ~Fits(Cleared)
    <3>1. nodes' \subseteq nodes /\ run' \in Nat
      BY <1>2, <2>1, <2>2, <2>4 DEF AddInstances, Managed
    <3>2. QED  BY <2>1, <3>1, FewerStayManaged
  <2>5. QED  BY <2>3, <2>4
<1>3. CASE AddFails
  <2>1. run' = run /\ stage' = stage /\ hosts' = hosts
    BY <1>3 DEF AddFails, Frame
  <2>2. PICK left \in SUBSET stage.nodes :
           nodes' = Cleared \cup {[n EXCEPT !.role = "failed"] : n \in left}
    BY <1>3 DEF AddFails
  <2> DEFINE X == {[n EXCEPT !.role = "failed"] : n \in left}
             f == [n \in left |-> [n EXCEPT !.role = "failed"]]
  <2>3. IsFiniteSet(X)
    <3>1. f \in Surjection(left, X)
      BY DEF Surjection
    <3>2. IsFiniteSet(left)
      BY <2>2, FS_Subset DEF Managed
    <3>3. QED  BY <3>1, <3>2, FS_Surjection
  <2>4. nodes' \subseteq nodes \cup X
    BY <2>2 DEF Cleared
  <2>5. \A x \in X : x.host \in hosts /\ \E n \in nodes \cup stage.nodes : x.grp = n.grp
    <3>1. \A n \in left : /\ n.host \in hosts /\ n \in stage.nodes
                          /\ [n EXCEPT !.role = "failed"].host = n.host
                          /\ [n EXCEPT !.role = "failed"].grp = n.grp
      BY <1>3 DEF AddFails, Fits
    <3>2. QED  BY <3>1
  <2>6. QED  BY <2>1, <2>3, <2>4, <2>5, MoreStayManaged
<1>4. CASE Joins
  <2>1. run' = run /\ stage' = stage /\ hosts' = hosts
    BY <1>4 DEF Joins, Frame
  <2>2. PICK n \in nodes, r \in {"standby", "failed"} : nodes' = (nodes \ {n}) \cup {[n EXCEPT !.role = r]}
    BY <1>4 DEF Joins
  <2>3. IsFiniteSet({[n EXCEPT !.role = r]})
    BY FS_Singleton
  <2>4. [n EXCEPT !.role = r].host \in hosts /\ [n EXCEPT !.role = r].grp = n.grp
    <3>1. n.host \in hosts
      BY DEF Managed, Members
    <3>2. [n EXCEPT !.role = r].host = n.host /\ [n EXCEPT !.role = r].grp = n.grp
      OBVIOUS
    <3>3. QED  BY <3>1, <3>2
  <2>5. QED  BY <2>1, <2>2, <2>3, <2>4, MoreStayManaged
<1>5. CASE RemoveHost \/ RemoveFails
  <2>1. /\ run' = run /\ stage' = stage
        /\ \E h : hosts' = hosts \ {h} /\ nodes' = {n \in nodes : n.host # h}
    BY <1>5 DEF RemoveHost, RemoveFails, Frame
  <2>2. nodes' \subseteq nodes /\ run' \in Nat
    BY <2>1 DEF Managed
  <2>3. QED  BY <2>1, <2>2, FewerStayManaged
<1>6. CASE Handle \/ CleanupFailed
  <2>1. run' = run /\ stage' = stage /\ hosts' = hosts
    BY <1>6 DEF Handle, CleanupFailed, Frame
  <2>2. nodes' \subseteq nodes
    <3>1. nodes' = nodes \/ CleanUp(TRUE) \/ CleanUp(FALSE)
      BY <1>6 DEF Handle, CleanupFailed
    <3>2. ASSUME NEW ok \in BOOLEAN, CleanUp(ok) PROVE nodes' \subseteq nodes
      BY <3>2 DEF CleanUp, RemoveGroups, RemoveFailedNodes
    <3>3. QED  BY <3>1, <3>2
  <2>3. QED  BY <2>1, <2>2, FewerStayManaged DEF Managed
<1>7. CASE AddHosts
  <2>1. run' = run /\ stage' = stage /\ nodes' = nodes /\ hosts \subseteq hosts'
    BY <1>7 DEF AddHosts, Frame
  <2>2. QED  BY <2>1, FewerStayManaged DEF Managed
<1>8. CASE \/ Look \/ CheckArchiveMode \/ CheckArchiveDest \/ StepFails
           \/ CheckStatus \/ CheckReplicationSE \/ EnsureReplicationCE \/ StopCluster \/ StartCluster
           \/ CheckPort \/ MakePaths \/ ResolvePath \/ FindExisting \/ RemovalUnseen
           \/ (\E s \in {"gen", "software", "sync", "verify", "failed"} : Preview(s))
           \/ NothingToAdd \/ SkipAdd \/ CheckSync \/ SyncTimesOut \/ Verify \/ SkipCleanup
           \/ Interrupted \/ OperatorRestarts \/ Finished \/ UNCHANGED vars
  <2>1. UNCHANGED <<run, nodes, hosts, stage>>
    BY <1>8
    DEF Look, CheckArchiveMode, CheckArchiveDest, StepFails, CheckStatus, CheckReplicationSE,
        EnsureReplicationCE, StopCluster, StartCluster, CheckPort, MakePaths, ResolvePath,
        FindExisting, RemovalUnseen, Preview, NothingToAdd, SkipAdd, CheckSync, SyncTimesOut, Verify,
        SkipCleanup, Interrupted, OperatorRestarts, Finished, vars, cluster, Frame
  <2>2. QED  BY <2>1, FewerStayManaged DEF Managed
<1>9. CASE Start
  <2>1. UNCHANGED <<nodes, hosts, stage>> /\ run' \in Nat
    BY <1>9 DEF Start, cluster, Managed
  <2>2. QED  BY <2>1, FewerStayManaged
<1>10. QED  BY <1>1, <1>2, <1>3, <1>4, <1>5, <1>6, <1>7, <1>8, <1>9 DEF Next

-----------------------------------------------------------------------------
(* What a repeated run finds at each of its calls, as long as no command   *)
(* fails in it.  The calls after which something new is known:             *)
Replicates == <<1, 1, 4>>        \* E-004
Removes    == <<4, 1, 4>>        \* E-010
Generates  == <<4, 1, 5>>        \* E-011
Installs   == <<4, 1, 6>>        \* E-012
Adds       == <<4, 1, 7>>        \* E-013
Landmarks == {Replicates, Removes, Generates, Installs, Adds}
Past(m) == Before(m, at)

Calm == run > 0 /\ Repeatable /\ ~disturbed

(* The primary runs and ships its redo, or is to be restarted to do so.    *)
Powered ==
    /\ part # "start" => up
    /\ repl = "set" \/ (ce /\ opt.restart /\ ~Past(Replicates))

(* Until E-010 the targets hold nothing but failed instances at the port.  *)
Fresh ==
    \A n \in nodes : n.host \in Targets => /\ n.port = "begin" => n.role = "failed"
                                          /\ Len(opt.targets) = 1

(* From E-010 to E-013 the port is free, ...                               *)
Vacant == \A h \in Targets : ~Occupied(h)

(* ... and until E-011 either no target is registered, or the only one is  *)
(* and is to be reused.                                                    *)
Chosen ==
    \/ par.hostId = None /\ Targets \cap hosts = {}
    \/ par.hostId \in Targets /\ Targets \subseteq hosts /\ Len(opt.targets) = 1

(* From E-011 on: the group of the new instances, theirs alone, ...        *)
Group == IF ce THEN par.new ELSE 0
Instance(h, r) == [host |-> h, port |-> "begin", role |-> r, grp |-> Group]
Joined == {Instance(h, r) : h \in Targets, r \in {"joining", "standby"}}
NewGroup ==
    ce => /\ par.new \notin par.base /\ par.new > 1
          /\ \A n \in nodes : n.grp = par.new => Past(Adds) /\ n \in Joined

(* ... the staged files, which E-012 makes fit the cluster, ...            *)
Staged ==
    /\ stage.nodes = OnEachTarget(Group)
    /\ IF Past(Installs) THEN Targets \subseteq hosts
       ELSE \/ par.hostId = None /\ stage.hosts = Targets
            \/ par.hostId # None /\ Targets \subseteq hosts

(* ... and after E-013 the instances themselves.                           *)
Added == \A h \in Targets : \E r \in {"joining", "standby"} : Instance(h, r) \in nodes

Goes ==
    /\ part # "handle" /\ ~par.bad /\ Powered
    /\ ~Past(Removes) => par.hostId = None /\ Fresh
    /\ part = "remove" => Targets \cap hosts \subseteq todo
    /\ Past(Removes) /\ ~Past(Adds) => Vacant
    /\ Past(Removes) /\ ~Past(Generates) => Chosen
    /\ Past(Generates) => NewGroup
    /\ Past(Generates) /\ ~Past(Adds) => Staged
    /\ Past(Adds) => Added

Calmly == Calm => IF Running THEN Goes ELSE exit = "ok"

Filled == DOMAIN par = DOMAIN NoParams

CalmInv == SurvivalInv /\ Orderly /\ Managed /\ Filled /\ Calmly

(* Where the calls of a whole run stand. *)
LEMMA LandmarksAreCalls ==
    ASSUME IsOption(opt), opt.plan = Steps
    PROVE  Landmarks \subseteq Calls
<1>1. 1 \in DOMAIN opt.targets
  <2>1. \A n \in 1..2 : 1 \in 1..n
    OBVIOUS
  <2>2. Len(opt.targets) \in 1..2 /\ DOMAIN opt.targets = 1..Len(opt.targets)
    BY DEF IsOption
  <2>3. QED  BY <2>1, <2>2, Zenon
<1>2. {"replication", "cleanup", "gen", "software", "add"} \subseteq Steps
  <2>1. ToSet(PrimarySteps) \ Always \subseteq Steps /\ ToSet(MiddleSteps) \ Always \subseteq Steps
    BY DEF Steps
  <2>2. "replication" \in ToSet(PrimarySteps)
    BY DEF PrimarySteps, ToSet
  <2>3. {"cleanup", "gen", "software", "add"} \subseteq ToSet(MiddleSteps)
    BY DEF MiddleSteps, ToSet
  <2>4. QED  BY <2>1, <2>2, <2>3 DEF Always
<1>3. QED
  BY <1>1, <1>2, PhasesAre
  DEF Landmarks, Replicates, Removes, Generates, Installs, Adds, Calls, StepOf, PerHost

LEMMA StandsAt ==
    ASSUME IsOption(opt), NEW c \in Calls
    PROVE  /\ c[1] = 1 \/ c[1] = 2 \/ c[1] = 3 \/ c[1] = 4 \/ c[1] = 5 \/ c[1] = 6
           /\ c = <<c[1], c[2], c[3]>> /\ (c[1] \in {1, 4, 6} => c[2] = 1)
           /\ StepOf(c) \in {"primary", "status", "archiveMode"} => c[1] = 1 /\ c[3] < 4
           /\ StepOf(c) \in {"reach", "port", "paths"} => c[1] = 3
           /\ StepOf(c) \in {"path", "archiveDest", "network"} => c[1] = 4 /\ c[3] < 4
           /\ StepOf(c) = "sync" => c[1] = 4 /\ c[3] = 8
           /\ StepOf(c) \in {"env", "autostart", "verify"} => c[1] = 5
           /\ StepOf(c) = "connect" => c[1] = 2
           /\ StepOf(c) = "show" => c[1] = 6
           /\ StepOf(c) = "failed" => c[1] = 6 /\ c[3] = 2
           /\ StepOf(c) = "replication" <=> c = Replicates
           /\ StepOf(c) = "cleanup" <=> c = Removes
           /\ StepOf(c) = "gen" <=> c = Generates
           /\ StepOf(c) = "software" <=> c = Installs
           /\ StepOf(c) = "add" <=> c = Adds
<1>0. /\ c[1] \in 1..6 /\ c[3] \in DOMAIN Phases[c[1]] /\ StepOf(c) = Phases[c[1]][c[3]]
      /\ c[1] \in {3, 5} \/ c[2] = 1
  BY CallsAreTriples DEF StepOf, PerHost
<1>a. c = <<c[1], c[2], c[3]>>
  BY DEF Calls
<1> USE DEF Replicates, Removes, Generates, Installs, Adds
<1>1. CASE c[1] = 1
  BY <1>0, <1>a, <1>1, PhasesAre
<1>2. CASE c[1] = 2
  BY <1>0, <1>a, <1>2, PhasesAre
<1>3. CASE c[1] = 3
  BY <1>0, <1>a, <1>3, PhasesAre
<1>4. CASE c[1] = 4
  BY <1>0, <1>a, <1>4, PhasesAre
<1>5. CASE c[1] = 5
  BY <1>0, <1>a, <1>5, PhasesAre
<1>6. CASE c[1] = 6
  BY <1>0, <1>a, <1>6, PhasesAre
<1>7. QED  BY <1>0, <1>1, <1>2, <1>3, <1>4, <1>5, <1>6

(* Going on passes the landmark the run stands at and no other.            *)
LEMMA Onward ==
    ASSUME IsOption(opt), at \in Calls, opt' = opt, Advance, NEW m \in Calls
    PROVE  \/ /\ part' = "call" /\ exit' = exit /\ at' \in Calls
              /\ Before(m, at') <=> m = at \/ Before(m, at)
           \/ part' = "idle" /\ exit' = "ok" /\ at' = at
<1>0. Calls \subseteq Triples
  BY CallsAreTriples
<1>1. CASE \E c \in Calls : Before(at, c)
  <2>1. at' \in Following(at) /\ part' = "call" /\ exit' = exit
    BY <1>1 DEF Advance
  <2>2. at' \in Calls /\ Before(at, at') /\ \A e \in Calls : Before(at, e) => ~Before(e, at')
    BY <2>1 DEF Following
  <2>3. QED  BY <1>0, <2>1, <2>2, BeforeOrders
<1>2. CASE ~(\E c \in Calls : Before(at, c))
  BY <1>2 DEF Advance, Return
<1>3. QED  BY <1>1, <1>2

(* Within a run the options, the kind of cluster and what it started from  *)
(* stay, and a disturbance is not forgotten.                               *)
LEMMA CalmBefore ==
    ASSUME [Next]_vars, ~Start, Calm'
    PROVE  Calm /\ UNCHANGED <<ce, opt, run, start>>
<1>1. CASE \/ StepFails \/ RemovalUnseen \/ RemoveFails \/ AddFails \/ Interrupted
  BY <1>1 DEF StepFails, RemovalUnseen, RemoveFails, AddFails, Interrupted, Calm
<1>2. CASE \/ Look \/ CheckArchiveMode \/ CheckArchiveDest \/ CheckStatus \/ CheckReplicationSE
           \/ StopCluster \/ StartCluster \/ CheckPort \/ ResolvePath \/ RemoveHost
           \/ (\E s \in {"gen", "software", "sync", "verify", "failed"} : Preview(s))
           \/ GenNodes \/ NothingToAdd \/ SkipAdd \/ SyncTimesOut \/ Verify \/ SkipCleanup
           \/ OperatorRestarts \/ Finished \/ UNCHANGED vars
  <2>1. UNCHANGED <<ce, opt, run, start, disturbed>>
    BY <1>2
    DEF Look, CheckArchiveMode, CheckArchiveDest, CheckStatus, CheckReplicationSE, StopCluster,
        StartCluster, CheckPort, ResolvePath, RemoveHost, Preview, GenNodes, NothingToAdd, SkipAdd,
        SyncTimesOut, Verify, SkipCleanup, OperatorRestarts, Finished, Frame, vars
  <2>2. QED  BY <2>1 DEF Calm, Repeatable, Targets
<1>3. ASSUME UNCHANGED <<ce, opt, run, start>>, ~disturbed' => ~disturbed
      PROVE  Calm
  BY <1>3 DEF Calm, Repeatable, Targets
<1>4. CASE EnsureReplicationCE \/ FindExisting \/ GenGroup \/ CheckSync \/ AddInstances
  <2>1. UNCHANGED <<ce, opt, run, start>>
    BY <1>4 DEF EnsureReplicationCE, FindExisting, GenGroup, CheckSync, AddInstances, Frame
  <2>2. \E lost \in BOOLEAN : disturbed' = (disturbed \/ lost)
    <3>1. CASE EnsureReplicationCE
      <4>1. PICK read \in BOOLEAN : disturbed' = (disturbed \/ ~read)
        BY <3>1 DEF EnsureReplicationCE
      <4>2. QED  BY <4>1
    <3>2. CASE FindExisting
      <4>1. PICK agents, status, again \in BOOLEAN :
                    disturbed' = (disturbed \/ ~(agents /\ status /\ again))
        BY <3>2 DEF FindExisting
      <4>2. QED  BY <4>1
    <3>3. CASE GenGroup
      <4>1. PICK read, patched \in BOOLEAN : disturbed' = (disturbed \/ ~read \/ ~patched)
        BY <3>3 DEF GenGroup
      <4>2. QED  BY <4>1
    <3>4. CASE CheckSync
      <4>1. PICK read \in BOOLEAN : disturbed' = (disturbed \/ ~read)
        BY <3>4 DEF CheckSync
      <4>2. QED  BY <4>1
    <3>5. CASE AddInstances
      BY <3>5 DEF AddInstances
    <3>6. QED  BY <1>4, <3>1, <3>2, <3>3, <3>4, <3>5
  <2>3. QED  BY <1>3, <2>1, <2>2
<1>5. CASE MakePaths \/ AddHosts \/ Joins
  <2>1. UNCHANGED <<ce, opt, run, start>>
    BY <1>5 DEF MakePaths, AddHosts, Joins, Frame
  <2>2. ~disturbed' => ~disturbed
    BY <1>5 DEF MakePaths, AddHosts, Joins
  <2>3. QED  BY <1>3, <2>1, <2>2
<1>6. CASE Handle \/ CleanupFailed
  <2>1. UNCHANGED <<ce, opt, run, start>>
    BY <1>6 DEF Handle, CleanupFailed, Frame
  <2>2. disturbed' = disturbed \/ CleanUp(TRUE) \/ CleanUp(FALSE)
    BY <1>6 DEF Handle, CleanupFailed
  <2>3. ASSUME NEW ok \in BOOLEAN, CleanUp(ok) PROVE \E lost \in BOOLEAN : disturbed' = (disturbed \/ lost)
    <3>1. CASE ce
      <4>1. PICK read \in BOOLEAN : \E sel, gone :
               LET all == sel # {} /\ sel \subseteq Groups
               IN  disturbed' = (disturbed \/ ~read
                                \/ (~ok /\ (all \/ gone # sel \cap Groups)))
        BY <2>3, <3>1 DEF CleanUp, RemoveGroups
      <4>2. QED  BY <4>1
    <3>2. CASE ~ce
      BY <2>3, <3>2 DEF CleanUp, RemoveFailedNodes
    <3>3. QED  BY <3>1, <3>2
  <2>4. QED  BY <1>3, <2>1, <2>2, <2>3
<1>7. QED  BY <1>1, <1>2, <1>4, <1>5, <1>6 DEF Next

(* Which of the landmarks a call has behind it.                            *)
LEMMA PastIs ==
    ASSUME IsOption(opt), at \in Calls
    PROVE  /\ StepOf(at) \in {"primary", "status", "archiveMode", "replication"}
                => \A m \in Landmarks : ~Past(m)
           /\ StepOf(at) \in {"connect", "reach", "port", "paths", "path", "archiveDest", "network", "cleanup"}
                => Past(Replicates) /\ \A m \in Landmarks \ {Replicates} : ~Past(m)
           /\ StepOf(at) = "gen"
                => Past(Replicates) /\ Past(Removes) /\ ~Past(Generates) /\ ~Past(Installs) /\ ~Past(Adds)
           /\ StepOf(at) = "software"
                => Past(Replicates) /\ Past(Removes) /\ Past(Generates) /\ ~Past(Installs) /\ ~Past(Adds)
           /\ StepOf(at) = "add"
                => Past(Replicates) /\ Past(Removes) /\ Past(Generates) /\ Past(Installs) /\ ~Past(Adds)
           /\ StepOf(at) \in {"sync", "env", "autostart", "verify", "show", "failed"}
                => \A m \in Landmarks : Past(m)
<1>0. /\ at[1] = 1 \/ at[1] = 2 \/ at[1] = 3 \/ at[1] = 4 \/ at[1] = 5 \/ at[1] = 6
      /\ at[1] \in {1, 4, 6} => at[2] = 1
      /\ at[3] \in Int
  BY StandsAt, CallsAreTriples
<1> USE DEF Past, Before, Landmarks, Replicates, Removes, Generates, Installs, Adds
<1>1. CASE StepOf(at) \in {"primary", "status", "archiveMode"}
  BY <1>0, <1>1, StandsAt
<1>2. CASE StepOf(at) \in {"connect", "reach", "port", "paths", "path", "archiveDest", "network"}
  BY <1>0, <1>2, StandsAt
<1>3. CASE StepOf(at) \in {"replication", "cleanup", "gen", "software", "add"}
  <2>1. CASE StepOf(at) = "replication"
    <3>1. at = <<1, 1, 4>>
      BY <2>1, StandsAt
    <3>2. QED  BY <2>1, <3>1
  <2>2. CASE StepOf(at) = "cleanup"
    <3>1. at = <<4, 1, 4>>
      BY <2>2, StandsAt
    <3>2. QED  BY <2>2, <3>1
  <2>3. CASE StepOf(at) = "gen"
    <3>1. at = <<4, 1, 5>>
      BY <2>3, StandsAt
    <3>2. QED  BY <2>3, <3>1
  <2>4. CASE StepOf(at) = "software"
    <3>1. at = <<4, 1, 6>>
      BY <2>4, StandsAt
    <3>2. QED  BY <2>4, <3>1
  <2>5. CASE StepOf(at) = "add"
    <3>1. at = <<4, 1, 7>>
      BY <2>5, StandsAt
    <3>2. QED  BY <2>5, <3>1
  <2>6. QED  BY <1>3, <2>1, <2>2, <2>3, <2>4, <2>5
<1>4. CASE StepOf(at) \in {"sync", "env", "autostart", "verify", "show", "failed"}
  BY <1>0, <1>4, StandsAt
<1>5. QED  BY <1>1, <1>2, <1>3, <1>4

LEMMA CalmFacts ==
    ASSUME CalmInv, Calm
    PROVE  /\ IsOption(opt) /\ Landmarks \subseteq Calls
           /\ opt.mode = "apply" /\ opt.plan = Steps /\ opt.force /\ ~Previewing /\ CleansUp
           /\ Primary \notin Targets /\ Targets # {}
           /\ Running => Goes /\ at \in Calls
<1>1. IsOption(opt) /\ opt.mode = "apply" /\ opt.plan = Steps /\ opt.force /\ Primary \notin Targets
  BY OptionsAreTyped DEF CalmInv, Calm, Repeatable, Orderly
<1>2. Targets # {}
  <2>1. Len(opt.targets) # 0 /\ DOMAIN opt.targets = 1..Len(opt.targets) /\ Len(opt.targets) \in Nat
    BY <1>1 DEF IsOption
  <2>2. 1 \in DOMAIN opt.targets
    <3>1. \A n \in Nat : n # 0 => 1 \in 1..n
      OBVIOUS
    <3>2. QED  BY <2>1, <3>1, Zenon
  <2>3. QED  BY <2>2 DEF Targets, ToSet
<1>3. Running => Goes /\ at \in Calls
  BY DEF CalmInv, Calmly, Orderly
<1>4. QED  BY <1>1, <1>2, <1>3, LandmarksAreCalls DEF Previewing, CleansUp

(* A step that leaves the cluster alone and is no landmark. *)
LEMMA NothingNew ==
    ASSUME Goes, UNCHANGED <<ce, opt, nodes, hosts, stage, up, repl>>,
           par'.hostId = par.hostId, par'.new = par.new, par'.bad = par.bad,
           par'.base = par.base \/ ~Past(Generates),
           part' = "call", up,
           \A m \in Landmarks : Before(m, at') <=> Past(m)
    PROVE  Goes'
<1>1. \A m \in Landmarks : Before(m, at') <=> Past(m)
  OBVIOUS
<1>2. /\ Replicates \in Landmarks /\ Removes \in Landmarks /\ Generates \in Landmarks
      /\ Installs \in Landmarks /\ Adds \in Landmarks
  BY DEF Landmarks
<1>3. /\ Past(Replicates)' <=> Past(Replicates)
      /\ Past(Removes)' <=> Past(Removes)
      /\ Past(Generates)' <=> Past(Generates)
      /\ Past(Installs)' <=> Past(Installs)
      /\ Past(Adds)' <=> Past(Adds)
  BY <1>1, <1>2 DEF Past, Before, Replicates, Removes, Generates, Installs, Adds
<1>4. Targets' = Targets /\ Group' = Group /\ (\A h : Occupied(h)' <=> Occupied(h))
      /\ (\A g : OnEachTarget(g)' = OnEachTarget(g))
      /\ (\A h, r : Instance(h, r)' = Instance(h, r)) /\ Joined' = Joined
  BY DEF Targets, Group, Occupied, At, OnEachTarget, Instance, Joined
<1>5. Powered' /\ (Fresh' <=> Fresh) /\ (Vacant' <=> Vacant) /\ (Chosen' <=> Chosen)
  BY <1>3, <1>4 DEF Powered, Fresh, Vacant, Chosen, Goes
<1>6. (Past(Generates) /\ NewGroup => NewGroup') /\ (Added' <=> Added)
  BY <1>3, <1>4 DEF NewGroup, Added
<1>7. Staged' <=> Staged
  BY <1>3, <1>4 DEF Staged
<1>8. QED  BY <1>3, <1>4, <1>5, <1>6, <1>7 DEF Goes

LEMMA QuietGoes ==
    ASSUME CalmInv, Calm, Running, Advance,
           UNCHANGED <<ce, opt, nodes, hosts, stage, up, repl>>, up,
           par'.hostId = par.hostId, par'.new = par.new, par'.bad = par.bad,
           par'.base = par.base \/ ~Past(Generates),
           StepOf(at) \notin {"cleanup", "gen", "software", "add", "replication"}
    PROVE  Calmly'
<1>1. Goes /\ IsOption(opt) /\ at \in Calls /\ Landmarks \subseteq Calls
  BY CalmFacts
<1>2. at \notin Landmarks
  BY <1>1, StandsAt DEF Landmarks
<1>3. CASE part' = "idle" /\ exit' = "ok"
  BY <1>3 DEF Calmly, Running
<1>4. CASE part' = "call"
  <2>1. \A m \in Landmarks : Before(m, at') <=> Past(m)
    BY <1>1, <1>2, <1>4, Onward DEF Past
  <2>2. QED  BY <1>1, <1>4, <2>1, NothingNew DEF Calmly, Running
<1>5. QED  BY <1>1, <1>3, <1>4, Onward

LEMMA ResolveKeeps ==
    ASSUME NEW p \in Resolve(par)
    PROVE  p.hostId = par.hostId /\ p.new = par.new /\ p.bad = par.bad
<1> DEFINE q == [par EXCEPT !.resolved = TRUE]
<1>1. q.hostId = par.hostId /\ q.new = par.new /\ q.bad = par.bad
  OBVIOUS
<1>2. \A r : LET t == [r EXCEPT !.base = StandbyGroups, !.expected = NextGroup]
            IN  t.hostId = r.hostId /\ t.new = r.new /\ t.bad = r.bad
  OBVIOUS
<1>3. p = par \/ p = q \/ p = Recorded(q)
  BY DEF Resolve
<1>4. QED  BY <1>1, <1>2, <1>3 DEF Recorded

LEMMA HostOfIsTarget ==
    ASSUME IsOption(opt), at \in Calls
    PROVE  HostOf(at) \in Targets
BY CallsAreTriples DEF HostOf, Targets, ToSet

(* Phases 1 and 2, and what only looks.                                    *)
LEMMA LookingGoes ==
    ASSUME CalmInv, Calm, Running, Calm',
           \/ Look \/ CheckArchiveMode \/ CheckArchiveDest \/ CheckStatus \/ CheckPort
           \/ MakePaths \/ ResolvePath \/ CheckSync \/ Verify
    PROVE  Calmly'
<1>0. /\ Goes /\ IsOption(opt) /\ at \in Calls /\ ~Previewing /\ opt.force
  BY CalmFacts
<1>1. part = "call" /\ UNCHANGED <<ce, opt, nodes, hosts, stage, up, repl>>
  BY DEF Look, CheckArchiveMode, CheckArchiveDest, CheckStatus, CheckPort, MakePaths, ResolvePath,
         CheckSync, Verify, Here, cluster, Frame
<1>2. up /\ ~par.bad
  BY <1>0, <1>1 DEF Goes, Powered
<1>3. ASSUME Advance, par' = par, StepOf(at) \notin {"cleanup", "gen", "software", "add", "replication"}
      PROVE  Calmly'
  BY <1>1, <1>2, <1>3, QuietGoes
<1>4. ASSUME Advance, par' \in Resolve(par), StepOf(at) \in {"status", "path"}
      PROVE  Calmly'
  <2>1. ~Past(Generates)
    BY <1>0, <1>4, PastIs DEF Landmarks, Replicates, Generates
  <2>2. par'.hostId = par.hostId /\ par'.new = par.new /\ par'.bad = par.bad
    BY <1>4, ResolveKeeps
  <2>3. QED  BY <1>1, <1>2, <1>4, <2>1, <2>2, QuietGoes
<1>5. CASE Look
  BY <1>3, <1>5 DEF Look, Looks
<1>6. CASE CheckArchiveMode
  BY <1>2, <1>3, <1>6 DEF CheckArchiveMode, Here
<1>7. CASE CheckStatus
  BY <1>2, <1>4, <1>7 DEF CheckStatus, Here
<1>8. CASE ResolvePath
  BY <1>2, <1>4, <1>8 DEF ResolvePath, Here
<1>9. CASE CheckArchiveDest
  <2>1. StepOf(at) = "archiveDest" /\ Fresh
    BY <1>0, <1>9, PastIs DEF CheckArchiveDest, Here, Goes, Landmarks, Replicates, Removes
  <2>2. \A h \in Targets : ~Configured(h)
    BY <2>1 DEF Configured, At, Fresh
  <2>3. QED  BY <1>3, <1>9, <2>1, <2>2 DEF CheckArchiveDest
<1>10. CASE CheckPort
  <2>1. StepOf(at) = "port" /\ Fresh
    BY <1>0, <1>10, PastIs DEF CheckPort, Here, Goes, Landmarks, Replicates, Removes
  <2>2. ~Listening(HostOf(at))
    BY <1>0, <2>1, HostOfIsTarget DEF Listening, At, Fresh
  <2>3. QED  BY <1>3, <1>10, <2>1, <2>2 DEF CheckPort
<1>11. CASE MakePaths
  <2>1. disturbed' # TRUE
    BY DEF Calm
  <2>2. QED  BY <1>0, <1>3, <1>11, <2>1 DEF MakePaths, Here
<1>12. CASE CheckSync
  BY <1>3, <1>12 DEF CheckSync, Here
<1>13. CASE Verify
  <2>1. StepOf(at) = "verify" /\ Added
    BY <1>0, <1>13, PastIs DEF Verify, Here, Goes, Landmarks
  <2>2. Listening(HostOf(at))
    <3>1. PICK r \in {"joining", "standby"} :
             Instance(HostOf(at), r) \in nodes
      BY <1>0, <2>1, HostOfIsTarget DEF Added
    <3>2. QED  BY <3>1 DEF Listening, At, Instance
  <2>3. QED  BY <1>3, <1>13, <2>1, <2>2 DEF Verify
<1>14. QED  BY <1>5, <1>6, <1>7, <1>8, <1>9, <1>10, <1>11, <1>12, <1>13

(* What cannot happen: a disturbance, a preview, a refusal of E-013, and   *)
(* a run that is not to clean up.                                          *)
LEMMA RuledOut ==
    ASSUME CalmInv, Calm, Running, Calm'
    PROVE  /\ ~(StepFails \/ RemovalUnseen \/ RemoveFails \/ AddFails \/ Interrupted)
           /\ ~(\E s \in {"gen", "software", "sync", "verify", "failed"} : Preview(s))
           /\ ~(NothingToAdd \/ SkipAdd \/ SkipCleanup \/ Handle)
<1>0. Goes /\ IsOption(opt) /\ at \in Calls /\ ~Previewing /\ opt.force /\ CleansUp /\ Targets # {}
  BY CalmFacts
<1>1. disturbed' # TRUE
  BY DEF Calm
<1>2. ~(StepFails \/ RemovalUnseen \/ RemoveFails \/ AddFails \/ Interrupted)
  BY <1>1 DEF StepFails, RemovalUnseen, RemoveFails, AddFails, Interrupted
<1>3. ~(\E s \in {"gen", "software", "sync", "verify", "failed"} : Preview(s))
  BY <1>0 DEF Preview
<1>4. ~SkipCleanup /\ ~Handle
  BY <1>0 DEF SkipCleanup, Handle, Goes
<1>5. ~SkipAdd
  BY <1>0 DEF SkipAdd, AlreadyAdded
<1>6. ~NothingToAdd
  <2>1. StepOf(at) = "add" => stage.nodes = OnEachTarget(Group)
    BY <1>0, PastIs DEF Goes, Staged
  <2>2. OnEachTarget(Group) # {}
    BY <1>0 DEF OnEachTarget
  <2>3. QED  BY <2>1, <2>2 DEF NothingToAdd, Here
<1>7. QED  BY <1>2, <1>3, <1>4, <1>5, <1>6

(* E-014 finds every new instance open once nothing is left to join, and   *)
(* does not time out.                                                      *)
LEMMA TargetsCounted ==
    ASSUME IsOption(opt), IsFiniteSet(nodes),
           \A h \in Targets : Instance(h, "standby") \in nodes
    PROVE  Cardinality({n \in nodes : n.role = "standby" /\ n.host \in Targets}) >= Len(opt.targets)
<1> USE DEF Instance
<1> DEFINE N(h) == Instance(h, "standby")
           open == {n \in nodes : n.role = "standby" /\ n.host \in Targets}
           f == [i \in 1..Len(opt.targets) |-> N(opt.targets[i])]
<1>1. Len(opt.targets) \in 1..2 /\ DOMAIN opt.targets = 1..Len(opt.targets) /\ IsInjective(opt.targets)
  BY DEF IsOption
<1>2. IsFiniteSet(open)
  BY FS_Subset
<1>3. \A h \in Targets : N(h) \in open
  OBVIOUS
<1>4. \A i \in DOMAIN opt.targets : opt.targets[i] \in Targets
  BY DEF Targets, ToSet
<1>5. f \in Injection(1..Len(opt.targets), open)
  <2>1. f \in [1..Len(opt.targets) -> open]
    BY <1>1, <1>3, <1>4
  <2>2. \A i, j \in 1..Len(opt.targets) : f[i] = f[j] => i = j
    <3>1. \A i, j \in DOMAIN opt.targets : opt.targets[i] = opt.targets[j] => i = j
      BY <1>1 DEF IsInjective
    <3>2. \A i, j \in 1..Len(opt.targets) : f[i] = f[j] => f[i].host = f[j].host
      OBVIOUS
    <3>3. QED  BY <1>1, <3>1, <3>2
  <2>3. QED  BY <2>1, <2>2 DEF Injection, IsInjective
<1>6. /\ IsFiniteSet(1..Len(opt.targets))
      /\ Cardinality(1..Len(opt.targets)) <= Cardinality(open)
  BY <1>2, <1>5, FS_Injection
<1>7. Cardinality(1..Len(opt.targets)) = Len(opt.targets)
  BY <1>1, FS_Interval
<1>8. Cardinality(open) \in Nat
  BY <1>2, FS_CardinalityType
<1>9. QED  BY <1>1, <1>6, <1>7, <1>8

LEMMA SyncArrives ==
    ASSUME CalmInv, Calm, Running, SyncTimesOut
    PROVE  FALSE
<1>0. Goes /\ IsOption(opt) /\ at \in Calls /\ IsFiniteSet(nodes) /\ Targets # {}
  BY CalmFacts DEF CalmInv, Managed
<1>1. up /\ Added /\ NewGroup
  BY <1>0, PastIs DEF SyncTimesOut, Here, Goes, Powered, Landmarks
<1>2. ~Synced(TRUE) /\ \A n \in nodes : n.role # "joining"
  BY <1>1 DEF SyncTimesOut
<1>3. \A h \in Targets : Instance(h, "standby") \in nodes
  <2>1. SUFFICES ASSUME NEW h \in Targets
                 PROVE  Instance(h, "standby") \in nodes
    OBVIOUS
  <2>2. PICK r \in {"joining", "standby"} :
           Instance(h, r) \in nodes
    BY <1>1 DEF Added
  <2>3. r # "joining"
    BY <1>2, <2>2 DEF Instance
  <2>4. QED  BY <2>2, <2>3
<1>4. ce => ThisGroup \in StandbyGroups
  <2>1. SUFFICES ASSUME ce PROVE ThisGroup \in StandbyGroups
    OBVIOUS
  <2>2. ThisGroup = par.new /\ Group = par.new /\ \A n \in nodes : n.grp = par.new => n.role # "primary"
    BY <1>1, <2>1 DEF NewGroup, ThisGroup, Group, Joined, Instance
  <2>3. PICK n \in nodes : n.grp = par.new /\ n.role = "standby"
    BY <1>0, <1>3, <2>2 DEF Instance
  <2>4. QED  BY <2>2, <2>3 DEF StandbyGroups, Groups, InGroup
<1>5. Cardinality({n \in nodes : n.role = "standby" /\ n.host \in Targets}) >= Len(opt.targets)
  BY <1>0, <1>3, TargetsCounted
<1>6. QED  BY <1>2, <1>4, <1>5 DEF Synced

(* E-004. *)
LEMMA ReplicatingGoes ==
    ASSUME CalmInv, Calm, Running, Calm',
           CheckReplicationSE \/ EnsureReplicationCE \/ StopCluster \/ StartCluster
    PROVE  Calmly'
<1>0. /\ Goes /\ IsOption(opt) /\ at \in Calls /\ ~Previewing /\ Landmarks \subseteq Calls
  BY CalmFacts
<1>1. StepOf(at) = "replication" /\ UNCHANGED <<ce, opt, nodes, hosts, stage>>
  BY DEF CheckReplicationSE, EnsureReplicationCE, StopCluster, StartCluster, Here, cluster, Frame,
         CalmInv, Orderly
<1>2. at = Replicates /\ \A m \in Landmarks : ~Past(m)
  BY <1>0, <1>1, StandsAt, PastIs
<1>3. /\ \A m \in Landmarks \ {Replicates} : m # at
      /\ Removes \in Landmarks \ {Replicates} /\ Generates \in Landmarks \ {Replicates}
      /\ Installs \in Landmarks \ {Replicates} /\ Adds \in Landmarks \ {Replicates}
  BY <1>2 DEF Landmarks, Replicates, Removes, Generates, Installs, Adds
<1>4. par.hostId = None /\ ~par.bad /\ Fresh /\ Targets' = Targets
  BY <1>0, <1>1, <1>2, <1>3 DEF Goes, Targets
<1>5. ASSUME \A m \in Landmarks \ {Replicates} : ~Before(m, at'), par'.hostId = None, ~par'.bad,
             Powered', part' \in {"call", "stop", "start"}
      PROVE  Calmly'
  <2>1. ~Past(Removes)' /\ ~Past(Generates)' /\ ~Past(Installs)' /\ ~Past(Adds)'
    BY <1>3, <1>5 DEF Past, Before, Removes, Generates, Installs, Adds
  <2>2. Fresh'
    BY <1>1, <1>4 DEF Fresh
  <2>3. Goes'
    BY <1>5, <2>1, <2>2 DEF Goes
  <2>4. QED  BY <1>5, <2>3 DEF Calmly, Running
<1>6. ASSUME Advance, par' \in Resolve(par) \/ par' = par, up', repl' = "set"
      PROVE  Calmly'
  <2>1. CASE part' = "idle" /\ exit' = "ok"
    BY <2>1 DEF Calmly, Running
  <2>2. CASE part' = "call"
    <3>1. \A m \in Landmarks \ {Replicates} : ~Before(m, at')
      BY <1>0, <1>1, <1>2, <1>3, <1>6, <2>2, Onward DEF Past
    <3>2. par'.hostId = None /\ ~par'.bad
      BY <1>4, <1>6, ResolveKeeps
    <3>3. Powered'
      BY <1>6 DEF Powered
    <3>4. QED  BY <1>5, <2>2, <3>1, <3>2, <3>3
  <2>3. QED  BY <1>0, <1>1, <1>6, <2>1, <2>2, Onward
<1>7. ASSUME at' = at, par'.hostId = None, ~par'.bad, part' \in {"stop", "start"},
             part' = "stop" => up', repl' = "set" \/ (ce /\ opt.restart)
      PROVE  Calmly'
  <2>1. ~Past(Replicates)'
    BY <1>2, <1>7 DEF Past, Before, Replicates
  <2>2. Powered'
    BY <1>1, <1>7, <2>1 DEF Powered
  <2>3. \A m \in Landmarks \ {Replicates} : ~Before(m, at')
    BY <1>2, <1>7 DEF Past
  <2>4. QED  BY <1>5, <1>7, <2>2, <2>3
<1>8. CASE CheckReplicationSE
  <2>1. part = "call" /\ ~ce
    BY <1>8 DEF CheckReplicationSE, Here
  <2>2. up /\ repl = "set"
    BY <1>0, <2>1 DEF Goes, Powered
  <2>3. (\E p \in Resolve(par) : Advance /\ par' = p) /\ up' = up /\ repl' = repl
    BY <1>8, <2>2 DEF CheckReplicationSE, cluster
  <2>4. QED  BY <1>6, <2>2, <2>3
<1>9. CASE EnsureReplicationCE
  <2>1. part = "call" /\ ce /\ up' = up
    BY <1>9 DEF EnsureReplicationCE, Here
  <2>2. up /\ (repl = "set" \/ opt.restart)
    BY <1>0, <2>1 DEF Goes, Powered
  <2>3. disturbed' # TRUE
    BY DEF Calm
  <2>4. PICK p \in Resolve(par) :
           \/ repl = "set" /\ Advance /\ par' = p /\ UNCHANGED repl
           \/ repl # "set" /\ (IF opt.restart THEN Within("stop") /\ par' = p ELSE Refuse(p))
    <3>1. PICK p \in Resolve(par), read \in BOOLEAN :
           /\ disturbed' = (disturbed \/ ~read)
           /\ IF read /\ repl = "set"
              THEN Advance /\ par' = p /\ UNCHANGED repl
              ELSE IF opt.restart THEN Within("stop") /\ par' = p ELSE Refuse(p)
      BY <1>0, <1>9, <2>2 DEF EnsureReplicationCE
    <3>2. read
      BY <2>3, <3>1
    <3>3. QED  BY <3>1, <3>2
  <2>5. CASE repl = "set"
    BY <1>6, <2>1, <2>2, <2>4, <2>5
  <2>6. CASE repl # "set"
    <3>1. Within("stop") /\ par' = p /\ opt.restart
      BY <2>2, <2>4, <2>6
    <3>2. par'.hostId = None /\ ~par'.bad
      BY <1>4, <3>1, ResolveKeeps
    <3>3. QED  BY <1>7, <2>1, <2>2, <3>1, <3>2 DEF Within
  <2>7. QED  BY <2>5, <2>6
<1>10. CASE StopCluster \/ StartCluster
  <2>1. par' = par
    BY <1>10 DEF StopCluster, StartCluster
  <2>2. CASE StartCluster
    BY <1>6, <2>1, <2>2 DEF StartCluster
  <2>3. CASE StopCluster
    <3>1. at' = at /\ part' = "start" /\ part = "stop"
      BY <2>3 DEF StopCluster, Within
    <3>2. repl' = repl /\ (repl = "set" \/ (ce /\ opt.restart))
      BY <1>0, <2>3 DEF StopCluster, Goes, Powered
    <3>3. QED  BY <1>4, <1>7, <2>1, <3>1, <3>2
  <2>4. QED  BY <1>10, <2>2, <2>3
<1>11. QED  BY <1>8, <1>9, <1>10

LEMMA StaysFilled ==
    ASSUME Filled, [Next]_vars
    PROVE  Filled'
<1>1. \A p : Refuse(p) => par' = p \/ par' = [p EXCEPT !.bad = TRUE]
  BY DEF Refuse
<1>2. \A p : DOMAIN p = DOMAIN NoParams /\ (par' = p \/ par' = [p EXCEPT !.bad = TRUE]) => Filled'
  BY DEF Filled
<1>3. \A p : DOMAIN Recorded(p) = DOMAIN p
  BY DEF Recorded
<1>4. \A p \in Resolve(par) : DOMAIN p = DOMAIN NoParams
  <2> DEFINE q == [par EXCEPT !.resolved = TRUE]
  <2>1. DOMAIN q = DOMAIN NoParams /\ DOMAIN Recorded(q) = DOMAIN NoParams
    BY <1>3 DEF Filled
  <2>2. \A p \in Resolve(par) : p = par \/ p = q \/ p = Recorded(q)
    BY DEF Resolve
  <2>3. QED  BY <2>1, <2>2 DEF Filled
<1>5. CASE CheckStatus \/ CheckReplicationSE \/ EnsureReplicationCE \/ ResolvePath
  <2>1. \E p \in Resolve(par) \cup {par} : par' = p \/ Refuse(p)
    BY <1>5 DEF CheckStatus, CheckReplicationSE, EnsureReplicationCE, ResolvePath
  <2>2. QED  BY <1>1, <1>2, <1>4, <2>1 DEF Filled
<1>6. CASE FindExisting
  <2>1. par' = par \/ \E h : par' = [par EXCEPT !.hostId = h]
    BY <1>6 DEF FindExisting
  <2>2. QED  BY <2>1 DEF Filled
<1>7. CASE GenNodes \/ GenGroup
  <2>1. ASSUME NEW hs, NEW ns, NEW p, Generated(hs, ns, p), DOMAIN p = DOMAIN NoParams
        PROVE  Filled'
    BY <1>1, <1>2, <2>1 DEF Generated
  <2>2. CASE GenNodes
    BY <2>1, <2>2 DEF GenNodes, Filled
  <2>3. CASE GenGroup
    <3>1. PICK p \in {par, Recorded(par)} :
             Refuse(p) \/ \E hs, ns : Generated(hs, ns, [p EXCEPT !.new = NextGroup])
      BY <2>3 DEF GenGroup
    <3>2. DOMAIN p = DOMAIN NoParams /\ DOMAIN [p EXCEPT !.new = NextGroup] = DOMAIN NoParams
      BY <1>3 DEF Filled
    <3>3. QED  BY <1>1, <1>2, <2>1, <3>1, <3>2
  <2>4. QED  BY <1>7, <2>2, <2>3
<1>8. CASE Start
  BY <1>8 DEF Start, Filled
<1>9. CASE ~(\/ CheckStatus \/ CheckReplicationSE \/ EnsureReplicationCE \/ ResolvePath
             \/ FindExisting \/ GenNodes \/ GenGroup \/ Start)
  <2>1. par' = par \/ Refuse(par)
    BY <1>9
    DEF Next, Look, CheckArchiveMode, CheckArchiveDest, StepFails, StopCluster, StartCluster,
        CheckPort, MakePaths, RemoveHost, RemovalUnseen, RemoveFails, Preview, AddHosts,
        NothingToAdd, SkipAdd, AddInstances, AddFails, CheckSync, SyncTimesOut, Verify, Handle,
        SkipCleanup, CleanupFailed, Interrupted, Joins, OperatorRestarts, Finished, vars
  <2>2. QED  BY <1>1, <1>2, <2>1 DEF Filled
<1>10. QED  BY <1>5, <1>6, <1>7, <1>8, <1>9

LEMMA FirstIsOneOf ==
    ASSUME IsOption(opt), NEW hs, hs \subseteq Targets, hs # {}
    PROVE  FirstOf(hs) \in hs
<1> DEFINE S == {i \in DOMAIN opt.targets : opt.targets[i] \in hs}
<1>1. S \subseteq Nat /\ S # {}
  BY DEF IsOption, Targets, ToSet
<1> HIDE DEF S
<1>2. PICK k \in S : \A j \in S : <<j, k>> \notin OpToRel(<, Nat)
  BY <1>1, NatLessThanWellFounded, WFMin, Zenon
<1>3. \A j \in S : ~(j < k)
  BY <1>1, <1>2, Zenon DEF OpToRel
<1>4. \E m \in S : \A j \in S : m <= j
  BY <1>1, <1>3
<1>5. Min(S) \in S
  BY <1>4 DEF Min
<1>6. QED  BY <1>5 DEF S, FirstOf

(* E-010. *)
LEMMA RemovingGoes ==
    ASSUME CalmInv, Calm, Running, Calm', FindExisting \/ RemoveHost
    PROVE  Calmly'
<1>0. /\ Goes /\ IsOption(opt) /\ at \in Calls /\ ~Previewing /\ Landmarks \subseteq Calls
      /\ Primary \notin Targets /\ Targets # {} /\ Members \subseteq hosts
  BY CalmFacts DEF CalmInv, Managed
<1>1. StepOf(at) = "cleanup" /\ UNCHANGED <<ce, opt, stage, up, repl>>
  BY DEF FindExisting, RemoveHost, Here, cluster, Frame, CalmInv, Orderly
<1>2. at = Removes /\ ~Past(Removes) /\ ~Past(Generates) /\ ~Past(Installs) /\ ~Past(Adds) /\ Past(Replicates)
  BY <1>0, <1>1, StandsAt, PastIs
  DEF Landmarks, Replicates, Removes, Generates, Installs, Adds
<1>3. par.hostId = None /\ ~par.bad /\ Fresh /\ Targets' = Targets /\ repl = "set" /\ up
  <2>1. part # "start"
    BY <1>1 DEF FindExisting, RemoveHost, Here
  <2>2. QED  BY <1>0, <1>1, <1>2, <2>1 DEF Goes, Targets, Powered
<1>4. ASSUME Advance, Vacant', Chosen', ~par'.bad
      PROVE  Calmly'
  <2>1. CASE part' = "idle" /\ exit' = "ok"
    BY <2>1 DEF Calmly, Running
  <2>2. CASE part' = "call" /\ \A m \in Landmarks : Before(m, at') <=> m = at \/ Before(m, at)
    <3>1. Past(Removes)' /\ ~Past(Generates)' /\ ~Past(Installs)' /\ ~Past(Adds)'
      <4>1. Before(Removes, at') /\ ~Before(Generates, at') /\ ~Before(Installs, at') /\ ~Before(Adds, at')
        BY <1>2, <2>2 DEF Landmarks, Past, Removes, Generates, Installs, Adds
      <4>2. QED  BY <4>1 DEF Past, Before, Removes, Generates, Installs, Adds
    <3>2. Powered'
      BY <1>1, <1>3 DEF Powered
    <3>3. Goes'
      BY <1>4, <2>2, <3>1, <3>2 DEF Goes
    <3>4. QED  BY <3>3, <2>2 DEF Calmly, Running
  <2>3. QED  BY <1>0, <1>1, <1>4, <2>1, <2>2, Onward
<1>5. ASSUME at' = at, part' = "remove", nodes' \subseteq nodes, par'.hostId = None, ~par'.bad,
             Targets \cap hosts' \subseteq todo'
      PROVE  Calmly'
  <2>1. ~Past(Removes)' /\ ~Past(Generates)' /\ ~Past(Installs)' /\ ~Past(Adds)'
    BY <1>2, <1>5 DEF Past, Before, Removes, Generates, Installs, Adds
  <2>2. Powered'
    BY <1>1, <1>3 DEF Powered
  <2>3. Fresh'
    BY <1>1, <1>3, <1>5 DEF Fresh
  <2>4. Goes'
    BY <1>3, <1>5, <2>1, <2>2, <2>3 DEF Goes
  <2>5. QED  BY <1>5, <2>4 DEF Calmly, Running
<1>6. CASE FindExisting
  <2>1. nodes' = nodes /\ hosts' = hosts /\ DOMAIN par = DOMAIN NoParams
    BY <1>6 DEF FindExisting, cluster, CalmInv, Filled
  <2> DEFINE found == Targets \cap hosts
             kept == {h \in found : Reuse(h, TRUE)}
  <2>2. /\ par' = [par EXCEPT !.hostId = FirstOf(kept)]
        /\ IF found \ kept = {} THEN Advance
           ELSE part' = "remove" /\ todo' = found \ kept /\ UNCHANGED <<at, exit>>
    <3>1. PICK agents, status, again \in BOOLEAN :
            /\ disturbed' = (disturbed \/ ~(agents /\ status /\ again))
            /\ LET fd == Targets \cap KnownHosts(agents, status)
                   kp == {h \in fd : Reuse(h, again)}
               IN  /\ par' = [par EXCEPT !.hostId = FirstOf(kp)]
                   /\ IF fd \ kp = {} THEN Advance
                      ELSE part' = "remove" /\ todo' = fd \ kp /\ UNCHANGED <<at, exit>>
      BY <1>0, <1>3, <1>6 DEF FindExisting
    <3>2. agents = TRUE /\ status = TRUE /\ again = TRUE
      <4>1. disturbed' # TRUE
        BY DEF Calm
      <4>2. agents /\ status /\ again
        BY <3>1, <4>1
      <4>3. QED  BY <4>2
    <3>3. KnownHosts(agents, status) = hosts
      BY <1>0, <3>2 DEF KnownHosts
    <3>4. QED  BY <3>1, <3>2, <3>3
  <2>3. par'.hostId = FirstOf(kept) /\ ~par'.bad
    BY <1>3, <2>1, <2>2 DEF NoParams
  <2>4. ASSUME NEW h \in kept
        PROVE  Targets = {h} /\ ~Occupied(h) /\ Len(opt.targets) = 1
    <3>1. h \in Members /\ ~Occupied(h) /\ h \in Targets
      BY <1>0, <2>4 DEF Reuse
    <3>2. Len(opt.targets) = 1
      BY <1>3, <3>1 DEF Members, Fresh
    <3>3. DOMAIN opt.targets = {1}
      BY <1>0, <3>2 DEF IsOption
    <3>4. QED  BY <3>1, <3>2, <3>3 DEF Targets, ToSet
  <2>5. CASE kept = {}
    <3>1. par'.hostId = None
      BY <2>3, <2>5 DEF FirstOf
    <3>2. CASE found = {}
      <4>1. Advance /\ Chosen'
        BY <1>3, <2>1, <2>2, <3>1, <3>2 DEF Chosen
      <4>2. Vacant'
        BY <1>0, <1>1, <1>3, <2>1, <3>2 DEF Vacant, Occupied, At, Members
      <4>3. QED  BY <1>4, <2>3, <4>1, <4>2
    <3>3. CASE found # {}
      BY <1>5, <2>1, <2>2, <2>3, <2>5, <3>1, <3>3
    <3>4. QED  BY <3>2, <3>3
  <2>6. CASE kept # {}
    <3>1. PICK h \in kept : TRUE
      BY <2>6
    <3>2. Targets = {h} /\ ~Occupied(h) /\ Len(opt.targets) = 1 /\ h \in hosts
      BY <2>4
    <3>3. found \ kept = {} /\ kept \subseteq Targets
      BY <3>2
    <3>4. par'.hostId \in Targets
      BY <1>0, <2>3, <2>6, <3>3, FirstIsOneOf
    <3>5. Chosen'
      BY <1>1, <1>3, <2>1, <3>2, <3>4 DEF Chosen
    <3>6. Vacant'
      BY <1>1, <1>3, <2>1, <3>2 DEF Vacant, Occupied, At
    <3>7. QED  BY <1>4, <2>2, <2>3, <3>3, <3>5, <3>6
  <2>7. QED  BY <2>5, <2>6
<1>7. CASE RemoveHost
  <2>1. PICK h \in todo : /\ nodes' = {n \in nodes : n.host # h}
                          /\ hosts' = hosts \ {h} /\ Removed(h)
    BY <1>7 DEF RemoveHost
  <2>2. par' = par /\ part = "remove" /\ Targets \cap hosts \subseteq todo
    BY <1>0, <1>7 DEF RemoveHost, Goes
  <2>3. CASE todo = {h}
    <3>1. Advance /\ Targets \cap hosts' = {}
      BY <2>1, <2>2, <2>3 DEF Removed
    <3>2. Members' \subseteq hosts'
      BY <1>0, <2>1 DEF Members
    <3>3. Vacant'
      BY <1>3, <3>1, <3>2 DEF Vacant, Occupied, At, Members
    <3>4. Chosen'
      BY <1>3, <2>2, <3>1 DEF Chosen
    <3>5. QED  BY <1>3, <1>4, <2>2, <3>1, <3>3, <3>4
  <2>4. CASE todo # {h}
    <3>1. todo' = todo \ {h} /\ UNCHANGED <<at, part, exit>>
      BY <2>1, <2>4 DEF Removed
    <3>2. QED  BY <1>3, <1>5, <2>1, <2>2, <3>1
  <2>5. QED  BY <2>3, <2>4
<1>8. QED  BY <1>6, <1>7

(* E-011. *)
LEMMA GeneratingGoes ==
    ASSUME CalmInv, Calm, Running, Calm', GenNodes \/ GenGroup
    PROVE  Calmly'
<1>0. /\ Goes /\ IsOption(opt) /\ at \in Calls /\ Landmarks \subseteq Calls
      /\ Targets # {} /\ Targets \subseteq Hosts /\ DOMAIN par = DOMAIN NoParams
      /\ Managed /\ PrimaryNode \in nodes
  <2>1. IsOption(opt) => Targets \subseteq Hosts
    BY DEF IsOption, Targets, ToSet
  <2>2. QED  BY <2>1, CalmFacts DEF CalmInv, Filled, SurvivalInv, PrimarySurvives
<1>1. StepOf(at) = "gen" /\ part = "call" /\ UNCHANGED <<ce, opt, nodes, hosts, up, repl>>
  BY DEF GenNodes, GenGroup, Here, Frame
<1>2. at = Generates /\ Past(Replicates) /\ Past(Removes) /\ ~Past(Generates) /\ ~Past(Installs) /\ ~Past(Adds)
  BY <1>0, <1>1, StandsAt, PastIs
<1>3. Vacant /\ Chosen /\ ~par.bad /\ repl = "set" /\ up
  BY <1>0, <1>1, <1>2 DEF Goes, Powered
<1>4. Targets' = Targets /\ (\A g : OnEachTarget(g)' = OnEachTarget(g)) /\ Vacant'
  BY <1>1, <1>3 DEF Targets, OnEachTarget, Vacant, Occupied, At
<1>5. ASSUME Advance, ~par'.bad, stage'.nodes = OnEachTarget(Group'), NewGroup',
             \/ par'.hostId = None /\ stage'.hosts = Targets
             \/ par'.hostId # None /\ Targets \subseteq hosts
      PROVE  Calmly'
  <2>1. CASE part' = "idle" /\ exit' = "ok"
    BY <2>1 DEF Calmly, Running
  <2>2. CASE part' = "call" /\ \A m \in Landmarks : Before(m, at') <=> m = at \/ Before(m, at)
    <3>1. Past(Removes)' /\ Past(Generates)' /\ ~Past(Installs)' /\ ~Past(Adds)'
      <4>1. Before(Removes, at') /\ Before(Generates, at') /\ ~Before(Installs, at') /\ ~Before(Adds, at')
        BY <1>2, <2>2 DEF Landmarks, Past, Removes, Generates, Installs, Adds
      <4>2. QED  BY <4>1 DEF Past, Before, Removes, Generates, Installs, Adds
    <3>2. Powered'
      BY <1>1, <1>3 DEF Powered
    <3>3. Staged'
      BY <1>1, <1>4, <1>5, <3>1 DEF Staged
    <3>4. Goes'
      BY <1>4, <1>5, <2>2, <3>1, <3>2, <3>3 DEF Goes
    <3>5. QED  BY <3>4, <2>2 DEF Calmly, Running
  <2>3. QED  BY <1>0, <1>1, <1>5, <2>1, <2>2, Onward
<1>6. CASE GenNodes
  <2>1. ~ce /\ Group' = 0 /\ NewGroup'
    BY <1>1, <1>6 DEF GenNodes, Group, NewGroup
  <2>2. CASE par.hostId # None
    <3>1. par.hostId \in Targets /\ Targets \subseteq hosts /\ Len(opt.targets) = 1
      BY <1>3, <2>2 DEF Chosen
    <3>2. OnOneHost(par.hostId) = OnEachTarget(0)
      <4>1. DOMAIN opt.targets = {1}
        BY <1>0, <3>1 DEF IsOption
      <4>2. Targets = {par.hostId}
        BY <3>1, <4>1 DEF Targets, ToSet
      <4>3. <<"begin", "next">>[1] = "begin"
        OBVIOUS
      <4>4. QED  BY <4>1, <4>2, <4>3 DEF OnOneHost, OnEachTarget
    <3>3. stage'.nodes = OnEachTarget(0) /\ Advance /\ par' = par
      BY <1>6, <2>2, <3>2 DEF GenNodes, Generated
    <3>4. QED  BY <1>3, <1>5, <2>1, <2>2, <3>1, <3>3
  <2>3. CASE par.hostId = None
    <3>1. Targets \cap hosts = {}
      BY <1>0, <1>3, <2>3, HostsAssumption DEF Chosen
    <3>2. stage' = [hosts |-> Targets, nodes |-> OnEachTarget(0)] /\ Advance /\ par' = par
      BY <1>0, <1>6, <2>3, <3>1 DEF GenNodes, Generated
    <3>3. QED  BY <1>3, <1>5, <2>1, <2>3, <3>2
  <2>4. QED  BY <2>2, <2>3
<1>7. CASE GenGroup
  <2> DEFINE hs == IF Targets \subseteq hosts THEN stage.hosts ELSE Targets \ hosts
             q == [Recorded(par) EXCEPT !.new = NextGroup]
  <2>1. ce /\ Generated(hs, OnEachTarget(NextGroup), q)
    <3>1. PICK read, patched \in BOOLEAN :
            LET p == IF read THEN Recorded(par) ELSE par
            IN  /\ disturbed' = (disturbed \/ ~read \/ ~patched)
                /\ patched => Generated(hs, OnEachTarget(NextGroup), [p EXCEPT !.new = NextGroup])
      BY <1>7 DEF GenGroup
    <3>2. disturbed' # TRUE
      BY DEF Calm
    <3>3. read = TRUE /\ patched = TRUE
      BY <3>1, <3>2
    <3>4. QED  BY <1>7, <3>1, <3>3 DEF GenGroup
  <2>2. q.hostId = par.hostId /\ q.bad = par.bad /\ q.base = StandbyGroups /\ q.new = NextGroup
    BY <1>0 DEF Recorded, NoParams
  <2>3. NextGroup > 1 /\ \A n \in nodes : n.grp < NextGroup /\ n.grp # NextGroup
    <3>1. NextGroup \in Nat /\ NextGroup > 1 /\ \A n \in nodes : n.grp < NextGroup
      BY <1>0, NextGroupIsNew
    <3>2. \A n \in nodes : n.grp \in Int
      BY <1>0 DEF Managed, Numbered
    <3>3. QED  BY <3>1, <3>2
  <2>4. NextGroup \notin StandbyGroups
    BY <2>3 DEF StandbyGroups, Groups
  <2>5. \/ par.hostId = None /\ hs = Targets /\ hs # {}
        \/ par.hostId # None /\ Targets \subseteq hosts
    <3>1. CASE par.hostId # None
      BY <1>3, <3>1 DEF Chosen
    <3>2. CASE par.hostId = None
      <4>1. Targets \cap hosts = {}
        BY <1>0, <1>3, <3>2, HostsAssumption DEF Chosen
      <4>2. hs = Targets
        BY <1>0, <4>1
      <4>3. QED  BY <1>0, <3>2, <4>2
    <3>3. QED  BY <3>1, <3>2
  <2>6. stage' = [hosts |-> hs, nodes |-> OnEachTarget(NextGroup)] /\ Advance /\ par' = q
    BY <2>1, <2>2, <2>5 DEF Generated
  <2>7. Group' = NextGroup
    BY <1>1, <2>1, <2>2, <2>6 DEF Group
  <2>8. NewGroup'
    BY <1>1, <2>2, <2>3, <2>4, <2>6 DEF NewGroup
  <2>9. QED  BY <1>3, <1>5, <2>2, <2>5, <2>6, <2>7, <2>8
<1>8. QED  BY <1>6, <1>7

(* E-012. *)
LEMMA InstallingGoes ==
    ASSUME CalmInv, Calm, Running, Calm', AddHosts
    PROVE  Calmly'
<1>0. /\ Goes /\ IsOption(opt) /\ at \in Calls /\ Landmarks \subseteq Calls /\ Targets # {}
  BY CalmFacts
<1>1. StepOf(at) = "software" /\ part = "call" /\ UNCHANGED <<ce, opt, nodes, stage, up, repl>>
  BY DEF AddHosts, Here, Frame
<1>2. at = Installs /\ Past(Replicates) /\ Past(Removes) /\ Past(Generates) /\ ~Past(Installs) /\ ~Past(Adds)
  BY <1>0, <1>1, StandsAt, PastIs
<1>3. Vacant /\ NewGroup /\ Staged /\ ~par.bad /\ repl = "set" /\ up
  BY <1>0, <1>1, <1>2 DEF Goes, Powered
<1>4. Advance /\ par' = par /\ Targets \subseteq hosts'
  <2>1. CASE par.hostId # None
    BY <1>2, <1>3, <2>1 DEF AddHosts, Staged
  <2>2. CASE par.hostId = None
    <3>1. stage.hosts = Targets /\ stage.hosts # {}
      BY <1>0, <1>2, <1>3, <2>2 DEF Staged
    <3>2. disturbed' # TRUE
      BY DEF Calm
    <3>3. QED  BY <2>2, <3>1, <3>2 DEF AddHosts
  <2>3. QED  BY <2>1, <2>2
<1>5. CASE part' = "idle" /\ exit' = "ok"
  BY <1>5 DEF Calmly, Running
<1>6. CASE part' = "call" /\ \A m \in Landmarks : Before(m, at') <=> m = at \/ Before(m, at)
  <2>1. Past(Removes)' /\ Past(Generates)' /\ Past(Installs)' /\ ~Past(Adds)'
    <3>1. Before(Removes, at') /\ Before(Generates, at') /\ Before(Installs, at') /\ ~Before(Adds, at')
      BY <1>2, <1>6 DEF Landmarks, Past, Removes, Generates, Installs, Adds
    <3>2. QED  BY <3>1 DEF Past, Before, Removes, Generates, Installs, Adds
  <2>2. Powered'
    BY <1>1, <1>3 DEF Powered
  <2>3. Targets' = Targets /\ Group' = Group /\ OnEachTarget(Group)' = OnEachTarget(Group)
    BY <1>1, <1>4 DEF Targets, Group, OnEachTarget
  <2>4. Staged'
    BY <1>1, <1>3, <1>4, <2>1, <2>3 DEF Staged
  <2>5. Vacant'
    BY <1>1, <1>3, <2>3 DEF Vacant, Occupied, At
  <2>6. NewGroup'
    <3>1. ce => /\ par.new \notin par.base /\ par.new > 1
                /\ \A n \in nodes : n.grp # par.new
      BY <1>2, <1>3 DEF NewGroup
    <3>2. QED  BY <1>1, <1>4, <3>1 DEF NewGroup
  <2>7. Goes'
    BY <1>3, <1>4, <1>6, <2>1, <2>2, <2>4, <2>5, <2>6 DEF Goes
  <2>8. QED  BY <1>6, <2>7 DEF Calmly, Running
<1>7. QED  BY <1>0, <1>1, <1>4, <1>5, <1>6, Onward

(* E-013. *)
LEMMA AddingGoes ==
    ASSUME CalmInv, Calm, Running, Calm', AddInstances
    PROVE  Calmly'
<1>0. /\ Goes /\ IsOption(opt) /\ at \in Calls /\ Landmarks \subseteq Calls /\ Targets # {}
  BY CalmFacts
<1>1. StepOf(at) = "add" /\ part = "call" /\ UNCHANGED <<ce, opt, stage, hosts, up, repl>>
  BY DEF AddInstances, Here, Frame
<1>2. at = Adds /\ Past(Replicates) /\ Past(Removes) /\ Past(Generates) /\ Past(Installs) /\ ~Past(Adds)
  BY <1>0, <1>1, StandsAt, PastIs
<1>3. Vacant /\ NewGroup /\ Staged /\ ~par.bad /\ repl = "set" /\ up
  BY <1>0, <1>1, <1>2 DEF Goes, Powered
<1>4. stage.nodes = {Instance(h, "joining") : h \in Targets}
  BY <1>3 DEF Staged, OnEachTarget, NewNode, Instance
<1>5. Fits(nodes)
  <2>1. \A s \in stage.nodes : s.host \in Targets /\ s.port = "begin" /\ s.grp = Group
    BY <1>4 DEF Instance
  <2>2. Targets \subseteq hosts
    BY <1>2, <1>3 DEF Staged
  <2>3. \A n \in nodes : n.host \in Targets => n.port # "begin"
    BY <1>3 DEF Vacant, Occupied, At
  <2>4. ce => \A n \in nodes : n.grp # Group
    BY <1>2, <1>3 DEF NewGroup, Group
  <2>5. QED  BY <1>3, <2>1, <2>2, <2>3, <2>4 DEF Fits
<1>6. nodes' = nodes \cup stage.nodes /\ Advance /\ par' = par
  <2>1. Cleared = nodes
    BY <1>5 DEF Cleared
  <2>2. QED  BY <1>5, <2>1 DEF AddInstances
<1>7. CASE part' = "idle" /\ exit' = "ok"
  BY <1>7 DEF Calmly, Running
<1>8. CASE part' = "call" /\ \A m \in Landmarks : Before(m, at') <=> m = at \/ Before(m, at)
  <2>1. Past(Removes)' /\ Past(Generates)' /\ Past(Installs)' /\ Past(Adds)'
    <3>1. Before(Removes, at') /\ Before(Generates, at') /\ Before(Installs, at') /\ Before(Adds, at')
      BY <1>2, <1>8 DEF Landmarks, Past, Removes, Generates, Installs, Adds
    <3>2. QED  BY <3>1 DEF Past, Before, Removes, Generates, Installs, Adds
  <2>2. Powered'
    BY <1>1, <1>3 DEF Powered
  <2>3. Targets' = Targets /\ Group' = Group /\ (\A h, r : Instance(h, r)' = Instance(h, r)) /\ Joined' = Joined
    BY <1>1, <1>6 DEF Targets, Group, Instance, Joined
  <2>4. Added'
    BY <1>4, <1>6, <2>3 DEF Added
  <2>5. NewGroup'
    <3>1. ce => /\ par.new \notin par.base /\ par.new > 1
                /\ \A n \in nodes : n.grp # par.new
      BY <1>2, <1>3 DEF NewGroup
    <3>2. stage.nodes \subseteq Joined
      BY <1>4 DEF Joined
    <3>3. QED  BY <1>1, <1>6, <2>1, <2>3, <3>1, <3>2 DEF NewGroup
  <2>6. Goes'
    BY <1>3, <1>6, <1>8, <2>1, <2>2, <2>4, <2>5 DEF Goes
  <2>7. QED  BY <1>8, <2>6 DEF Calmly, Running
<1>9. QED  BY <1>0, <1>1, <1>6, <1>7, <1>8, Onward

(* E-018: with -F the clean-up runs after a success too, and takes the     *)
(* group that was just added; but it has something to remove, and succeeds.*)
LEMMA FinishingGoes ==
    ASSUME CalmInv, Calm, Running, Calm', CleanupFailed
    PROVE  Calmly'
<1>0. /\ Goes /\ IsOption(opt) /\ at \in Calls /\ Targets # {}
  BY CalmFacts
<1>1. StepOf(at) = "failed" /\ UNCHANGED <<ce, opt, par>>
  BY DEF CleanupFailed, Here, Frame
<1>2. NewGroup /\ Added
  BY <1>0, <1>1, PastIs DEF Goes, Landmarks
<1>3. disturbed' # TRUE
  BY DEF Calm
<1>4. ~CleanUp(FALSE)
  <2>1. CASE ~ce
    BY <1>3, <2>1 DEF CleanUp, RemoveFailedNodes
  <2>2. CASE ce
    <3>1. SUFFICES ASSUME CleanUp(FALSE) PROVE FALSE
      OBVIOUS
    <3>2. PICK read \in BOOLEAN : \E gone :
             LET sel == Selected(IF read THEN StandbyGroups ELSE {})
                 all == sel # {} /\ sel \subseteq Groups
             IN  disturbed' = (disturbed \/ ~read \/ (~FALSE /\ (all \/ gone # sel \cap Groups)))
      BY <2>2, <3>1 DEF CleanUp, RemoveGroups
    <3>3. read = TRUE
      BY <1>3, <3>2
    <3>4. Group = par.new /\ ThisGroup = par.new /\ par.new > 1 /\ par.new # 0 /\ par.new # 1 /\ par.new \notin par.base
      BY <1>2, <2>2 DEF NewGroup, Group, ThisGroup
    <3>5. par.new \in Groups
      <4>1. PICK h \in Targets, r \in {"joining", "standby"} : Instance(h, r) \in nodes
        BY <1>0, <1>2 DEF Added
      <4>2. Instance(h, r).grp = par.new
        BY <3>4 DEF Instance
      <4>3. QED  BY <4>1, <4>2 DEF Groups
    <3>6. Selected(StandbyGroups) # {} /\ Selected(StandbyGroups) \subseteq Groups
      BY <3>4, <3>5 DEF Selected, StandbyGroups
    <3>7. QED  BY <1>3, <3>2, <3>3, <3>6
  <2>3. QED  BY <2>1, <2>2
<1>5. Advance
  BY <1>4 DEF CleanupFailed
<1>6. \A c \in Calls : ~Before(at, c)
  <2>1. at[1] = 6 /\ at[2] = 1 /\ at[3] = 2
    BY <1>0, <1>1, StandsAt
  <2>2. ASSUME NEW c \in Calls PROVE ~Before(at, c)
    <3>1. /\ c[1] = 1 \/ c[1] = 2 \/ c[1] = 3 \/ c[1] = 4 \/ c[1] = 5 \/ c[1] = 6
          /\ c[1] = 6 => c[2] = 1
      BY <1>0, StandsAt
    <3>2. c[1] = 6 => c[3] \in DOMAIN Phases[6]
      BY <1>0, CallsAreTriples
    <3>3. DOMAIN Phases[6] = {1, 2}
      BY PhasesAre
    <3>4. QED  BY <2>1, <3>1, <3>2, <3>3 DEF Before
  <2>3. QED  BY <2>2
<1>7. part' = "idle" /\ exit' = "ok"
  BY <1>5, <1>6 DEF Advance, Return
<1>8. QED  BY <1>7 DEF Calmly, Running

(* A new instance joins while the run is somewhere.                        *)
LEMMA JoiningGoes ==
    ASSUME CalmInv, Calm, Calm', Joins
    PROVE  Calmly'
<1>1. UNCHANGED <<ce, opt, hosts, repl, up, stage, at, part, todo, par, exit>>
  BY DEF Joins, Frame
<1>2. CASE ~Running
  BY <1>1, <1>2 DEF CalmInv, Calmly, Running
<1>3. CASE Running
  <2>0. Goes /\ IsOption(opt) /\ at \in Calls /\ Landmarks \subseteq Calls
    BY <1>3, CalmFacts
  <2>1. disturbed' # TRUE
    BY DEF Calm
  <2>2. PICK n \in nodes : /\ n.role = "joining"
                           /\ nodes' = (nodes \ {n}) \cup {[n EXCEPT !.role = "standby"]}
    BY <2>1 DEF Joins
  <2> DEFINE n2 == [n EXCEPT !.role = "standby"]
  <2>3. n2.host = n.host /\ n2.port = n.port /\ n2.grp = n.grp
    OBVIOUS
  <2>4. \A m : Past(m)' <=> Before(m, at)
    BY <1>1 DEF Past, Before
  <2>5. /\ Past(Replicates)' <=> Past(Replicates)
        /\ Past(Removes)' <=> Past(Removes)
        /\ Past(Generates)' <=> Past(Generates)
        /\ Past(Installs)' <=> Past(Installs)
        /\ Past(Adds)' <=> Past(Adds)
    BY <1>1 DEF Past, Before, Replicates, Removes, Generates, Installs, Adds
  <2>6. Targets' = Targets /\ Group' = Group /\ (\A g : OnEachTarget(g)' = OnEachTarget(g))
        /\ (\A h, r : Instance(h, r)' = Instance(h, r)) /\ Joined' = Joined
    BY <1>1 DEF Targets, Group, OnEachTarget, Instance, Joined
  <2>7. Powered'
    BY <1>1, <2>0, <2>5 DEF Powered, Goes
  <2>8. Fresh => Fresh'
    <3>1. SUFFICES ASSUME Fresh, NEW x \in nodes', x.host \in Targets
                   PROVE  (x.port = "begin" => x.role = "failed") /\ Len(opt.targets) = 1
      BY <1>1, <2>6 DEF Fresh
    <3>2. CASE x \in nodes
      BY <3>1, <3>2 DEF Fresh
    <3>3. CASE x = n2
      <4>1. n.host \in Targets /\ n.port # "begin" /\ Len(opt.targets) = 1
        BY <2>2, <2>3, <3>1, <3>3 DEF Fresh
      <4>2. QED  BY <2>3, <3>3, <4>1
    <3>4. QED  BY <2>2, <3>1, <3>2, <3>3
  <2>9. (Vacant => Vacant') /\ (Chosen => Chosen')
    <3>1. Vacant => Vacant'
      BY <2>6, JoinsKeep DEF Vacant
    <3>2. Chosen => Chosen'
      BY <1>1, <2>6 DEF Chosen
    <3>3. QED  BY <3>1, <3>2
  <2>10. n \in Joined => n2 \in Joined /\ \E h \in Targets : n = Instance(h, "joining") /\ n2 = Instance(h, "standby")
    <3>1. SUFFICES ASSUME NEW h \in Targets, NEW r \in {"joining", "standby"}, n = Instance(h, r)
                   PROVE  n = Instance(h, "joining") /\ n2 = Instance(h, "standby") /\ n2 \in Joined
      BY DEF Joined
    <3>2. r = "joining"
      BY <2>2, <3>1 DEF Instance
    <3>3. n2 = Instance(h, "standby")
      BY <3>1, <3>2 DEF Instance
    <3>4. QED  BY <3>1, <3>2, <3>3 DEF Joined
  <2>11. NewGroup => NewGroup'
    <3>1. SUFFICES ASSUME NewGroup, ce, NEW x \in nodes', x.grp = par.new
                   PROVE  Past(Adds) /\ x \in Joined
      BY <1>1, <2>5, <2>6 DEF NewGroup
    <3>2. CASE x \in nodes
      BY <3>1, <3>2 DEF NewGroup
    <3>3. CASE x = n2
      <4>1. n.grp = par.new
        BY <2>3, <3>1, <3>3
      <4>2. Past(Adds) /\ n \in Joined
        BY <3>1, <4>1 DEF NewGroup
      <4>3. QED  BY <2>10, <3>3, <4>2
    <3>4. QED  BY <2>2, <3>1, <3>2, <3>3
  <2>12. Staged => Staged'
    <3>1. OnEachTarget(Group)' = OnEachTarget(Group)
      BY <1>1 DEF OnEachTarget, Group, Targets
    <3>2. QED  BY <1>1, <2>5, <2>6, <3>1 DEF Staged
  <2>13. Added => Added'
    <3>1. SUFFICES ASSUME Added, NEW h \in Targets
                   PROVE  \E r \in {"joining", "standby"} : Instance(h, r) \in nodes'
      BY <2>6 DEF Added
    <3>2. PICK r \in {"joining", "standby"} : Instance(h, r) \in nodes
      BY <3>1 DEF Added
    <3>3. CASE Instance(h, r) # n
      BY <2>2, <3>2, <3>3
    <3>4. CASE Instance(h, r) = n
      <4>1. r = "joining" /\ n2 = Instance(h, "standby")
        BY <2>2, <3>4 DEF Instance
      <4>2. QED  BY <2>2, <4>1
    <3>5. QED  BY <3>3, <3>4
  <2>14. Goes'
    BY <1>1, <2>0, <2>5, <2>6, <2>7, <2>8, <2>9, <2>11, <2>12, <2>13 DEF Goes
  <2>15. QED  BY <1>1, <1>3, <2>14 DEF Calmly, Running
<1>4. QED  BY <1>2, <1>3

LEMMA LandmarksAhead == IsOption(opt) /\ opt.plan = Steps => Landmarks \subseteq Calls
BY LandmarksAreCalls

LEMMA StartingGoes ==
    ASSUME CalmInv, Start, Calm'
    PROVE  Calmly'
<1>1. /\ opt' \in Options /\ part' = "call" /\ par' = NoParams /\ UNCHANGED <<ce, nodes, hosts, repl, up, stage>>
      /\ start' = [nodes |-> nodes, repl |-> repl, up |-> up]
  BY DEF Start, cluster
<1>2. IsOption(opt') /\ opt'.plan = Steps /\ Repeatable'
  BY <1>1, OptionsAssumption DEF Calm, Repeatable
<1>3. Landmarks' \subseteq Calls'
  <2>1. (IsOption(opt) /\ opt.plan = Steps => Landmarks \subseteq Calls)'
    BY LandmarksAhead, PTL
  <2>2. QED  BY <1>2, <2>1
<1>4. ~Past(Removes)' /\ ~Past(Generates)' /\ ~Past(Installs)' /\ ~Past(Adds)' /\ ~Past(Replicates)'
  <2>1. \A m \in Landmarks' : ~Before(m, at')
    BY <1>3, StartsFirst
  <2>2. QED  BY <2>1 DEF Past, Before, Landmarks, Replicates, Removes, Generates, Installs, Adds
<1>5. Powered'
  BY <1>1, <1>2, <1>4 DEF Powered, Repeatable
<1>6. Fresh'
  BY <1>1, <1>2 DEF Fresh, Repeatable
<1>7. par'.hostId = None /\ ~par'.bad
  BY <1>1 DEF NoParams
<1>8. Goes'
  BY <1>1, <1>4, <1>5, <1>6, <1>7 DEF Goes
<1>9. QED  BY <1>1, <1>8 DEF Calmly, Running

LEMMA StaysCalm ==
    ASSUME CalmInv, [Next]_vars
    PROVE  Calmly'
<1>1. CASE ~Calm'
  BY <1>1 DEF Calmly
<1>2. CASE Start /\ Calm'
  BY <1>2, StartingGoes
<1>3. CASE ~Start /\ Calm'
  <2>1. Calm
    BY <1>3, CalmBefore
  <2>2. CASE Running
    <3>1. \/ Look \/ CheckArchiveMode \/ CheckArchiveDest
          \/ CheckStatus \/ CheckReplicationSE \/ EnsureReplicationCE \/ StopCluster \/ StartCluster
          \/ CheckPort \/ MakePaths \/ ResolvePath
          \/ FindExisting \/ RemoveHost
          \/ GenNodes \/ GenGroup \/ AddHosts \/ AddInstances
          \/ CheckSync \/ SyncTimesOut \/ Verify \/ CleanupFailed
          \/ Joins \/ UNCHANGED vars
      BY <1>3, <2>1, <2>2, RuledOut DEF Next, OperatorRestarts, Finished, Running
    <3>2. CASE UNCHANGED vars
      BY <2>1, <3>2 DEF vars, cluster, CalmInv, Calmly, Running, Goes, Powered, Fresh, Vacant, Chosen,
         NewGroup, Staged, Added, Past, Before, Targets, Group, Occupied, At, OnEachTarget, Instance, Joined
    <3>3. QED
      BY <1>3, <2>1, <2>2, <3>1, <3>2, LookingGoes, ReplicatingGoes, RemovingGoes, GeneratingGoes,
         InstallingGoes, AddingGoes, SyncArrives, FinishingGoes, JoiningGoes
  <2>3. CASE ~Running
    <3>1. Joins \/ OperatorRestarts \/ Finished \/ UNCHANGED vars
      BY <1>3, <2>3
      DEF Next, Look, CheckArchiveMode, CheckArchiveDest, StepFails, CheckStatus,
          CheckReplicationSE, EnsureReplicationCE, StopCluster, StartCluster, CheckPort, MakePaths,
          ResolvePath, FindExisting, RemoveHost, RemovalUnseen, RemoveFails, Preview, GenNodes,
          GenGroup, AddHosts, NothingToAdd, SkipAdd, AddInstances, AddFails, CheckSync, SyncTimesOut,
          Verify, Handle, SkipCleanup, CleanupFailed, Interrupted, Here, Running
    <3>2. part' = part /\ exit' = exit
      BY <3>1 DEF Joins, OperatorRestarts, Finished, vars
    <3>3. QED  BY <2>1, <2>3, <3>2 DEF CalmInv, Calmly, Running
  <2>4. QED  BY <2>2, <2>3
<1>4. QED  BY <1>1, <1>2, <1>3

(* The whole command with -F, repeated on a cluster whose primary runs     *)
(* (and ships its redo, or may be restarted to), succeeds if no command    *)
(* fails in it, whatever the runs before have left: instances that failed, *)
(* registered hosts, staged files, files under the new paths.              *)
THEOREM RetriesComplete == Spec => []RetryCompletes
<1>1. Init => CalmInv
  <2>1. Init => Filled /\ Orderly /\ (Calm => FALSE)
    BY DEF Init, Filled, Orderly, Running, Calm
  <2>2. QED  BY <2>1, InitSurvives, InitManaged DEF CalmInv, Calmly
<1>2. CalmInv /\ [Next]_vars => CalmInv'
  BY NextSurvives, StaysOrderly, StaysManaged, StaysFilled, StaysCalm DEF CalmInv
<1>3. CalmInv => RetryCompletes
  BY DEF CalmInv, Calmly, RetryCompletes, Calm
<1>4. QED  BY <1>1, <1>2, <1>3, PTL DEF Spec

==============================================================================
