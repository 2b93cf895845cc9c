------------------------------ MODULE OSProofs ------------------------------
(***************************************************************************)
(* The command yinstall os: what a run over several hosts tries and what   *)
(* its exit status means, for any number of targets and of steps; and the  *)
(* shared disks that its B-* steps choose, name and hand to yasboot, for   *)
(* any number of hosts, disks and names.                                   *)
(***************************************************************************)
EXTENDS HostPhases, SharedDisks, WellFoundedInduction, SequenceTheorems, FiniteSetTheorems, TLAPS

Results == {"pending", "ok", "skipped", "failed"}

Shape ==
    /\ flags \in [precheck : BOOLEAN, dryRun : BOOLEAN]
    /\ hosts \in Seq(Targets)
    /\ outcome \in [Targets -> [0..N -> Results]]
    /\ connectFailed \in BOOLEAN /\ stepFailed \in BOOLEAN /\ lastErr \in BOOLEAN

(* Where the run is among the targets; whoever answered is a host.         *)
Reached ==
    /\ phase \in {"connect", "steps", "stopped", "gone"}
    /\ target \in 1..(H + 1)
    /\ phase = "connect" => target <= H
    /\ phase = "steps" => target = H + 1
    /\ \A t \in Targets : t >= target => ~Connected(t)
    /\ \A t \in Targets : Connected(t) => \E k \in DOMAIN hosts : hosts[k] = t

TargetDropped == \E t \in Targets : t < target /\ ~Connected(t)
SomeStepFailed == \E t \in Targets, i \in Steps : outcome[t][i] = "failed"

(* The three failure variables against what has happened.                  *)
Accounted ==
    /\ connectFailed => flags.precheck
    /\ stepFailed => flags.precheck
    /\ lastErr => ~flags.precheck /\ phase \in {"stopped", "gone"}
    /\ phase = "stopped" => lastErr
    /\ lastErr => target <= H \/ SomeStepFailed
    /\ ~lastErr => (connectFailed <=> TargetDropped)
    /\ ~lastErr => (stepFailed <=> SomeStepFailed)

Ended == (exit = "none" <=> phase # "gone") /\ ExitTruthful /\ PrecheckVisitsAll

HostInv == Shape /\ Reached /\ Accounted /\ Ended

-----------------------------------------------------------------------------
(* First picks a member: the least one.                                    *)
LEMMA FirstIsOne ==
    ASSUME NEW S, S \subseteq Nat, S # {}
    PROVE  First(S) \in S
<1>1. PICK i \in S : \A j \in S : <<j, i>> \notin OpToRel(<, Nat)
  BY NatLessThanWellFounded, WFMin, Zenon
<1>2. \A j \in S : ~(j < i)
  BY <1>1, Zenon DEF OpToRel
<1>3. \E k \in S : \A j \in S : k <= j
  BY <1>2
<1>4. QED  BY <1>3 DEF First

LEMMA ResultsOfRunStep ==
    ASSUME NEW optional, NEW o \in RunStep(flags, optional)
    PROVE  o.result \in {"ok", "skipped", "failed"}
BY DEF RunStep, RequiredOutcomes, OptionalOutcomes, Outcome

LEMMA InitHosts == Init => HostInv
<1>. USE HAssumption, NAssumption DEF Targets, Steps
<1> SUFFICES ASSUME Init
             PROVE  HostInv
  OBVIOUS
<1>1. Shape
  <2>1. outcome \in [Targets -> [0..N -> Results]]
    BY DEF Init, Results
  <2>2. hosts \in Seq(Targets)
    BY DEF Init
  <2>3. QED  BY <2>1, <2>2 DEF Init, Shape
<1>2. Reached
  <2>1. \A t \in Targets : ~Connected(t)
    BY DEF Init, Connected, Connectivity
  <2>2. QED  BY <2>1 DEF Init, Reached
<1>3. Accounted
  BY DEF Init, Accounted, TargetDropped, SomeStepFailed
<1>4. Ended
  BY DEF Init, Ended, ExitTruthful, PrecheckVisitsAll
<1>5. QED  BY <1>1, <1>2, <1>3, <1>4 DEF HostInv

-----------------------------------------------------------------------------
(* A connection that fails, with or without B-001 having run.              *)
LEMMA DropKeeps ==
    ASSUME HostInv, phase = "connect",
           Shape', UNCHANGED <<flags, hosts, stepFailed, exit>>,
           \A t \in Targets : t # target => outcome'[t] = outcome[t],
           \A i \in Steps : outcome'[target][i] = outcome[target][i],
           outcome'[target][Connectivity] \in {"pending", "failed"},
           IF flags.precheck
           THEN connectFailed' = TRUE /\ Advance /\ UNCHANGED lastErr
           ELSE lastErr' = TRUE /\ phase' = "stopped" /\ UNCHANGED <<connectFailed, target>>
    PROVE  HostInv'
<1>. USE HAssumption, NAssumption DEF Targets, Steps
<1>0. Shape /\ Reached /\ Accounted /\ Ended /\ ~lastErr /\ target \in Targets
  BY DEF HostInv, Accounted, Reached
<1>1. \A t \in Targets : Connected(t)' <=> Connected(t)
  BY <1>0 DEF Connected, Reached
<1>2. SomeStepFailed' <=> SomeStepFailed
  BY <1>0 DEF SomeStepFailed
<1>3. ~Connected(target)
  BY <1>0 DEF Reached
<1>4. exit = "none" /\ phase' # "gone"
  BY <1>0 DEF Ended, Advance
<1>5. Ended'
  BY <1>4 DEF Ended, ExitTruthful, PrecheckVisitsAll
<1>6. CASE flags.precheck
  <2>1. /\ connectFailed' = TRUE /\ lastErr' = lastErr /\ target' = target + 1
        /\ phase' = IF target = H THEN "steps" ELSE "connect"
    BY <1>6 DEF Advance
  <2>2. Reached'
    BY <1>0, <1>1, <2>1 DEF Reached
  <2>3. TargetDropped'
    BY <1>0, <1>1, <1>3, <2>1 DEF TargetDropped
  <2>4. Accounted'
    BY <1>0, <1>2, <1>6, <2>1, <2>3 DEF Accounted
  <2>5. QED  BY <1>5, <2>2, <2>4 DEF HostInv
<1>7. CASE ~flags.precheck
  <2>1. lastErr' = TRUE /\ phase' = "stopped" /\ UNCHANGED <<connectFailed, target>>
    BY <1>7
  <2>2. Reached'
    BY <1>0, <1>1, <2>1 DEF Reached
  <2>3. Accounted'
    BY <1>0, <1>7, <2>1 DEF Accounted
  <2>4. QED  BY <1>5, <2>2, <2>3 DEF HostInv
<1>8. QED  BY <1>6, <1>7

LEMMA ConnectFailsKeeps == HostInv /\ ConnectFails => HostInv'
<1>. USE HAssumption, NAssumption DEF Targets, Steps
<1> SUFFICES ASSUME HostInv, ConnectFails
             PROVE  HostInv'
  OBVIOUS
<1>1. phase = "connect" /\ target \in Targets /\ Shape
  BY DEF ConnectFails, HostInv, Reached
<1>2. Shape'
  BY <1>1 DEF ConnectFails, Shape
<1>3. outcome[target][Connectivity] \in {"pending", "failed"}
  BY <1>1 DEF HostInv, Reached, Connected, Shape, Results, Connectivity
<1>4. UNCHANGED <<flags, hosts, stepFailed, exit, outcome>>
  BY DEF ConnectFails
<1>5. IF flags.precheck
      THEN connectFailed' = TRUE /\ Advance /\ UNCHANGED lastErr
      ELSE lastErr' = TRUE /\ phase' = "stopped" /\ UNCHANGED <<connectFailed, target>>
  BY DEF ConnectFails
<1>6. QED  BY <1>1, <1>2, <1>3, <1>4, <1>5, DropKeeps

LEMMA ConnectivityFailsKeeps == HostInv /\ ConnectivityFails => HostInv'
<1>. USE HAssumption, NAssumption DEF Targets, Steps
<1> SUFFICES ASSUME HostInv, ConnectivityFails
             PROVE  HostInv'
  OBVIOUS
<1>1. phase = "connect" /\ target \in Targets /\ Shape
  BY DEF ConnectivityFails, HostInv, Reached
<1>2. outcome' = [outcome EXCEPT ![target][Connectivity] = "failed"]
  BY DEF ConnectivityFails, Record
<1>3. UNCHANGED <<flags, hosts, stepFailed, exit>>
  BY DEF ConnectivityFails, DropTarget
<1>4. IF flags.precheck
      THEN connectFailed' = TRUE /\ Advance /\ UNCHANGED lastErr
      ELSE lastErr' = TRUE /\ phase' = "stopped" /\ UNCHANGED <<connectFailed, target>>
  BY DEF ConnectivityFails
<1>5. Shape'
  BY <1>1, <1>2, <1>3, <1>4 DEF Shape, Results, Connectivity
<1>6. /\ \A t \in Targets : t # target => outcome'[t] = outcome[t]
      /\ \A i \in Steps : outcome'[target][i] = outcome[target][i]
      /\ outcome'[target][Connectivity] = "failed"
  BY <1>1, <1>2 DEF Shape, Connectivity
<1>7. QED  BY <1>1, <1>3, <1>4, <1>5, <1>6, DropKeeps

LEMMA ConnectivityPassesKeeps == HostInv /\ ConnectivityPasses => HostInv'
<1>. USE HAssumption, NAssumption DEF Targets, Steps
<1> SUFFICES ASSUME HostInv, ConnectivityPasses
             PROVE  HostInv'
  OBVIOUS
<1>0. Shape /\ Reached /\ Accounted /\ Ended /\ phase = "connect" /\ target \in Targets
  BY DEF HostInv, Reached, ConnectivityPasses
<1>1. PICK o \in RunStep(flags, FALSE) : o.result # "failed" /\ Record(target, Connectivity, o)
  BY DEF ConnectivityPasses
<1>2. o.result \in {"ok", "skipped"}
  BY <1>1, ResultsOfRunStep
<1>3. /\ UNCHANGED <<flags, connectFailed, stepFailed, lastErr, exit>>
      /\ hosts' = Append(hosts, target) /\ target' = target + 1
      /\ phase' = IF target = H THEN "steps" ELSE "connect"
  BY DEF ConnectivityPasses, Advance
<1>4. outcome' = [outcome EXCEPT ![target][Connectivity] = o.result]
  BY <1>1 DEF Record
<1>5. Shape'
  BY <1>0, <1>2, <1>3, <1>4 DEF Shape, Results, Connectivity
<1>6. \A t \in Targets : Connected(t)' <=> t = target \/ Connected(t)
  <2>1. \A t \in Targets : t # target => outcome'[t] = outcome[t]
    BY <1>0, <1>4 DEF Shape
  <2>2. outcome'[target][Connectivity] \in {"ok", "skipped"}
    BY <1>0, <1>2, <1>4 DEF Shape, Connectivity
  <2>3. QED  BY <2>1, <2>2 DEF Connected
<1>7. /\ DOMAIN hosts \subseteq DOMAIN hosts' /\ \A k \in DOMAIN hosts : hosts'[k] = hosts[k]
      /\ \E k \in DOMAIN hosts' : hosts'[k] = target
  <2>1. hosts \in Seq(Targets) /\ hosts' = Append(hosts, target) /\ target \in Targets
    BY <1>0, <1>3 DEF Shape
  <2>2. /\ Len(hosts) + 1 \in DOMAIN hosts' /\ hosts'[Len(hosts) + 1] = target
        /\ DOMAIN hosts \subseteq DOMAIN hosts' /\ \A k \in DOMAIN hosts : hosts'[k] = hosts[k]
    BY <2>1
  <2>3. QED  BY <2>2
<1>8. Reached'
  <2>1. \A t \in Targets : t >= target' => ~Connected(t)'
    BY <1>0, <1>3, <1>6 DEF Reached
  <2>2. \A t \in Targets : Connected(t)' => \E k \in DOMAIN hosts' : hosts'[k] = t
    BY <1>0, <1>6, <1>7 DEF Reached
  <2>3. QED  BY <1>0, <1>3, <2>1, <2>2 DEF Reached
<1>9. (SomeStepFailed' <=> SomeStepFailed) /\ (TargetDropped' <=> TargetDropped)
  <2>1. \A t \in Targets, i \in Steps : outcome'[t][i] = outcome[t][i]
    BY <1>0, <1>4 DEF Shape, Connectivity
  <2>2. \A t \in Targets : t < target' /\ ~Connected(t)' <=> t < target /\ ~Connected(t)
    BY <1>0, <1>3, <1>6 DEF Reached
  <2>3. QED  BY <2>1, <2>2 DEF SomeStepFailed, TargetDropped
<1>10. Accounted'
  BY <1>0, <1>3, <1>9 DEF Accounted
<1>11. Ended'
  BY <1>0, <1>3 DEF Ended, ExitTruthful, PrecheckVisitsAll
<1>12. QED  BY <1>5, <1>8, <1>10, <1>11 DEF HostInv

-----------------------------------------------------------------------------
(* One RunStep of the second phase, whichever host it is for.              *)
LEMMA StepKeeps ==
    ASSUME HostInv, phase = "steps",
           NEW t \in Targets, NEW i \in Steps, outcome[t][i] = "pending",
           NEW optional, NEW o \in RunStep(flags, optional),
           Record(t, i, o), React(o),
           UNCHANGED <<flags, target, hosts, connectFailed, exit>>
    PROVE  HostInv'
<1>. USE HAssumption, NAssumption DEF Targets, Steps
<1>0. Shape /\ Reached /\ Accounted /\ Ended /\ ~lastErr /\ target = H + 1
  BY DEF HostInv, Accounted, Reached
<1>1. o.result \in {"ok", "skipped", "failed"}
  BY ResultsOfRunStep
<1>2. outcome' = [outcome EXCEPT ![t][i] = o.result]
  BY DEF Record
<1>3. Shape'
  BY <1>0, <1>1, <1>2 DEF Shape, Results, React
<1>4. \A u \in Targets : Connected(u)' <=> Connected(u)
  BY <1>0, <1>2 DEF Shape, Connected, Connectivity
<1>5. phase' \in {"steps", "stopped"}
  BY DEF React
<1>6. Reached'
  BY <1>0, <1>4, <1>5 DEF Reached
<1>7. TargetDropped' <=> TargetDropped
  BY <1>4 DEF TargetDropped
<1>8. Ended'
  BY <1>0, <1>5 DEF Ended, ExitTruthful, PrecheckVisitsAll
<1>9. CASE o.result = "failed"
  <2>1. outcome'[t][i] = "failed"
    BY <1>0, <1>2, <1>9 DEF Shape
  <2>2. SomeStepFailed'
    BY <2>1 DEF SomeStepFailed
  <2>3. CASE flags.precheck
    <3>1. stepFailed' = TRUE /\ lastErr' = FALSE /\ phase' = "steps"
      BY <1>0, <1>9, <2>3 DEF React, Shape
    <3>2. Accounted'
      BY <1>0, <1>7, <2>2, <2>3, <3>1 DEF Accounted
    <3>3. QED  BY <1>3, <1>6, <1>8, <3>2 DEF HostInv
  <2>4. CASE ~flags.precheck
    <3>1. stepFailed' = stepFailed /\ lastErr' = TRUE /\ phase' = "stopped"
      BY <1>0, <1>9, <2>4 DEF React, Shape
    <3>2. Accounted'
      BY <1>0, <2>2, <2>4, <3>1 DEF Accounted
    <3>3. QED  BY <1>3, <1>6, <1>8, <3>2 DEF HostInv
  <2>5. QED  BY <2>3, <2>4
<1>10. CASE o.result # "failed"
  <2>1. \A u \in Targets, j \in Steps : outcome'[u][j] = "failed" <=> outcome[u][j] = "failed"
    BY <1>0, <1>2, <1>10 DEF Shape
  <2>2. stepFailed' = stepFailed /\ lastErr' = lastErr /\ phase' = "steps"
    BY <1>0, <1>10 DEF React, Shape
  <2>3. SomeStepFailed' <=> SomeStepFailed
    BY <2>1 DEF SomeStepFailed
  <2>4. Accounted'
    BY <1>0, <1>7, <2>2, <2>3 DEF Accounted
  <2>5. QED  BY <1>3, <1>6, <1>8, <2>4 DEF HostInv
<1>11. QED  BY <1>9, <1>10

LEMMA GlobalStepKeeps == HostInv /\ GlobalStep => HostInv'
<1>. USE HAssumption, NAssumption DEF Targets, Steps
<1> SUFFICES ASSUME HostInv, GlobalStep
             PROVE  HostInv'
  OBVIOUS
<1> DEFINE t == Head(hosts)
           i == First(Pending(t, Globals))
<1>1. hosts \in Seq(Targets) /\ hosts # <<>> /\ Pending(t, Globals) # {} /\ phase = "steps"
  BY DEF HostInv, Shape, GlobalStep, GlobalsDone
<1>2. t \in Targets
  BY <1>1
<1>3. i \in Steps /\ outcome[t][i] = "pending"
  <2>1. Pending(t, Globals) \subseteq Nat
    BY DEF Pending, Globals
  <2>2. i \in Pending(t, Globals)
    BY <1>1, <2>1, FirstIsOne
  <2>3. QED  BY <2>2 DEF Pending, Globals
<1>4. PICK o \in RunStep(flags, plan[i].optional) : Record(t, i, o) /\ React(o)
  BY DEF GlobalStep
<1>5. UNCHANGED <<flags, target, hosts, connectFailed, exit>>
  BY DEF GlobalStep
<1>6. QED  BY <1>1, <1>2, <1>3, <1>4, <1>5, StepKeeps

LEMMA FirstHostStepKeeps == HostInv /\ FirstHostStep => HostInv'
<1>. USE HAssumption, NAssumption DEF Targets, Steps
<1> SUFFICES ASSUME HostInv, FirstHostStep
             PROVE  HostInv'
  OBVIOUS
<1> DEFINE t == Head(hosts)
           i == First(Pending(t, Locals))
<1>1. hosts \in Seq(Targets) /\ HostsLeft # {} /\ First(HostsLeft) = 1 /\ phase = "steps"
  BY DEF HostInv, Shape, FirstHostStep
<1>2. HostsLeft \subseteq Nat
  BY <1>1 DEF HostsLeft
<1>3. 1 \in DOMAIN hosts /\ Pending(hosts[1], Locals) # {}
  <2>1. 1 \in HostsLeft
    BY <1>1, <1>2, FirstIsOne
  <2>2. QED  BY <2>1 DEF HostsLeft
<1>4. t = hosts[1] /\ t \in Targets
  BY <1>1, <1>3
<1>5. i \in Steps /\ outcome[t][i] = "pending"
  <2>1. Pending(t, Locals) \subseteq Nat
    BY DEF Pending, Locals
  <2>2. i \in Pending(t, Locals)
    BY <1>3, <1>4, <2>1, FirstIsOne
  <2>3. QED  BY <2>2 DEF Pending, Locals
<1>6. PICK o \in RunStep(flags, plan[i].optional) : Record(t, i, o) /\ React(o)
  BY DEF FirstHostStep
<1>7. UNCHANGED <<flags, target, hosts, connectFailed, exit>>
  BY DEF FirstHostStep
<1>8. QED  BY <1>1, <1>4, <1>5, <1>6, <1>7, StepKeeps

LEMMA LaterHostStepKeeps == HostInv /\ LaterHostStep => HostInv'
<1>. USE HAssumption, NAssumption DEF Targets, Steps
<1> SUFFICES ASSUME HostInv, LaterHostStep
             PROVE  HostInv'
  OBVIOUS
<1> DEFINE k == First(HostsLeft)
           t == hosts[k]
           i == First(Pending(t, Locals))
<1>1. hosts \in Seq(Targets) /\ HostsLeft # {} /\ phase = "steps"
  BY DEF HostInv, Shape, LaterHostStep
<1>2. HostsLeft \subseteq Nat
  BY <1>1 DEF HostsLeft
<1>3. k \in DOMAIN hosts /\ Pending(t, Locals) # {}
  <2>1. k \in HostsLeft
    BY <1>1, <1>2, FirstIsOne
  <2>2. QED  BY <2>1 DEF HostsLeft
<1>4. t \in Targets
  BY <1>1, <1>3
<1>5. i \in Steps /\ outcome[t][i] = "pending"
  <2>1. Pending(t, Locals) \subseteq Nat
    BY DEF Pending, Locals
  <2>2. i \in Pending(t, Locals)
    BY <1>3, <2>1, FirstIsOne
  <2>3. QED  BY <2>2 DEF Pending, Locals
<1>6. PICK o \in RunStep(flags, plan[i].optional) : Record(t, i, o) /\ React(o)
  BY DEF LaterHostStep
<1>7. UNCHANGED <<flags, target, hosts, connectFailed, exit>>
  BY DEF LaterHostStep
<1>8. QED  BY <1>1, <1>4, <1>5, <1>6, <1>7, StepKeeps

-----------------------------------------------------------------------------
(* The end of the run, where the failure variables become the exit status. *)
LEMMA ReturnKeeps == HostInv /\ RunOSReturns => HostInv'
<1>. USE HAssumption, NAssumption DEF Targets, Steps
<1> SUFFICES ASSUME HostInv, RunOSReturns
             PROVE  HostInv'
  OBVIOUS
<1>0. Shape /\ Reached /\ Accounted /\ Ended
  BY DEF HostInv
<1>1. /\ UNCHANGED <<flags, plan, target, hosts, outcome, connectFailed, stepFailed, lastErr>>
      /\ phase' = "gone" /\ exit' = IF MustFail THEN "error" ELSE "ok"
      /\ phase = "stopped" \/ (phase = "steps" /\ GlobalsDone /\ HostsLeft = {})
  BY DEF RunOSReturns
<1>2. \A t \in Targets : Connected(t)' <=> Connected(t)
  BY <1>1 DEF Connected
<1>3. Shape' /\ Reached'
  BY <1>0, <1>1, <1>2 DEF Shape, Reached
<1>4. (TargetDropped' <=> TargetDropped) /\ (SomeStepFailed' <=> SomeStepFailed)
  BY <1>1, <1>2 DEF TargetDropped, SomeStepFailed
<1>5. Accounted'
  <2>1. lastErr => ~flags.precheck
    BY <1>0 DEF Accounted
  <2>2. QED  BY <1>0, <1>1, <1>4, <2>1 DEF Accounted
<1>6. ExitTruthful'
  <2>1. exit' = "ok" <=> ~MustFail
    BY <1>1
  <2>2. CASE lastErr
    <3>1. MustFail
      BY <2>2 DEF MustFail
    <3>2. target <= H \/ SomeStepFailed
      BY <1>0, <2>2 DEF Accounted
    <3>3. (\E t \in Targets : ~Connected(t)) \/ SomeStepFailed
      BY <1>0, <3>2 DEF Reached
    <3>4. QED  BY <1>1, <1>2, <2>1, <3>1, <3>3 DEF ExitTruthful, SomeStepFailed
  <2>3. CASE ~lastErr
    <3>1. target = H + 1
      BY <1>0, <1>1, <2>3 DEF Reached, Accounted
    <3>2. connectFailed <=> \E t \in Targets : ~Connected(t)
      BY <1>0, <2>3, <3>1 DEF Accounted, TargetDropped
    <3>3. stepFailed <=> SomeStepFailed
      BY <1>0, <2>3 DEF Accounted
    <3>4. MustFail <=> connectFailed \/ stepFailed
      BY <1>0, <2>3 DEF MustFail, Accounted
    <3>5. QED  BY <1>1, <1>2, <2>1, <3>2, <3>3, <3>4 DEF ExitTruthful, SomeStepFailed
  <2>4. QED  BY <2>2, <2>3
<1>7. PrecheckVisitsAll'
  <2> SUFFICES ASSUME flags.precheck
               PROVE  /\ target > H
                      /\ \A t \in Targets : Connected(t) =>
                            /\ \A i \in Locals : Ran(t, i)
                            /\ \A i \in Globals : \E u \in Targets : Ran(u, i)
    BY <1>1 DEF PrecheckVisitsAll, Connected, Ran, Locals, Globals
  <2>1. phase = "steps" /\ GlobalsDone /\ HostsLeft = {} /\ target = H + 1
    BY <1>0, <1>1 DEF Accounted, Reached
  <2>2. ASSUME NEW t \in Targets, Connected(t)
        PROVE  /\ \A i \in Locals : Ran(t, i)
               /\ \A i \in Globals : \E u \in Targets : Ran(u, i)
    <3>1. PICK k \in DOMAIN hosts : hosts[k] = t
      BY <1>0, <2>2 DEF Reached
    <3>2. Pending(t, Locals) = {}
      BY <2>1, <3>1 DEF HostsLeft
    <3>3. hosts \in Seq(Targets) /\ hosts # <<>>
      BY <1>0, <3>1 DEF Shape
    <3>4. Head(hosts) \in Targets /\ Pending(Head(hosts), Globals) = {}
      BY <2>1, <3>3 DEF GlobalsDone
    <3>5. QED  BY <3>2, <3>4 DEF Pending, Ran
  <2>3. QED  BY <2>1, <2>2
<1>8. Ended'
  BY <1>1, <1>6, <1>7 DEF Ended
<1>9. QED  BY <1>3, <1>5, <1>8 DEF HostInv

LEMMA NextHostsKept == HostInv /\ [Next]_vars => HostInv'
<1> SUFFICES ASSUME HostInv, [Next]_vars
             PROVE  HostInv'
  OBVIOUS
<1>1. CASE UNCHANGED vars
  BY <1>1
  DEF vars, HostInv, Shape, Reached, Accounted, Ended, TargetDropped, SomeStepFailed, Connected,
      ExitTruthful, PrecheckVisitsAll, Ran, Locals, Globals
<1>2. QED
  BY <1>1, ConnectFailsKeeps, ConnectivityPassesKeeps, ConnectivityFailsKeeps, GlobalStepKeeps,
     FirstHostStepKeeps, LaterHostStepKeeps, ReturnKeeps
  DEF Next, Gone

LEMMA HostInvariant == Spec => []HostInv
BY InitHosts, NextHostsKept, PTL DEF Spec

(* runOS ends with success exactly when every target was reached and no    *)
(* step failed on any host, in every mode.                                 *)
THEOREM ExitIsTruthful == Spec => []ExitTruthful
<1>1. HostInv => ExitTruthful
  BY DEF HostInv, Ended
<1>2. QED  BY <1>1, HostInvariant, PTL

(* A precheck of runOS goes on after any failure: it ends with every       *)
(* target tried, every per-host step run on each host that answered and    *)
(* every Global step run once if any did.                                  *)
THEOREM PrecheckIsThorough == Spec => []PrecheckVisitsAll
<1>1. HostInv => PrecheckVisitsAll
  BY DEF HostInv, Ended
<1>2. QED  BY <1>1, HostInvariant, PTL
-----------------------------------------------------------------------------
(* The shared disks. *)

(* The steps after a step of phase 2, on its host.                         *)
Later ==
    [wwid |-> {"conf", "multipathd", "lookMaps", "rules", "trigger", "lookLinks", "check"},
     conf |-> {"multipathd", "lookMaps", "rules", "trigger", "lookLinks", "check"},
     multipathd |-> {"lookMaps", "rules", "trigger", "lookLinks", "check"},
     rules |-> {"trigger", "lookLinks", "check"},
     trigger |-> {"lookLinks", "check"}]
Past(i, s) == i < turn \/ (i = turn /\ step \in Later[s])

OnTheWay == Running /\ step # "deploy" /\ ~opt.skipOS
Multipathed(h) == ~(lay.nvme /\ lay.native[h])

(* The groups that the theorem is about, as they are until C-012.          *)
ByDevice == \A d \in Disks(groups) : d.in = "dev"
Filled == groups["sys"] # <<>> /\ groups["data"] # <<>>
Sure == OnTheWay /\ lay.reliable /\ (run = 1 \/ opt.force) /\ ByDevice /\ Filled

DisksShape ==
    /\ lay \in Layouts /\ opt \in Options /\ run \in Nat
    /\ turn \in DOMAIN HostList
    /\ step \in DOMAIN Following \cup {"lookLinks", "deploy"}
    /\ conf = [h \in Hosts |-> conf[h]] /\ maps = [h \in Hosts |-> maps[h]]
    /\ rules = [h \in Hosts |-> rules[h]] /\ links = [h \in Hosts |-> links[h]]
    /\ daemon \subseteq Hosts
    /\ policy.need => ~policy.wwn

(* Where the run stands.                                                   *)
Standing ==
    Running =>
        /\ run > 0 /\ (step = "aliases" => opt.skipOS)
        /\ opt.skipOS => step \in {"aliases", "check", "deploy"}
        /\ OnTheWay /\ step = "discover" => turn = 1 /\ policy = RealDM
        /\ OnTheWay /\ step = "check" => turn = Len(HostList)

(* No multipathd and no rules before the first run has come by.            *)
FirstRun ==
    /\ run = 0 => ~Running /\ daemon = {} /\ \A h \in Hosts : rules[h] = Nothing
    /\ run = 1 /\ OnTheWay => \A i \in DOMAIN HostList :
          /\ ~Past(i, "multipathd") => HostList[i] \notin daemon
          /\ ~Past(i, "rules") => rules[HostList[i]] = Nothing

GroupsShape(g) ==
    /\ \A p \in Parts : g[p] # <<>> => 1 \in DOMAIN g[p]
    /\ \A d \in Disks(g) : d.in \in {"dev", "mapper", "yfs"}
(* The groups name disks, and what is asked for is what their devices are  *)
(* on the host that they were taken from.                                  *)
GroupsNamed ==
    OnTheWay => /\ GroupsShape(groups)
                /\ (\A d \in Disks(opt.groups) : d.in # "yfs")
                       => \A d \in Disks(groups) : d.in # "yfs"
AskedFrom(h) ==
    \A s \in DiskSlots(groups) :
        LET d == DiskAt(groups, s)
        IN  d.in = "dev" /\ d.id \in DOMAIN lay.dev[h]
                => s \in DOMAIN asked /\ asked[s] = lay.dev[h][d.id]
AskedKnown == OnTheWay => \E h \in Hosts : AskedFrom(h)

(* The multipath policy comes from disks that are no multipath devices,    *)
(* and every host whose disks multipathd takes sets it.                    *)
HasAll(h) == \A s \in DiskSlots(groups) : DiskAt(groups, s).id \in DOMAIN lay.dev[h]
PolicyFits ==
    /\ Running /\ policy.need => ~opt.skipOS
    /\ OnTheWay /\ policy.need => Filled /\ \A d \in Disks(groups) : ~Multipath(d)
    /\ Sure /\ Multipathed(h0) =>
          /\ step = "wwid" /\ HasAll(h0) => policy.need
          /\ step \in Later.wwid \ {"check"} => policy.need

(* A live map is of a disk that multipathd may take.                       *)
MapsLive == \A h \in Hosts : \A a \in DOMAIN maps[h] : maps[h][a] \in Mappable(h)

(* What phase 2 leaves on a host: the configuration is for the groups, the *)
(* maps follow it, the rules name the maps and the links follow both.      *)
Wanted(h) == [s \in Aliased(groups) |-> lay.dev[h][DiskAt(groups, s).id]]
ByMap == [s \in Aliased(groups) |-> [by |-> "dm", key |-> s]]
MapsFollow(h) ==
    \A a \in DOMAIN maps[h] : a[1] \in Parts => a \in DOMAIN conf[h] /\ maps[h][a] = conf[h][a]
LinksFollow(h) ==
    \A a \in DOMAIN links[h] :
        a \in Aliased(groups) /\ a \in DOMAIN maps[h] /\ links[h][a] = maps[h][a]
Prepared(i) ==
    /\ Past(i, "wwid") => HasAll(HostList[i])
    /\ Past(i, "conf") => conf[HostList[i]] = Wanted(HostList[i])
    /\ Past(i, "multipathd") => MapsFollow(HostList[i])
    /\ Past(i, "rules") => rules[HostList[i]] = ByMap
    /\ Past(i, "trigger") => LinksFollow(HostList[i])
HostsPrepared ==
    Sure => /\ \A i \in DOMAIN HostList : Multipathed(HostList[i]) => Prepared(i)
            /\ step = "trigger" /\ Multipathed(h0) => changed \/ opt.force

DisksInv ==
    /\ DisksShape /\ Standing /\ FirstRun /\ GroupsNamed /\ AskedKnown
    /\ PolicyFits /\ MapsLive /\ HostsPrepared
    /\ DeploymentIsSound /\ DiscoveryIsSound
-----------------------------------------------------------------------------
(* Lemmas. *)

(* A member of a group is in the table of its slots.                       *)
LEMMA SlotOf ==
    ASSUME NEW g, NEW p \in Parts, NEW i \in DOMAIN g[p]
    PROVE  /\ <<p, i>> \in DiskSlots(g)
           /\ DiskAt(g, <<p, i>>) = g[p][i] /\ g[p][i] \in Disks(g)
<1>1. <<p, i>> \in DiskSlots(g)
  <2>1. <<p, i>> \in {<<p, j>> : j \in DOMAIN g[p]}
    OBVIOUS
  <2>2. \E q \in Parts : <<p, i>> \in {<<q, j>> : j \in DOMAIN g[q]}
    BY <2>1
  <2>3. QED  BY <2>2 DEF DiskSlots
<1>2. DiskAt(g, <<p, i>>) = g[p][i]
  BY DEF DiskAt
<1>3. QED  BY <1>1, <1>2 DEF Disks

LEMMA SlotIs ==
    ASSUME NEW g, NEW s \in DiskSlots(g)
    PROVE  /\ \E p \in Parts : \E i \in DOMAIN g[p] : s = <<p, i>>
           /\ s[1] \in Parts /\ s[2] \in DOMAIN g[s[1]] /\ DiskAt(g, s) \in Disks(g)
BY DEF DiskSlots, DiskAt, Disks

LEMMA DiskIs ==
    ASSUME NEW g, NEW d \in Disks(g)
    PROVE  \E s \in DiskSlots(g) : d = DiskAt(g, s)
BY DEF Disks

(* A group with a disk has an alias of its own.                            *)
LEMMA SomeAlias ==
    ASSUME NEW g, GroupsShape(g), g["sys"] # <<>>
    PROVE  <<"sys", 1>> \in Aliased(g) /\ <<"sys", 1>> \in DiskSlots(g)
<1>1. "sys" \in Parts
  BY DEF Parts
<1>2. 1 \in DOMAIN g["sys"]
  BY <1>1 DEF GroupsShape
<1>3. <<"sys", 1>> \in DiskSlots(g)
  BY <1>1, <1>2, SlotOf
<1>4. QED  BY <1>3 DEF Aliased

LEMMA HostsFacts ==
    /\ DOMAIN HostList = 1..Len(HostList) /\ Len(HostList) \in Nat \ {0}
    /\ FirstHost \in Hosts
    /\ \A i \in DOMAIN HostList : HostList[i] \in Hosts
    /\ \A h \in Hosts : \E i \in DOMAIN HostList : h = HostList[i]
    /\ \A i, j \in DOMAIN HostList : HostList[i] = HostList[j] => i = j
BY HostsAssumption, EmptySeq DEF FirstHost, Hosts, ToSet, IsInjective

(* What makes the run go on.                                               *)
HostStep == \/ Validate \/ CollectWwid \/ WriteConf \/ EnableMultipathd
            \/ WriteRules \/ TriggerUdev \/ Look
Going == /\ Running /\ Running' /\ Pass /\ step # "deploy" /\ UNCHANGED <<lay, opt, run>>
         /\ Discover \/ DiscoverAliases \/ HostStep \/ CheckDisks

LEMMA StepsOn ==
    ASSUME DisksNext, Running'
    PROVE  Start \/ Going \/ UNCHANGED disksVars
<1>. USE DEF Running, Refuse
<1>1. CASE Start
  BY <1>1
<1>2. CASE Discover
  <2>1. Pass /\ UNCHANGED <<lay, opt, run>> /\ Running /\ step # "deploy"
    BY <1>2 DEF Discover, Here, Frame
  <2>2. QED  BY <1>2, <2>1 DEF Going
<1>3. CASE DiscoverAliases
  <2>1. Pass /\ UNCHANGED <<lay, opt, run>> /\ Running /\ step # "deploy"
    BY <1>3 DEF DiscoverAliases, Here, Frame
  <2>2. QED  BY <1>3, <2>1 DEF Going
<1>4. CASE HostStep
  <2>1. Pass /\ UNCHANGED <<lay, opt, run>> /\ Running /\ step # "deploy"
    <3>1. CASE Validate
      BY <3>1 DEF Validate, Here, Frame
    <3>2. CASE CollectWwid
      BY <3>2 DEF CollectWwid, Here, Frame
    <3>3. CASE WriteConf
      BY <3>3 DEF WriteConf, Here, Frame
    <3>4. CASE EnableMultipathd
      BY <3>4 DEF EnableMultipathd, Here, Frame
    <3>5. CASE WriteRules
      BY <3>5 DEF WriteRules, Here, Frame
    <3>6. CASE TriggerUdev
      BY <3>6 DEF TriggerUdev, Here, Frame
    <3>7. CASE Look
      BY <3>7 DEF Look, Here, Frame
    <3>8. QED  BY <1>4, <3>1, <3>2, <3>3, <3>4, <3>5, <3>6, <3>7 DEF HostStep
  <2>2. QED  BY <1>4, <2>1 DEF Going
<1>5. CASE CheckDisks
  <2>1. Pass /\ UNCHANGED <<lay, opt, run>> /\ Running /\ step # "deploy"
    BY <1>5 DEF CheckDisks, Here, Frame
  <2>2. QED  BY <1>5, <2>1 DEF Going
<1>6. CASE Deploy
  <2>1. step = "deploy" /\ Pass
    BY <1>6 DEF Deploy, Here
  <2>2. FALSE
    BY <2>1 DEF Pass, Following
  <2>3. QED  BY <2>2
<1>7. CASE MultipathdStopped \/ StepFails
  BY <1>7 DEF MultipathdStopped, StepFails
<1>8. CASE Reboot
  BY <1>8 DEF Reboot
<1>9. CASE Finished
  BY <1>9 DEF Finished
<1>10. QED
  BY <1>1, <1>2, <1>3, <1>4, <1>5, <1>6, <1>7, <1>8, <1>9 DEF DisksNext, HostStep

(* A host is past a step once the step is over, and stays so.              *)
LEMMA PassMoves ==
    ASSUME Pass, turn \in Nat, step # "aliases", step # "deploy",
           NEW i \in Nat, NEW s \in DOMAIN Later
    PROVE  /\ Past(i, s)' => Past(i, s) \/ (i = turn /\ step = s)
           /\ step' # "deploy" /\ Past(i, s) => Past(i, s)'
           /\ i = turn /\ step = s => Past(i, s)'
<1>1. CASE step \in DOMAIN Following /\ step' = Following[step] /\ turn' = turn
  BY <1>1 DEF Past, Later, Following
<1>2. CASE step = "lookLinks" /\ step' = "validate" /\ turn' = turn + 1
  BY <1>2 DEF Past, Later
<1>3. CASE step = "lookLinks" /\ step' = "check" /\ turn' = turn
  BY <1>3 DEF Past, Later
<1>4. QED  BY <1>1, <1>2, <1>3 DEF Pass

LEMMA PassWhere ==
    ASSUME Pass, turn \in DOMAIN HostList, step # "deploy",
           step \in DOMAIN Following \cup {"lookLinks"}
    PROVE  /\ turn' \in DOMAIN HostList
           /\ step' \in (DOMAIN Following \cup {"lookLinks", "deploy"}) \ {"aliases", "discover"}
           /\ step' = "check" => step = "aliases" \/ turn' = Len(HostList)
           /\ step' = "deploy" => step = "check"
           /\ step \in {"aliases", "check"} => step' \in {"check", "deploy"}
           /\ turn' = turn \/ step' = "validate"
           /\ step \in DOMAIN Later => turn' = turn /\ step' = Following[step]
<1>1. CASE step \in DOMAIN Following /\ step' = Following[step] /\ turn' = turn
  BY <1>1 DEF Following, Later
<1>2. CASE step = "lookLinks" /\ step' = "validate" /\ turn < Len(HostList) /\ turn' = turn + 1
  BY <1>2, HostsFacts DEF Following, Later
<1>3. CASE step = "lookLinks" /\ step' = "check" /\ turn = Len(HostList) /\ turn' = turn
  BY <1>3 DEF Following, Later
<1>4. QED  BY <1>1, <1>2, <1>3 DEF Pass

(* Which disk a live map is of, and why it has its name.                   *)
LEMMA LiveMapsFact ==
    ASSUME NEW h, NEW m \in LiveMaps(h), NEW a \in DOMAIN m
    PROVE  m[a] \in Mappable(h) /\ a \in AliasesFor(h, m[a])
<1> DEFINE D == Mappable(h)
           Names == UNION {AliasesFor(h, l) : l \in Mappable(h)}
<1>1. PICK c \in [D -> Names] :
          /\ \A l \in D : c[l] \in AliasesFor(h, l)
          /\ m = [b \in Range(c) |-> CHOOSE l \in D : c[l] = b]
  <2>1. LiveMaps(h) = {[b \in Range(c) |-> CHOOSE l \in D : c[l] = b] :
                          c \in {c \in [D -> Names] : \A l \in D : c[l] \in AliasesFor(h, l)}}
    BY Zenon DEF LiveMaps
  <2>2. QED  BY <2>1
<1> HIDE DEF D, Names
<1>2. a \in Range(c) /\ m[a] = CHOOSE l \in D : c[l] = a
  BY <1>1
<1>3. \E l \in D : c[l] = a
  BY <1>1, <1>2 DEF Range
<1>4. m[a] \in D /\ c[m[a]] = a
  BY <1>2, <1>3
<1>5. QED  BY <1>1, <1>4 DEF D

(* A link is of a disk that the rule of its name matches.                  *)
LEMMA LiveLinksFact ==
    ASSUME NEW h, NEW m, NEW f \in LiveLinks(h, m), NEW a \in DOMAIN f
    PROVE  a \in DOMAIN rules[h] /\ f[a] \in Matching(h, m, rules[h][a])
BY DEF LiveLinks

(* How the live state of a host may change.                                *)
LEMMA RestartedFact ==
    ASSUME NEW h \in Hosts, DisksShape, Restarted(h)
    PROVE  /\ daemon' = daemon \cup {h}
           /\ maps' = [g \in Hosts |-> maps'[g]] /\ links' = [g \in Hosts |-> links'[g]]
           /\ maps'[h] \in LiveMaps(h)
           /\ \A g \in Hosts \ {h} : maps'[g] = maps[g] /\ links'[g] = links[g]
<1>1. PICK m \in LiveMaps(h) : /\ maps' = [maps EXCEPT ![h] = m]
                               /\ \E f \in LiveLinks(h, m) : links' = [links EXCEPT ![h] = f]
  BY DEF Restarted
<1>2. PICK f : links' = [links EXCEPT ![h] = f]
  BY <1>1
<1>3. daemon' = daemon \cup {h}
  BY DEF Restarted
<1>4. QED  BY <1>1, <1>2, <1>3 DEF DisksShape

LEMMA ShapeInit == DisksInit => DisksShape
<1> SUFFICES ASSUME DisksInit PROVE DisksShape
  OBVIOUS
<1>1. conf = [h \in Hosts |-> Nothing] /\ maps = conf /\ rules = conf /\ links = conf
  BY DEF DisksInit
<1>6. daemon = {}
  BY DEF DisksInit
<1>2. lay \in Layouts /\ opt \in Options /\ run \in Nat /\ turn \in DOMAIN HostList
  BY HostsFacts DEF DisksInit
<1>3. step \in DOMAIN Following
  BY DEF DisksInit, Following
<1>4. ~policy.need
  BY DEF DisksInit, RealDM
<1>5. QED  BY <1>1, <1>2, <1>3, <1>4, <1>6 DEF DisksShape

LEMMA PolicyChoice ==
    ASSUME Validate, policy' # policy
    PROVE  /\ Filled /\ \A d \in Disks(groups) : Exists(h0, d)
           /\ \A d \in Disks(groups) : policy' = Kind(h0, d)
<1> DEFINE kinds == {Kind(h0, d) : d \in Disks(groups)}
<1>1. /\ Filled /\ \A d \in Disks(groups) : Exists(h0, d)
      /\ ~ \E p, q \in kinds : p # q
      /\ policy' \in kinds
  BY DEF Validate, Filled
<1>2. QED  BY <1>1

LEMMA KindFact ==
    ASSUME NEW h, NEW d
    PROVE  /\ Kind(h, d).need => ~Multipath(d) /\ ~Kind(h, d).wwn
           /\ d.in = "dev" /\ Multipathed(h) => Kind(h, d).need
BY DEF Kind, RealDM, Multipath, Multipathed

LEMMA ShapeNext == DisksShape /\ DisksNext => DisksShape'
<1> SUFFICES ASSUME DisksShape, DisksNext PROVE DisksShape'
  OBVIOUS
<1>0. h0 \in Hosts
  BY HostsFacts DEF DisksShape, h0
<1> DEFINE Rest == UNCHANGED <<lay, opt, run>>
           Moved == Pass \/ UNCHANGED <<step, turn>>
           Tables == UNCHANGED <<conf, daemon, maps, rules, links>>
           Same(f, fp) == fp = [h \in Hosts |-> fp[h]]
<1>1. ASSUME Moved, NEW s, Here(s) PROVE turn' \in DOMAIN HostList /\ step' \in DOMAIN Following \cup {"lookLinks", "deploy"}
  <2>1. CASE UNCHANGED <<step, turn>>
    BY <2>1 DEF DisksShape
  <2>2. CASE Pass /\ step = "deploy"
    BY <2>2 DEF Pass, DisksShape, Following
  <2>3. CASE Pass /\ step # "deploy"
    BY <2>3, PassWhere DEF DisksShape
  <2>4. QED  BY <1>1, <2>1, <2>2, <2>3
<1>2. CASE Start
  <2>1. lay' \in Layouts /\ opt' \in Options /\ run' \in Nat /\ Tables
    BY <1>2 DEF Start, host, DisksShape
  <2>2. turn' \in DOMAIN HostList /\ step' \in DOMAIN Following
    BY <1>2, HostsFacts DEF Start, Following
  <2>3. ~policy'.need
    BY <1>2 DEF Start, RealDM
  <2>4. QED  BY <2>1, <2>2, <2>3 DEF DisksShape
<1>3. CASE Discover \/ DiscoverAliases \/ CollectWwid \/ Look \/ CheckDisks \/ Deploy
  <2>1. Rest /\ Moved /\ Tables /\ UNCHANGED policy /\ \E s : Here(s)
    BY <1>3 DEF Discover, DiscoverAliases, CollectWwid, Look, CheckDisks, Deploy, Refuse,
                Frame, host, Params
  <2>2. QED  BY <2>1, <1>1 DEF DisksShape
<1>4. CASE Validate
  <2>1. Rest /\ Moved /\ Tables /\ \E s : Here(s)
    BY <1>4 DEF Validate, Refuse, Frame, host
  <2>2. policy'.need => ~policy'.wwn
    <3>1. CASE policy' = policy
      BY <3>1 DEF DisksShape
    <3>2. CASE policy' # policy
      <4>1. \E d : policy' = Kind(h0, d)
        <5>1. Disks(groups) # {}
          BY <1>4, <3>2 DEF Validate
        <5>2. QED  BY <5>1, <1>4, <3>2, PolicyChoice
      <4>2. QED  BY <4>1, KindFact
    <3>3. QED  BY <3>1, <3>2
  <2>3. QED  BY <2>1, <2>2, <1>1 DEF DisksShape
<1>5. CASE WriteConf
  <2>1. Rest /\ Moved /\ UNCHANGED <<daemon, maps, rules, links, policy>> /\ \E s : Here(s)
    BY <1>5 DEF WriteConf, Refuse, Frame, Params
  <2>2. conf' = conf \/ conf' = [conf EXCEPT ![h0] = Entries]
    BY <1>5 DEF WriteConf
  <2>3. conf' = [h \in Hosts |-> conf'[h]]
    BY <2>2, <1>0 DEF DisksShape
  <2>4. QED  BY <2>1, <2>3, <1>1 DEF DisksShape
<1>6. CASE EnableMultipathd
  <2>1. Rest /\ Moved /\ UNCHANGED <<conf, rules, policy>> /\ \E s : Here(s)
    BY <1>6 DEF EnableMultipathd, Frame, Params
  <2>2. /\ maps' = [h \in Hosts |-> maps'[h]] /\ links' = [h \in Hosts |-> links'[h]]
        /\ daemon' \subseteq Hosts
    <3>1. UNCHANGED <<daemon, maps, links>> \/ Restarted(h0)
      BY <1>6 DEF EnableMultipathd
    <3>2. QED  BY <3>1, <1>0, RestartedFact DEF DisksShape
  <2>3. QED  BY <2>1, <2>2, <1>1 DEF DisksShape
<1>7. CASE MultipathdStopped
  <2>1. Rest /\ Moved /\ UNCHANGED <<conf, rules, policy>> /\ \E s : Here(s)
    BY <1>7 DEF MultipathdStopped, Refuse, Params
  <2>5. daemon' \subseteq Hosts
    BY <1>7 DEF MultipathdStopped, DisksShape
  <2>2. maps' = [maps EXCEPT ![h0] = Nothing] /\ \E f : links' = [links EXCEPT ![h0] = f]
    BY <1>7 DEF MultipathdStopped
  <2>3. maps' = [h \in Hosts |-> maps'[h]] /\ links' = [h \in Hosts |-> links'[h]]
    BY <2>2, <1>0 DEF DisksShape
  <2>4. QED  BY <2>1, <2>3, <2>5, <1>1 DEF DisksShape
<1>8. CASE WriteRules
  <2>1. Rest /\ Moved /\ UNCHANGED <<conf, daemon, maps, links, policy>> /\ \E s : Here(s)
    BY <1>8 DEF WriteRules, Refuse, Frame
  <2>2. rules' = rules \/ \E new : rules' = [rules EXCEPT ![h0] = new]
    BY <1>8 DEF WriteRules
  <2>3. rules' = [h \in Hosts |-> rules'[h]]
    BY <2>2, <1>0 DEF DisksShape
  <2>4. QED  BY <2>1, <2>3, <1>1 DEF DisksShape
<1>9. CASE TriggerUdev
  <2>1. Rest /\ Moved /\ UNCHANGED <<conf, daemon, maps, rules, policy>> /\ \E s : Here(s)
    BY <1>9 DEF TriggerUdev, Frame, Params
  <2>2. links' = links \/ \E f : links' = [links EXCEPT ![h0] = f]
    BY <1>9 DEF TriggerUdev
  <2>3. links' = [h \in Hosts |-> links'[h]]
    BY <2>2, <1>0 DEF DisksShape
  <2>4. QED  BY <2>1, <2>3, <1>1 DEF DisksShape
<1>10. CASE StepFails \/ Finished
  BY <1>10 DEF StepFails, Finished, disksVars, Refuse, host, Params, DisksShape
<1>11. CASE Reboot
  <2>1. UNCHANGED <<lay, opt, run, step, turn, conf, rules, policy>>
    BY <1>11 DEF Reboot, Frame, Params
  <2>2. PICK h \in daemon : Restarted(h)
    BY <1>11 DEF Reboot
  <2>3. h \in Hosts
    BY DEF DisksShape
  <2>4. QED  BY <2>1, <2>2, <2>3, RestartedFact DEF DisksShape
<1>12. QED
  BY <1>2, <1>3, <1>4, <1>5, <1>6, <1>7, <1>8, <1>9, <1>10, <1>11 DEF DisksNext

LEMMA StandingNext == DisksShape /\ Standing /\ DisksNext => Standing'
<1> SUFFICES ASSUME DisksShape, Standing, DisksNext, Running' PROVE Standing'
  BY DEF Standing
<1>1. CASE Start
  <2>1. /\ run' > 0 /\ turn' = 1 /\ policy' = RealDM
        /\ step' = (IF opt'.skipOS THEN "aliases" ELSE "discover")
    BY <1>1 DEF Start, DisksShape
  <2>2. (RealDM)' = RealDM
    BY DEF RealDM
  <2>3. QED  BY <2>1, <2>2 DEF Standing, OnTheWay
<1>2. CASE Going
  <2>1. /\ step' \notin {"aliases", "discover"} /\ run' = run /\ opt' = opt
        /\ step' = "check" => step = "aliases" \/ turn' = Len(HostList)
        /\ step # "deploy" /\ (step \in {"aliases", "check"} => step' \in {"check", "deploy"})
    BY <1>2, PassWhere DEF Going, DisksShape
  <2>2. /\ run > 0 /\ (step = "aliases" => opt.skipOS)
        /\ opt.skipOS => step \in {"aliases", "check", "deploy"}
    BY <1>2 DEF Going, Standing
  <2>3. QED  BY <2>1, <2>2 DEF Standing, OnTheWay
<1>3. CASE UNCHANGED disksVars
  BY <1>3 DEF disksVars, Standing, OnTheWay, Running
<1>4. QED  BY <1>1, <1>2, <1>3, StepsOn

(* What the steps of a run may write.                                      *)
LEMMA Writes ==
    ASSUME Going, DisksShape
    PROVE  /\ \A h \in Hosts : h # h0 => /\ conf'[h] = conf[h] /\ maps'[h] = maps[h]
                                         /\ rules'[h] = rules[h] /\ links'[h] = links[h]
           /\ step # "conf" => conf' = conf
           /\ step # "multipathd" => UNCHANGED <<daemon, maps>>
           /\ step # "rules" => rules' = rules
           /\ step \notin {"multipathd", "trigger"} => links' = links
           /\ step \notin {"discover", "aliases", "check"} => UNCHANGED <<groups, asked>>
           /\ step = "multipathd" => UNCHANGED <<daemon, maps, links>> \/ Restarted(h0)
           /\ step # "validate" => policy' = policy
           /\ step # "rules" => changed' = changed
<1>0. h0 \in Hosts
  BY HostsFacts DEF DisksShape, h0
<1>1. CASE Discover \/ DiscoverAliases \/ CheckDisks \/ CollectWwid \/ Look \/ Validate
  BY <1>1 DEF Discover, DiscoverAliases, CheckDisks, CollectWwid, Look, Validate, Here,
              host, Params, Frame, Refuse, Going, Running
<1>2. CASE WriteConf
  <2>1. step = "conf" /\ UNCHANGED <<daemon, maps, rules, links, groups, policy, changed, asked>>
    BY <1>2 DEF WriteConf, Here, Params
  <2>2. conf' = conf \/ conf' = [conf EXCEPT ![h0] = Entries]
    BY <1>2 DEF WriteConf
  <2>3. QED  BY <1>0, <2>1, <2>2 DEF DisksShape
<1>3. CASE EnableMultipathd
  <2>1. step = "multipathd" /\ UNCHANGED <<conf, rules, groups, policy, changed, asked>>
    BY <1>3 DEF EnableMultipathd, Here, Params
  <2>2. UNCHANGED <<daemon, maps, links>> \/ Restarted(h0)
    BY <1>3 DEF EnableMultipathd
  <2>3. \A h \in Hosts : h # h0 => maps'[h] = maps[h] /\ links'[h] = links[h]
    BY <2>2, <1>0, RestartedFact
  <2>4. QED  BY <1>0, <2>1, <2>2, <2>3
<1>4. CASE WriteRules
  <2>1. step = "rules" /\ UNCHANGED <<conf, daemon, maps, links, groups, policy, asked>>
    BY <1>4 DEF WriteRules, Here
  <2>2. rules' = rules \/ \E new : rules' = [rules EXCEPT ![h0] = new]
    BY <1>4 DEF WriteRules
  <2>3. QED  BY <1>0, <2>1, <2>2 DEF DisksShape
<1>5. CASE TriggerUdev
  <2>1. step = "trigger" /\ UNCHANGED <<conf, daemon, maps, rules, groups, policy, changed, asked>>
    BY <1>5 DEF TriggerUdev, Here, Params
  <2>2. links' = links \/ \E f : links' = [links EXCEPT ![h0] = f]
    BY <1>5 DEF TriggerUdev
  <2>3. QED  BY <1>0, <2>1, <2>2 DEF DisksShape
<1>6. QED  BY <1>1, <1>2, <1>3, <1>4, <1>5 DEF Going, HostStep

(* Being past a step, on the way: what Going adds to it.                   *)
LEMMA GoingMoves ==
    ASSUME Going, DisksShape, Standing, ~opt.skipOS, NEW i \in DOMAIN HostList, NEW s \in DOMAIN Later
    PROVE  /\ Past(i, s)' => Past(i, s) \/ (i = turn /\ step = s)
           /\ step' # "deploy" /\ Past(i, s) => Past(i, s)'
           /\ i = turn /\ step = s => Past(i, s)'
<1>1. turn \in Nat /\ i \in Nat
  BY HostsFacts DEF DisksShape
<1>2. step # "aliases" /\ step # "deploy" /\ Pass
  BY DEF Going, Standing
<1>3. QED  BY <1>1, <1>2, PassMoves

LEMMA HereIsTurn ==
    ASSUME turn \in DOMAIN HostList, NEW i \in DOMAIN HostList, i # turn
    PROVE  HostList[i] # h0 /\ HostList[i] \in Hosts
BY HostsFacts DEF h0

LEMMA FirstRunNext == DisksShape /\ Standing /\ FirstRun /\ DisksNext => FirstRun'
<1> SUFFICES ASSUME DisksShape, Standing, FirstRun, DisksNext PROVE FirstRun'
  OBVIOUS
<1>1. CASE Start
  <2>1. run' = run + 1 /\ UNCHANGED <<daemon, rules>>
    BY <1>1 DEF Start, host
  <2>2. run' # 0 /\ (run' = 1 => run = 0)
    BY <2>1 DEF DisksShape
  <2>3. run = 0 => daemon = {} /\ \A h \in Hosts : rules[h] = Nothing
    BY DEF FirstRun
  <2>4. QED  BY <2>1, <2>2, <2>3, HostsFacts DEF FirstRun, Nothing
<1>2. ASSUME run = 0, ~Start PROVE FirstRun'
  <2>1. ~Running /\ daemon = {}
    BY <1>2 DEF FirstRun
  <2>2. ~Running' /\ UNCHANGED <<run, daemon, rules>>
    <3>1. Finished
      BY <1>2, <2>1 DEF DisksNext, Discover, DiscoverAliases, Validate, CollectWwid, WriteConf,
            EnableMultipathd, MultipathdStopped, WriteRules, TriggerUdev, Look, CheckDisks,
            Deploy, StepFails, Reboot, Here
    <3>2. QED  BY <3>1, <2>1 DEF Finished, disksVars, host, Running
  <2>3. QED  BY <1>2, <2>2 DEF FirstRun, Nothing, OnTheWay
<1>3. ASSUME run # 0, ~Start, run' = 0 PROVE FALSE
  <2>1. run' = run
    BY <1>3 DEF DisksNext, Discover, DiscoverAliases, Validate, CollectWwid, WriteConf,
            EnableMultipathd, MultipathdStopped, WriteRules, TriggerUdev, Look, CheckDisks,
            Deploy, StepFails, Reboot, Finished, Frame, disksVars
  <2>2. QED  BY <1>3, <2>1
<1>4. ASSUME run # 0, ~Start, OnTheWay', run' = 1, NEW i \in DOMAIN HostList
      PROVE  /\ ~Past(i, "multipathd")' => HostList[i] \notin daemon'
             /\ ~Past(i, "rules")' => rules'[HostList[i]] = Nothing
  <2>1. CASE Going
    <3>1. OnTheWay /\ run = 1 /\ ~opt.skipOS /\ step' # "deploy"
      BY <1>4, <2>1 DEF Going, OnTheWay
    <3>2. "multipathd" \in DOMAIN Later /\ "rules" \in DOMAIN Later
      BY DEF Later
    <3>3. /\ ~Past(i, "multipathd") => HostList[i] \notin daemon
          /\ ~Past(i, "rules") => rules[HostList[i]] = Nothing
      BY <3>1 DEF FirstRun
    <3>4. ASSUME ~Past(i, "multipathd")' PROVE HostList[i] \notin daemon'
      <4>1. ~Past(i, "multipathd")
        BY <2>1, <3>1, <3>2, <3>4, GoingMoves
      <4>2. CASE step = "multipathd"
        <5>1. i # turn
          BY <2>1, <3>1, <3>2, <3>4, <4>2, GoingMoves
        <5>2. HostList[i] # h0 /\ h0 \in Hosts
          BY <5>1, HereIsTurn, HostsFacts DEF DisksShape, h0
        <5>3. daemon' \subseteq daemon \cup {h0}
          BY <2>1, <4>2, <5>2, Writes, RestartedFact
        <5>4. QED  BY <3>3, <4>1, <5>2, <5>3
      <4>3. CASE step # "multipathd"
        BY <2>1, <3>3, <4>1, <4>3, Writes
      <4>4. QED  BY <4>2, <4>3
    <3>5. ASSUME ~Past(i, "rules")' PROVE rules'[HostList[i]] = Nothing
      <4>1. ~Past(i, "rules")
        BY <2>1, <3>1, <3>2, <3>5, GoingMoves
      <4>2. step = "rules" => i # turn
        BY <2>1, <3>1, <3>2, <3>5, GoingMoves
      <4>3. rules'[HostList[i]] = rules[HostList[i]]
        BY <2>1, <4>2, Writes, HereIsTurn DEF DisksShape
      <4>4. QED  BY <3>3, <4>1, <4>3
    <3>6. QED  BY <3>4, <3>5
  <2>2. CASE UNCHANGED disksVars
    BY <1>4, <2>2 DEF FirstRun, disksVars, host, OnTheWay, Running, Past, Nothing
  <2>3. QED  BY <1>4, <2>1, <2>2, StepsOn DEF OnTheWay
<1>5. QED
  <2>1. CASE ~Start /\ run # 0
    BY <2>1, <1>3, <1>4 DEF FirstRun, Nothing
  <2>2. QED  BY <1>1, <1>2, <2>1

LEMMA MapsLiveNext == DisksShape /\ MapsLive /\ DisksNext => MapsLive'
<1> SUFFICES ASSUME DisksShape, MapsLive, DisksNext PROVE MapsLive'
  OBVIOUS
<1>0. lay' = lay
  BY DEF DisksNext, Start, Discover, DiscoverAliases, Validate, CollectWwid, WriteConf,
         EnableMultipathd, MultipathdStopped, WriteRules, TriggerUdev, Look, CheckDisks,
         Deploy, StepFails, Reboot, Finished, Frame, disksVars
<1>1. \A h : Mappable(h)' = Mappable(h)
  BY <1>0 DEF Mappable
<1>2. ASSUME NEW h \in Hosts, Restarted(h) PROVE MapsLive'
  <2>1. \A g \in Hosts \ {h} : maps'[g] = maps[g]
    BY <1>2, RestartedFact
  <2>2. \A a \in DOMAIN maps'[h] : maps'[h][a] \in Mappable(h)
    BY <1>2, RestartedFact, LiveMapsFact
  <2>3. QED  BY <1>1, <2>1, <2>2 DEF MapsLive
<1>3. ASSUME maps' = maps PROVE MapsLive'
  BY <1>1, <1>3 DEF MapsLive
<1>4. h0 \in Hosts
  BY HostsFacts DEF DisksShape, h0
<1>5. CASE MultipathdStopped
  <2>1. maps' = [maps EXCEPT ![h0] = Nothing]
    BY <1>5 DEF MultipathdStopped
  <2>2. \A h \in Hosts : maps'[h] = IF h = h0 THEN Nothing ELSE maps[h]
    BY <1>4, <2>1 DEF DisksShape
  <2>3. QED  BY <1>1, <2>2 DEF MapsLive, Nothing
<1>6. CASE EnableMultipathd
  BY <1>2, <1>3, <1>4, <1>6 DEF EnableMultipathd
<1>7. CASE Reboot
  BY <1>2, <1>7 DEF Reboot, DisksShape
<1>8. CASE ~MultipathdStopped /\ ~EnableMultipathd /\ ~Reboot
  BY <1>3, <1>8 DEF DisksNext, Start, Discover, DiscoverAliases, Validate, CollectWwid, WriteConf,
         WriteRules, TriggerUdev, Look, CheckDisks, Deploy, StepFails, Finished, Frame, host,
         disksVars
<1>9. QED  BY <1>5, <1>6, <1>7, <1>8
-----------------------------------------------------------------------------
(* What discovery chooses. *)

LEMMA BestCounts == \A n : BestValidCount(n) \in {0, 1, 3, 5}
BY DEF BestValidCount

LEMMA OrdersFact ==
    ASSUME NEW S, NEW n, NEW f \in Orders(S, n)
    PROVE  f \in [1..n -> S] /\ IsInjective(f)
BY DEF Orders

LEMMA EmptyOrder ==
    ASSUME NEW S
    PROVE  <<>> \in [1..0 -> S] /\ IsInjective(<<>>) /\ DOMAIN <<>> = 1..0
BY DEF IsInjective

LEMMA SystemFact ==
    ASSUME NEW h, NEW names, NEW sys \in SystemDisks(h, names)
    PROVE  /\ \E n \in {0, 1, 3, 5} : sys \in [1..n -> names]
           /\ IsInjective(sys)
           /\ \A x, y \in Range(sys) : Size[lay.dev[h][x]] = Size[lay.dev[h][y]]
<1> DEFINE count(z) == BestValidCount(Cardinality(OfSize(h, names, z)))
<1>1. CASE sys = <<>>
  BY <1>1, EmptyOrder DEF Range
<1>2. CASE sys # <<>>
  <2>1. PICK z : sys \in Orders(OfSize(h, names, z), count(z))
    BY <1>2 DEF SystemDisks
  <2>2. sys \in [1..count(z) -> OfSize(h, names, z)] /\ IsInjective(sys)
    BY <2>1, OrdersFact
  <2>3. OfSize(h, names, z) \subseteq names
        /\ \A x \in OfSize(h, names, z) : Size[lay.dev[h][x]] = z
    BY DEF OfSize
  <2>4. count(z) \in {0, 1, 3, 5}
    BY BestCounts
  <2> HIDE DEF count
  <2>5. QED  BY <2>2, <2>3, <2>4 DEF Range
<1>3. QED  BY <1>1, <1>2

LEMMA AllOrders ==
    ASSUME NEW S, NEW T \in SUBSET S, IsFiniteSet(S), NEW f \in Orders(T, Cardinality(T))
    PROVE  (\E n \in Nat : f \in [1..n -> S]) /\ IsInjective(f) /\ Range(f) \subseteq T
<1>1. Cardinality(T) \in Nat
  BY FS_Subset, FS_CardinalityType
<1>2. f \in [1..Cardinality(T) -> T] /\ IsInjective(f)
  BY OrdersFact
<1>3. f \in [1..Cardinality(T) -> S]
  BY <1>2
<1>4. QED  BY <1>1, <1>2, <1>3 DEF Range

LEMMA DataFact ==
    ASSUME NEW h, NEW rest, IsFiniteSet(rest), NEW arch, NEW dg \in DataAndArch(h, rest, arch)
    PROVE  /\ \E n \in Nat : dg.data \in [1..n -> rest]
           /\ \E n \in Nat : dg.arch \in [1..n -> rest]
           /\ IsInjective(dg.data) /\ IsInjective(dg.arch)
           /\ Range(dg.data) \cap Range(dg.arch) = {}
<1> DEFINE pool == DataPool(h, rest)
           all(names) == Orders(names, Cardinality(names))
<1>1. pool \in SUBSET rest
  BY DEF DataPool
<1>2. CASE \E d \in all(pool) : dg = [data |-> d, arch |-> <<>>]
  BY <1>1, <1>2, AllOrders, EmptyOrder DEF Range
<1>3. ASSUME NEW a \in rest, NEW d \in all(pool \ {a}), dg = [data |-> d, arch |-> <<a>>]
      PROVE  /\ \E n \in Nat : dg.data \in [1..n -> rest]
             /\ \E n \in Nat : dg.arch \in [1..n -> rest]
             /\ IsInjective(dg.data) /\ IsInjective(dg.arch)
             /\ Range(dg.data) \cap Range(dg.arch) = {}
  <2>1. (\E n \in Nat : d \in [1..n -> rest]) /\ IsInjective(d) /\ Range(d) \subseteq pool \ {a}
    BY <1>1, AllOrders
  <2>2. <<a>> \in [1..1 -> rest] /\ IsInjective(<<a>>) /\ Range(<<a>>) = {a}
    BY DEF IsInjective, Range
  <2>3. dg.data = d /\ dg.arch = <<a>>
    BY <1>3
  <2> HIDE DEF pool, all
  <2>4. QED  BY <2>1, <2>2, <2>3
<1>4. \/ \E d \in all(pool) : dg = [data |-> d, arch |-> <<>>]
      \/ \E a \in rest : \E d \in all(pool \ {a}) : dg = [data |-> d, arch |-> <<a>>]
  BY <1>1 DEF DataAndArch
<1>5. QED  BY <1>2, <1>3, <1>4

(* The three groups: injective sequences of the names, apart from each     *)
(* other.                                                                  *)
Picked(h, names, g, t) ==
    /\ \A p \in Parts : /\ \E n \in Nat : t[p] \in [1..n -> names]
                        /\ g[p] = Named(t[p]) /\ IsInjective(t[p])
    /\ \A p, q \in Parts : p # q => Range(t[p]) \cap Range(t[q]) = {}
    /\ \E n \in {0, 1, 3, 5} : DOMAIN t["sys"] = 1..n
    /\ \A x, y \in Range(t["sys"]) : Size[lay.dev[h][x]] = Size[lay.dev[h][y]]

LEMMA ClassifiedFact ==
    ASSUME NEW h, NEW names, IsFiniteSet(names), NEW arch, NEW g \in Classified(h, names, arch)
    PROVE  \E t : Picked(h, names, g, t)
<1>1. PICK sys \in SystemDisks(h, names) : \E dg \in DataAndArch(h, names \ Range(sys), arch) :
         g = [sys |-> Named(sys), data |-> Named(dg.data), arch |-> Named(dg.arch)]
  BY DEF Classified
<1>2. PICK dg \in DataAndArch(h, names \ Range(sys), arch) :
         g = [sys |-> Named(sys), data |-> Named(dg.data), arch |-> Named(dg.arch)]
  BY <1>1
<1> DEFINE rest == names \ Range(sys)
           t == [p \in Parts |-> IF p = "sys" THEN sys ELSE IF p = "data" THEN dg.data ELSE dg.arch]
<1>3. IsFiniteSet(rest)
  BY FS_Subset
<1>4. /\ \E n \in Nat : dg.data \in [1..n -> rest]
      /\ \E n \in Nat : dg.arch \in [1..n -> rest]
      /\ IsInjective(dg.data) /\ IsInjective(dg.arch)
      /\ Range(dg.data) \cap Range(dg.arch) = {}
  BY <1>2, <1>3, DataFact
<1>5. /\ \E n \in {0, 1, 3, 5} : sys \in [1..n -> names]
      /\ IsInjective(sys)
      /\ \A x, y \in Range(sys) : Size[lay.dev[h][x]] = Size[lay.dev[h][y]]
  BY <1>1, SystemFact
<1>6. t["sys"] = sys /\ t["data"] = dg.data /\ t["arch"] = dg.arch
  BY DEF Parts
<1>7. g["sys"] = Named(sys) /\ g["data"] = Named(dg.data) /\ g["arch"] = Named(dg.arch)
  BY <1>2
<1>8. Range(dg.data) \subseteq rest /\ Range(dg.arch) \subseteq rest /\ rest \subseteq names
  BY <1>4 DEF Range
<1>9. (\E n \in Nat : dg.data \in [1..n -> names]) /\ (\E n \in Nat : dg.arch \in [1..n -> names])
  BY <1>4, <1>8
<1>10. \E n \in {0, 1, 3, 5} : DOMAIN sys = 1..n
  BY <1>5
<1>11. Range(sys) \cap Range(dg.data) = {} /\ Range(sys) \cap Range(dg.arch) = {}
  BY <1>8
<1> HIDE DEF t, rest
<1>12. ASSUME NEW p \in Parts
       PROVE  (\E n \in Nat : t[p] \in [1..n -> names]) /\ g[p] = Named(t[p]) /\ IsInjective(t[p])
  <2>1. CASE p = "sys"
    BY <2>1, <1>5, <1>6, <1>7
  <2>2. CASE p = "data"
    BY <2>2, <1>4, <1>6, <1>7, <1>9
  <2>3. CASE p = "arch"
    BY <2>3, <1>4, <1>6, <1>7, <1>9
  <2>4. QED  BY <2>1, <2>2, <2>3 DEF Parts
<1>13. ASSUME NEW p \in Parts, NEW q \in Parts, p # q
       PROVE  Range(t[p]) \cap Range(t[q]) = {}
  BY <1>4, <1>6, <1>11, <1>13 DEF Parts
<1>14. QED  BY <1>5, <1>6, <1>10, <1>12, <1>13 DEF Picked

(* Where the names come from.                                              *)
LEMMA MatchesFact ==
    ASSUME DisksShape, NEW m \in Matches
    PROVE  /\ m[1] \in Hosts /\ IsFiniteSet(m[2]) /\ m[2] \subseteq Scanned(m[1])
           /\ \/ m[2] = ByWWID(m[1])
              \/ m = <<FirstHost, ByPathAndSize>> /\ \A h \in Hosts : ByWWID(h) = {}
<1>1. PICK h \in Hosts : \/ m = <<h, ByWWID(h)>>
                         \/ /\ m = <<FirstHost, ByPathAndSize>> /\ h = FirstHost
                            /\ \A g \in Hosts : ByWWID(g) = {}
  <2> DEFINE wwid == {<<h, ByWWID(h)>> : h \in Hosts}
  <2>1. CASE \E h \in Hosts : m = <<h, ByWWID(h)>>
    BY <2>1
  <2>2. CASE \A h \in Hosts : m # <<h, ByWWID(h)>>
    <3>1. ~ \E e \in wwid : e[2] # {}
      BY <2>2 DEF Matches
    <3>2. m = <<FirstHost, ByPathAndSize>>
      BY <3>1 DEF Matches
    <3>3. ASSUME NEW g \in Hosts PROVE ByWWID(g) = {}
      <4>1. <<g, ByWWID(g)>> \in wwid
        OBVIOUS
      <4>2. <<g, ByWWID(g)>>[2] = ByWWID(g)
        OBVIOUS
      <4> HIDE DEF wwid
      <4>3. QED  BY <3>1, <4>1, <4>2
    <3>4. QED  BY <3>2, <3>3, HostsFacts
  <2>3. QED  BY <2>1, <2>2
<1>2. ByWWID(h) \subseteq Scanned(h)
  BY DEF ByWWID, NamesOf
<1>3. ByPathAndSize \subseteq Scanned(FirstHost)
  BY DEF ByPathAndSize
<1>4. IsLayout(lay)
  BY LayoutsAssumption DEF DisksShape
<1>5. \A g \in Hosts : Scanned(g) \subseteq DOMAIN lay.dev[g] /\ IsFiniteSet(DOMAIN lay.dev[g])
  BY <1>4 DEF Scanned, IsLayout
<1>6. m[1] = h /\ m[2] \subseteq Scanned(h)
  BY <1>1, <1>2, <1>3
<1>7. IsFiniteSet(m[2])
  BY <1>5, <1>6, FS_Subset
<1>8. QED  BY <1>1, <1>6, <1>7
-----------------------------------------------------------------------------
(* The groups and the policy. *)

LEMMA MeantDev ==
    ASSUME NEW h, NEW g, NEW s \in DiskSlots(g), DiskAt(g, s).in = "dev",
           DiskAt(g, s).id \in DOMAIN lay.dev[h]
    PROVE  s \in DOMAIN Meant(h, g) /\ Meant(h, g)[s] = lay.dev[h][DiskAt(g, s).id]
<1>1. View(h, "dev") = lay.dev[h]
  BY DEF View
<1>2. Exists(h, DiskAt(g, s)) /\ Lun(h, DiskAt(g, s)) = lay.dev[h][DiskAt(g, s).id]
  BY <1>1 DEF Exists, Lun
<1>3. QED  BY <1>2 DEF Meant

LEMMA OptionShape ==
    ASSUME NEW o \in Options
    PROVE  GroupsShape(o.groups)
<1>1. IsGroups(o.groups)
  BY OptionsAssumption DEF IsOption
<1> DEFINE g == o.groups
<1> HIDE DEF g
<1>2. ASSUME NEW p \in Parts, g[p] # <<>> PROVE 1 \in DOMAIN g[p]
  <2>1. g[p] \in Seq(Range(g[p]))
    BY <1>1 DEF IsGroups, g
  <2>2. QED  BY <1>2, <2>1, EmptySeq
<1>3. ASSUME NEW d \in Disks(g) PROVE d.in \in {"dev", "mapper", "yfs"}
  <2>1. PICK s \in DiskSlots(g) : d = DiskAt(g, s)
    BY DiskIs
  <2>2. PICK p \in Parts : \E i \in DOMAIN g[p] : s = <<p, i>>
    BY SlotIs
  <2>3. d \in Range(g[p])
    BY <2>1, <2>2 DEF DiskAt, Range
  <2>4. QED  BY <1>1, <2>3 DEF IsGroups, g
<1>4. QED  BY <1>2, <1>3 DEF GroupsShape, g

LEMMA PickedShape ==
    ASSUME NEW h, NEW names, NEW g, NEW t, Picked(h, names, g, t)
    PROVE  GroupsShape(g) /\ \A d \in Disks(g) : d.in = "dev"
<1>1. ASSUME NEW p \in Parts, g[p] # <<>> PROVE 1 \in DOMAIN g[p]
  <2>1. PICK n \in Nat : t[p] \in [1..n -> names] /\ g[p] = Named(t[p])
    BY DEF Picked
  <2>2. g[p] = [i \in 1..n |-> Dev(t[p][i])]
    BY <2>1 DEF Named
  <2>3. CASE n = 0
    <3>1. g[p] = <<>>
      BY <2>2, <2>3
    <3>2. QED  BY <1>1, <3>1
  <2>4. QED  BY <2>2, <2>3
<1>2. ASSUME NEW d \in Disks(g) PROVE d.in = "dev"
  <2>1. PICK s \in DiskSlots(g) : d = DiskAt(g, s)
    BY DiskIs
  <2>2. PICK p \in Parts : \E i \in DOMAIN g[p] : s = <<p, i>>
    BY SlotIs
  <2>3. PICK i \in DOMAIN g[p] : d = g[p][i]
    BY <2>1, <2>2 DEF DiskAt
  <2>4. g[p] = Named(t[p])
    BY DEF Picked
  <2>5. QED  BY <2>3, <2>4 DEF Named, Dev
<1>3. QED  BY <1>1, <1>2 DEF GroupsShape

(* The choice that a run of B-021 has made.                                *)
LEMMA Chosen ==
    ASSUME Discover, Running'
    PROVE  \/ groups' = groups /\ asked' = asked
           \/ \E m \in Matches : \E g \in Classified(m[1], m[2], opt.arch) :
                 /\ groups = NoGroups /\ g["sys"] # <<>> /\ g["data"] # <<>>
                 /\ groups' = g /\ asked' = Meant(m[1], g)
BY DEF Discover, Refuse, Running

LEMMA NamedNext ==
    DisksShape /\ Standing /\ GroupsNamed /\ AskedKnown /\ DisksNext
        => GroupsNamed' /\ AskedKnown'
<1> SUFFICES ASSUME DisksShape, Standing, GroupsNamed, AskedKnown, DisksNext, OnTheWay'
             PROVE  GroupsNamed' /\ AskedKnown'
  BY DEF GroupsNamed, AskedKnown
<1>0. ASSUME NEW g, NEW h \in Hosts, groups' = g, asked' = Meant(h, g), lay' = lay
      PROVE  AskedKnown'
  <2>1. ASSUME NEW s \in DiskSlots(g), DiskAt(g, s).in = "dev",
               DiskAt(g, s).id \in DOMAIN lay.dev[h]
        PROVE  s \in DOMAIN asked' /\ asked'[s] = lay'.dev[h][DiskAt(g, s).id]
    BY <1>0, <2>1, MeantDev
  <2>2. AskedFrom(h)'
    BY <1>0, <2>1 DEF AskedFrom
  <2>3. QED  BY <2>2 DEF AskedKnown
<1>1. CASE Start
  <2>1. opt' \in Options /\ groups' = opt'.groups /\ asked' = Meant(FirstHost, opt'.groups) /\ lay' = lay
    BY <1>1 DEF Start
  <2>2. GroupsNamed'
    <3>1. GroupsShape(groups')
      BY <2>1, OptionShape
    <3>2. QED  BY <2>1, <3>1 DEF GroupsNamed, GroupsShape
  <2>3. QED  BY <2>1, <2>2, <1>0, HostsFacts
<1>2. CASE Going
  <2>1. OnTheWay /\ lay' = lay /\ opt' = opt
    BY <1>2 DEF Going, OnTheWay
  <2>2. ASSUME groups' = groups, asked' = asked PROVE GroupsNamed' /\ AskedKnown'
    <3>1. GroupsNamed'
      BY <2>1, <2>2 DEF GroupsNamed, GroupsShape
    <3>2. AskedKnown'
      BY <2>1, <2>2 DEF AskedKnown, AskedFrom
    <3>3. QED  BY <3>1, <3>2
  <2>3. CASE Discover
    <3>1. CASE groups' = groups /\ asked' = asked
      BY <2>2, <3>1
    <3>2. CASE \E m \in Matches : \E g \in Classified(m[1], m[2], opt.arch) :
                  groups' = g /\ asked' = Meant(m[1], g)
      <4>1. PICK m \in Matches : \E g \in Classified(m[1], m[2], opt.arch) :
                  groups' = g /\ asked' = Meant(m[1], g)
        BY <3>2
      <4>2. PICK g \in Classified(m[1], m[2], opt.arch) : groups' = g /\ asked' = Meant(m[1], g)
        BY <4>1
      <4>3. m[1] \in Hosts /\ IsFiniteSet(m[2])
        BY MatchesFact
      <4>4. PICK t : Picked(m[1], m[2], g, t)
        BY <4>3, ClassifiedFact
      <4>5. GroupsShape(g) /\ \A d \in Disks(g) : d.in = "dev"
        BY <4>4, PickedShape
      <4>6. GroupsNamed'
        BY <4>2, <4>5 DEF GroupsNamed, GroupsShape
      <4>7. QED  BY <2>1, <4>2, <4>3, <4>6, <1>0
    <3>3. QED  BY <1>2, <2>3, <3>1, <3>2, Chosen DEF Going
  <2>4. CASE DiscoverAliases
    BY <2>1, <2>4 DEF DiscoverAliases, Here, Standing, OnTheWay
  <2>5. CASE CheckDisks
    <3>1. step = "check" /\ Pass
      BY <1>2, <2>5 DEF CheckDisks, Here, Going
    <3>2. step' = "deploy"
      BY <3>1 DEF Pass, Following
    <3>3. QED  BY <3>2 DEF OnTheWay
  <2>6. CASE HostStep
    <3>1. step \notin {"discover", "aliases", "check"}
      BY <2>6 DEF HostStep, Validate, CollectWwid, WriteConf, EnableMultipathd, WriteRules,
                  TriggerUdev, Look, Here
    <3>2. QED  BY <1>2, <2>2, <3>1, Writes
  <2>7. QED  BY <1>2, <2>3, <2>4, <2>5, <2>6 DEF Going
<1>3. CASE UNCHANGED disksVars
  BY <1>3 DEF disksVars, OnTheWay, Running, GroupsNamed, GroupsShape, AskedKnown, AskedFrom
<1>4. QED  BY <1>1, <1>2, <1>3, StepsOn DEF OnTheWay

(* A step that goes on and was not discovery leaves the groups alone until *)
(* C-012.                                                                  *)
LEMMA SameGroups ==
    ASSUME Going, DisksShape, Standing, OnTheWay', step # "discover"
    PROVE  OnTheWay /\ step # "check" /\ groups' = groups /\ asked' = asked
<1>1. OnTheWay /\ step # "aliases"
  BY DEF Going, OnTheWay, Standing
<1>2. step # "check"
  BY DEF Going, Pass, Following, OnTheWay
<1>3. QED  BY <1>1, <1>2, Writes

LEMMA DevExists ==
    ASSUME NEW h, ByDevice
    PROVE  /\ \A d \in Disks(groups) : Exists(h, d) <=> d.id \in DOMAIN lay.dev[h]
           /\ \A d \in Disks(groups) : Lun(h, d) = lay.dev[h][d.id] /\ ~Multipath(d)
           /\ HasAll(h) <=> \A d \in Disks(groups) : Exists(h, d)
<1>1. View(h, "dev") = lay.dev[h]
  BY DEF View
<1>2. ASSUME NEW d \in Disks(groups)
      PROVE  /\ Exists(h, d) <=> d.id \in DOMAIN lay.dev[h]
             /\ Lun(h, d) = lay.dev[h][d.id] /\ ~Multipath(d)
  BY <1>1 DEF ByDevice, Exists, Lun, Multipath
<1>3. HasAll(h) <=> \A d \in Disks(groups) : Exists(h, d)
  BY <1>2 DEF HasAll, Disks
<1>4. QED  BY <1>2, <1>3

LEMMA ValidateHere == ASSUME Going, step = "validate" PROVE Validate
BY DEF Going, HostStep, Discover, DiscoverAliases, CollectWwid, WriteConf, EnableMultipathd,
       WriteRules, TriggerUdev, Look, CheckDisks, Here

LEMMA ValidateChooses == ASSUME Going, DisksShape, policy' # policy PROVE Validate
BY Writes, ValidateHere

LEMMA WwidAfter ==
    ASSUME Pass, turn \in DOMAIN HostList, step' = "wwid"
    PROVE  step = "validate" /\ turn' = turn
BY DEF Pass, Following

LEMMA AfterWwid ==
    ASSUME Pass, step' \in Later.wwid \ {"check"}
    PROVE  /\ step \in (Later.wwid \ {"check"}) \cup {"wwid"} /\ turn' = turn
           /\ step \notin {"validate", "discover"}
<1>1. step \in DOMAIN Following /\ step' = Following[step] /\ turn' = turn
  BY DEF Pass, Later, Following
<1>2. QED  BY <1>1 DEF Following, Later

LEMMA PolicyNext ==
    DisksShape /\ Standing /\ PolicyFits /\ DisksNext => PolicyFits'
<1> SUFFICES ASSUME DisksShape, Standing, PolicyFits, DisksNext, Running' PROVE PolicyFits'
  BY DEF PolicyFits, OnTheWay, Sure
<1>1. CASE Start
  <2>1. ~policy'.need /\ step' \in {"aliases", "discover"}
    BY <1>1 DEF Start, RealDM
  <2>2. QED  BY <2>1 DEF PolicyFits, Later
<1>2. CASE Going
  <2>1. opt' = opt /\ lay' = lay /\ run' = run /\ Running
    BY <1>2 DEF Going
  <2>2. policy'.need => ~opt.skipOS
    <3>1. CASE policy' = policy
      BY <2>1, <3>1 DEF PolicyFits
    <3>2. CASE policy' # policy
      <4>1. step = "validate"
        BY <1>2, <3>2, Writes
      <4>3. QED  BY <2>1, <4>1 DEF Standing
    <3>3. QED  BY <3>1, <3>2
  <2>3. ASSUME OnTheWay', policy'.need
        PROVE  Filled' /\ \A d \in Disks(groups)' : ~Multipath(d)
    <3>1. OnTheWay
      BY <1>2, <2>1, <2>3 DEF OnTheWay, Going
    <3>2. CASE step = "discover"
      <4>1. policy = RealDM
        BY <2>1, <3>1, <3>2 DEF Standing
      <4>2. policy' = policy
        BY <1>2, <3>2, Writes
      <4>3. QED  BY <2>3, <4>1, <4>2 DEF RealDM
    <3>3. CASE step # "discover"
      <4>1. groups' = groups
        BY <1>2, <2>3, <3>3, SameGroups
      <4>2. Filled /\ \A d \in Disks(groups) : ~Multipath(d)
        <5>1. CASE policy' = policy
          BY <2>3, <3>1, <5>1 DEF PolicyFits
        <5>2. CASE policy' # policy
          <6>1. Validate
            BY <1>2, <5>2, ValidateChooses
          <6>2. QED  BY <2>3, <5>2, <6>1, PolicyChoice, KindFact
        <5>3. QED  BY <5>1, <5>2
      <4>3. QED  BY <4>1, <4>2 DEF Filled, Disks, DiskSlots, DiskAt, Multipath
    <3>4. QED  BY <3>2, <3>3
  <2>4. ASSUME Sure', Multipathed(h0)', (step = "wwid" /\ HasAll(h0))' PROVE policy'.need
    <3>1. step = "validate" /\ turn' = turn
      BY <1>2, <2>4, WwidAfter DEF Going, DisksShape
    <3>2. OnTheWay' /\ groups' = groups
      BY <1>2, <2>4, <3>1, SameGroups DEF Sure
    <3>3. h0' = h0
      BY <3>1 DEF h0
    <3>4. Validate
      BY <1>2, <3>1, ValidateHere
    <3>5. ByDevice /\ Filled /\ Multipathed(h0) /\ HasAll(h0)
      BY <2>1, <2>4, <3>2, <3>3 DEF Sure, ByDevice, Filled, Multipathed, HasAll, Disks, DiskSlots, DiskAt
    <3>6. \A d \in Disks(groups) : Exists(h0, d) /\ Kind(h0, d).need
      BY <3>5, DevExists, KindFact DEF ByDevice
    <3>7. \E d \in Disks(groups) : policy' = Kind(h0, d)
      BY <3>4, <3>5, <3>6 DEF Validate, Filled, Refuse, Running
    <3>8. QED  BY <3>6, <3>7
  <2>5. ASSUME Sure', Multipathed(h0)', step' \in Later.wwid \ {"check"} PROVE policy'.need
    <3>1. step \in (Later.wwid \ {"check"}) \cup {"wwid"} /\ turn' = turn /\ step \notin {"validate", "discover"}
      BY <1>2, <2>5, AfterWwid DEF Going, DisksShape
    <3>2. OnTheWay' /\ OnTheWay /\ groups' = groups /\ policy' = policy
      BY <1>2, <2>5, <3>1, SameGroups, Writes DEF Sure
    <3>3. h0' = h0
      BY <3>1 DEF h0
    <3>4. Sure /\ Multipathed(h0)
      BY <2>1, <2>5, <3>2, <3>3 DEF Sure, ByDevice, Filled, Multipathed, Disks, DiskSlots, DiskAt
    <3>5. CASE step = "wwid"
      <4>1. CollectWwid
        BY <1>2, <3>5 DEF Going, HostStep, Discover, DiscoverAliases, Validate, WriteConf,
              EnableMultipathd, WriteRules, TriggerUdev, Look, CheckDisks, Here
      <4>2. \A d \in Raw : Exists(h0, d)
        BY <4>1 DEF CollectWwid, Refuse, Running
      <4>3. HasAll(h0)
        BY <3>4, <4>2, DevExists DEF Raw, Sure
      <4>4. QED  BY <3>2, <3>4, <3>5, <4>3 DEF PolicyFits
    <3>6. CASE step # "wwid"
      BY <3>1, <3>2, <3>4, <3>6 DEF PolicyFits
    <3>7. QED  BY <3>5, <3>6
  <2>6. QED  BY <2>1, <2>2, <2>3, <2>4, <2>5 DEF PolicyFits
<1>3. CASE UNCHANGED disksVars
  BY <1>3 DEF disksVars, PolicyFits, Running, OnTheWay, Sure, Filled, ByDevice, Disks, DiskSlots,
              DiskAt, Multipath, Multipathed, h0, HasAll
<1>4. QED  BY <1>1, <1>2, <1>3, StepsOn
-----------------------------------------------------------------------------
(* What phase 2 leaves on the hosts. *)

LEMMA ConfWritten ==
    ASSUME Going, DisksShape, WriteConf, Sure, policy.need
    PROVE  conf'[h0] = Wanted(h0)
<1>1. h0 \in Hosts
  BY HostsFacts DEF DisksShape, h0
<1>2. conf' = [conf EXCEPT ![h0] = Entries]
  BY DEF WriteConf, Refuse, Going, Running
<1>3. Entries = Wanted(h0)
  <2>1. ByDevice /\ lay.reliable
    BY DEF Sure
  <2>2. \A s \in Aliased(groups) : DiskAt(groups, s) \in Disks(groups)
    BY DEF Aliased, Disks
  <2>3. \A s \in Aliased(groups) : ~Multipath(DiskAt(groups, s))
                /\ WWID(Lun(h0, DiskAt(groups, s))) = lay.dev[h0][DiskAt(groups, s).id]
    BY <2>1, <2>2, DevExists DEF WWID
  <2>4. QED  BY <2>3 DEF Entries, Wanted
<1>4. QED  BY <1>1, <1>2, <1>3 DEF DisksShape

LEMMA MapsFollowConf ==
    ASSUME DisksShape, Restarted(h0), conf' = conf, lay.reliable, h0' = h0, h0 \in Hosts
    PROVE  MapsFollow(h0)'
<1>1. maps'[h0] \in LiveMaps(h0)
  BY RestartedFact
<1>2. ASSUME NEW a \in DOMAIN maps'[h0], a[1] \in Parts
      PROVE  a \in DOMAIN conf[h0] /\ maps'[h0][a] = conf[h0][a]
  <2> DEFINE l == maps'[h0][a]
             named == {b \in DOMAIN conf[h0] : conf[h0][b] = WWID(l)}
  <2>1. a \in AliasesFor(h0, l)
    BY <1>1, LiveMapsFact
  <2>2. WWID(l) = l
    BY DEF WWID
  <2>3. CASE named = {}
    <3>1. a = <<"mpath", l>>
      BY <2>1, <2>3 DEF AliasesFor
    <3>2. a[1] = "mpath"
      BY <3>1
    <3>3. QED  BY <1>2, <3>2 DEF Parts
  <2>4. CASE named # {}
    <3>1. a \in named
      BY <2>1, <2>4 DEF AliasesFor
    <3>2. QED  BY <2>2, <3>1
  <2>5. QED  BY <2>3, <2>4
<1>3. QED  BY <1>2 DEF MapsFollow

LEMMA RulesWritten ==
    ASSUME Going, DisksShape, WriteRules, Sure, policy.need
    PROVE  /\ rules'[h0] = ByMap
           /\ changed' = (opt.force \/ rules[h0] # ByMap)
<1> DEFINE new == [s \in Aliased(groups) |-> RuleFor(s)]
<1>1. h0 \in Hosts
  BY HostsFacts DEF DisksShape, h0
<1>2. ~policy.wwn
  BY DEF DisksShape
<1>3. rules' = [rules EXCEPT ![h0] = new] /\ changed' = (opt.force \/ rules[h0] # new)
  BY <1>2 DEF WriteRules
<1>4. \A s \in Aliased(groups) : RuleFor(s) = [by |-> "dm", key |-> s]
  <2>1. \A s \in Aliased(groups) : DiskAt(groups, s) \in Disks(groups)
    BY DEF Aliased, Disks
  <2>2. QED  BY <1>2, <2>1, DevExists DEF RuleFor, Sure
<1>5. new = ByMap
  BY <1>4 DEF ByMap
<1>6. QED  BY <1>1, <1>3, <1>5 DEF DisksShape

LEMMA LinksFollowRules ==
    ASSUME Going, DisksShape, TriggerUdev, changed \/ opt.force, rules[h0] = ByMap, maps' = maps,
           groups' = groups, h0' = h0, h0 \in Hosts
    PROVE  LinksFollow(h0)'
<1>1. PICK f \in LiveLinks(h0, maps[h0]) : links' = [links EXCEPT ![h0] = f]
  BY DEF TriggerUdev
<1>2. links'[h0] = f
  BY <1>1 DEF DisksShape
<1>3. ASSUME NEW a \in DOMAIN f
      PROVE  a \in Aliased(groups) /\ a \in DOMAIN maps[h0] /\ f[a] = maps[h0][a]
  <2>1. a \in DOMAIN rules[h0] /\ f[a] \in Matching(h0, maps[h0], rules[h0][a])
    BY LiveLinksFact
  <2>2. a \in Aliased(groups) /\ rules[h0][a] = [by |-> "dm", key |-> a]
    BY <2>1 DEF ByMap
  <2>3. Matching(h0, maps[h0], rules[h0][a]) = IF a \in DOMAIN maps[h0] THEN {maps[h0][a]} ELSE {}
    BY <2>2 DEF Matching
  <2>4. QED  BY <2>1, <2>2, <2>3
<1>4. Aliased(groups)' = Aliased(groups)
  BY DEF Aliased, DiskSlots
<1>5. QED  BY <1>2, <1>3, <1>4 DEF LinksFollow

(* Which step of the host of the call it is.                               *)
LEMMA HereSteps ==
    ASSUME Going
    PROVE  /\ step = "wwid" => CollectWwid
           /\ step = "conf" => WriteConf
           /\ step = "multipathd" => EnableMultipathd
           /\ step = "rules" => WriteRules
           /\ step = "trigger" => TriggerUdev
BY DEF Going, HostStep, Discover, DiscoverAliases, Validate, CollectWwid, WriteConf, EnableMultipathd,
       WriteRules, TriggerUdev, Look, CheckDisks, Here

(* Nothing has been done yet at the start of phase 2.                      *)
LEMMA NothingPast ==
    ASSUME turn' = 1, step' \in {"aliases", "discover", "validate"}, NEW i \in DOMAIN HostList
    PROVE  Prepared(i)' /\ step' # "trigger"
<1>1. \A s \in DOMAIN Later : ~Past(i, s)'
  BY HostsFacts DEF Past, Later
<1>2. DOMAIN Later = {"wwid", "conf", "multipathd", "rules", "trigger"}
  BY DEF Later
<1>3. QED  BY <1>1, <1>2 DEF Prepared

LEMMA SameWanted ==
    ASSUME lay' = lay, groups' = groups, NEW h
    PROVE  /\ Wanted(h)' = Wanted(h) /\ ByMap' = ByMap /\ HasAll(h)' = HasAll(h)
           /\ conf'[h] = conf[h] /\ maps'[h] = maps[h] /\ MapsFollow(h) => MapsFollow(h)'
           /\ links'[h] = links[h] /\ maps'[h] = maps[h] /\ LinksFollow(h) => LinksFollow(h)'
BY DEF Wanted, ByMap, HasAll, MapsFollow, LinksFollow, Aliased, DiskSlots, DiskAt

(* A host that the step is not about.                                      *)
LEMMA PreparedElsewhere ==
    ASSUME Going, DisksShape, Standing, ~opt.skipOS, groups' = groups,
           NEW i \in DOMAIN HostList, Prepared(i),
           i # turn \/ step \notin DOMAIN Later, step # "discover"
    PROVE  Prepared(i)'
<1> DEFINE h == HostList[i]
<1>1. h \in Hosts /\ lay' = lay
  BY HostsFacts DEF Going
<1>2. conf'[h] = conf[h] /\ maps'[h] = maps[h] /\ rules'[h] = rules[h] /\ links'[h] = links[h]
  <2>1. CASE i # turn
    BY <2>1, HereIsTurn, Writes DEF DisksShape
  <2>2. CASE step \notin DOMAIN Later
    <3>1. step \notin {"conf", "multipathd", "rules", "trigger"}
      BY <2>2 DEF Later
    <3>2. QED  BY <3>1, Writes
  <2>3. QED  BY <2>1, <2>2
<1>3. \A s \in DOMAIN Later : Past(i, s)' => Past(i, s)
  BY GoingMoves
<1>4. DOMAIN Later = {"wwid", "conf", "multipathd", "rules", "trigger"}
  BY DEF Later
<1> HIDE DEF h
<1>5. QED  BY <1>1, <1>2, <1>3, <1>4, SameWanted DEF Prepared, h

(* The host of the call.                                                   *)
LEMMA PreparedHere ==
    ASSUME Going, DisksShape, Standing, FirstRun, PolicyFits, HostsPrepared, Sure,
           groups' = groups, Multipathed(h0), step \in DOMAIN Later
    PROVE  Prepared(turn)'
<1>1. /\ lay' = lay /\ OnTheWay /\ ~opt.skipOS /\ lay.reliable /\ ByDevice /\ turn' = turn
      /\ run = 1 \/ opt.force
  BY PassWhere DEF Going, Sure, OnTheWay, DisksShape
<1>2. h0 \in Hosts /\ h0' = h0 /\ h0 = HostList[turn]
  BY <1>1, HostsFacts DEF DisksShape, h0
<1>3. Prepared(turn)
  BY <1>2 DEF HostsPrepared, DisksShape
<1>4. DOMAIN Later = {"wwid", "conf", "multipathd", "rules", "trigger"}
  BY DEF Later
<1>5. \A s \in DOMAIN Later : Past(turn, s) <=> step \in Later[s]
  BY HostsFacts DEF Past, DisksShape
<1>6. \A s \in DOMAIN Later : Past(turn, s)' <=> step \in Later[s] \/ step = s
  BY <1>1, <1>5, HostsFacts, PassWhere DEF Going, Past, DisksShape, Later, Following
<1>7. step # "wwid" => policy.need
  <2>1. step # "wwid" => step \in Later.wwid \ {"check"}
    BY <1>4 DEF Later
  <2>2. QED  BY <2>1 DEF PolicyFits
<1>8. step = "wwid" => HasAll(h0)
  <2>1. ASSUME step = "wwid" PROVE \A d \in Raw : Exists(h0, d)
    BY <2>1, HereSteps DEF CollectWwid, Refuse, Going, Running
  <2>2. QED  BY <1>1, <2>1, DevExists DEF Raw
<1>9. HasAll(h0)'
  <2>1. HasAll(h0)
    <3>1. step # "wwid" => step \in Later["wwid"]
      BY <1>4 DEF Later
    <3>2. QED  BY <1>2, <1>3, <1>4, <1>5, <1>8, <3>1 DEF Prepared
  <2>2. QED  BY <1>1, <1>2, <2>1, SameWanted
<1>10. Past(turn, "conf")' => conf'[h0] = Wanted(h0)'
  <2>1. CASE step = "conf"
    BY <1>1, <1>2, <1>7, <2>1, ConfWritten, HereSteps, SameWanted
  <2>2. CASE step # "conf"
    BY <1>1, <1>2, <1>3, <1>4, <1>5, <1>6, <2>2, Writes, SameWanted DEF Prepared
  <2>3. QED  BY <2>1, <2>2
<1>11. Past(turn, "multipathd")' => MapsFollow(h0)'
  <2>1. CASE step = "multipathd"
    <3>1. h0 \notin daemon \/ opt.force
      <4>1. ~Past(turn, "multipathd")
        BY <1>4, <1>5, <2>1 DEF Later
      <4>2. QED  BY <1>1, <1>2, <4>1 DEF FirstRun, DisksShape
    <3>2. Restarted(h0)
      BY <2>1, <3>1, HereSteps DEF EnableMultipathd
    <3>3. conf' = conf
      BY <2>1, Writes
    <3>4. QED  BY <1>1, <1>2, <3>2, <3>3, MapsFollowConf
  <2>2. CASE step # "multipathd"
    <3>1. ASSUME Past(turn, "multipathd")' PROVE Past(turn, "multipathd") /\ step # "conf"
      BY <1>4, <1>5, <1>6, <2>2, <3>1 DEF Later
    <3>2. Past(turn, "multipathd") => MapsFollow(h0)
      BY <1>2, <1>3 DEF Prepared
    <3>3. QED  BY <1>1, <1>2, <2>2, <3>1, <3>2, Writes, SameWanted
  <2>3. QED  BY <2>1, <2>2
<1>12. Past(turn, "rules")' => rules'[h0] = ByMap'
  <2>1. CASE step = "rules"
    BY <1>1, <1>2, <1>7, <2>1, RulesWritten, HereSteps, SameWanted
  <2>2. CASE step # "rules"
    BY <1>1, <1>2, <1>3, <1>4, <1>5, <1>6, <2>2, Writes, SameWanted DEF Prepared
  <2>3. QED  BY <2>1, <2>2
<1>13. Past(turn, "trigger")' => LinksFollow(h0)'
  <2>1. CASE step = "trigger"
    <3>1. changed \/ opt.force
      BY <2>1 DEF HostsPrepared
    <3>2. rules[h0] = ByMap
      BY <1>2, <1>3, <1>4, <1>5, <2>1 DEF Prepared, Later
    <3>3. TriggerUdev /\ maps' = maps
      BY <2>1, HereSteps, Writes
    <3>4. QED  BY <1>2, <3>1, <3>2, <3>3, LinksFollowRules
  <2>2. CASE step # "trigger"
    <3>1. ~Past(turn, "trigger")'
      BY <1>4, <1>6, <2>2 DEF Later
    <3>2. QED  BY <3>1
  <2>3. QED  BY <2>1, <2>2
<1>14. HostList[turn]' = h0' /\ h0' = h0
  BY <1>2 DEF h0
<1>15. QED  BY <1>9, <1>10, <1>11, <1>12, <1>13, <1>14 DEF Prepared

(* The rules that the first run, or -F, writes are put into effect.        *)
LEMMA RulesTriggered ==
    ASSUME Going, DisksShape, Standing, FirstRun, GroupsNamed, PolicyFits, Sure, Multipathed(h0),
           step = "rules"
    PROVE  changed' \/ opt.force
<1>1. policy.need
  BY DEF PolicyFits, Later
<1>2. WriteRules
  BY HereSteps
<1>3. changed' = (opt.force \/ rules[h0] # ByMap)
  BY <1>1, <1>2, RulesWritten
<1>4. ByMap # Nothing
  <2>1. <<"sys", 1>> \in Aliased(groups)
    BY SomeAlias DEF Sure, GroupsNamed, Filled
  <2>2. <<"sys", 1>> \in DOMAIN ByMap
    BY <2>1 DEF ByMap
  <2>3. DOMAIN Nothing = {}
    BY DEF Nothing
  <2>4. QED  BY <2>2, <2>3
<1>5. CASE run = 1
  <2>1. ~Past(turn, "rules")
    BY HostsFacts DEF Past, Later, DisksShape
  <2>2. rules[h0] = Nothing
    BY <1>5, <2>1 DEF FirstRun, Sure, DisksShape, h0
  <2>3. QED  BY <1>3, <1>4, <2>2
<1>6. CASE opt.force
  BY <1>6
<1>7. QED  BY <1>5, <1>6 DEF Sure

LEMMA PreparedNext ==
    /\ DisksShape /\ Standing /\ FirstRun /\ GroupsNamed /\ PolicyFits /\ HostsPrepared
    /\ DisksNext
    => HostsPrepared'
<1> SUFFICES ASSUME DisksShape, Standing, FirstRun, GroupsNamed, PolicyFits, HostsPrepared,
                    DisksNext, Sure'
             PROVE  HostsPrepared'
  BY DEF HostsPrepared
<1>1. CASE Start
  <2>1. turn' = 1 /\ step' \in {"aliases", "discover"}
    BY <1>1 DEF Start
  <2>2. QED  BY <2>1, NothingPast DEF HostsPrepared
<1>2. CASE Going
  <2>1. /\ OnTheWay /\ OnTheWay' /\ opt' = opt /\ lay' = lay /\ run' = run /\ ~opt.skipOS
    BY <1>2 DEF Going, Sure, OnTheWay
  <2>2. CASE step = "discover"
    <3>1. turn' = 1 /\ step' = "validate"
      BY <1>2, <2>1, <2>2 DEF Going, Standing, OnTheWay, Pass, Following
    <3>2. QED  BY <3>1, NothingPast DEF HostsPrepared
  <2>3. CASE step # "discover"
    <3>1. groups' = groups
      BY <1>2, <2>1, <2>3, SameGroups
    <3>2. Sure
      BY <2>1, <3>1 DEF Sure, ByDevice, Filled, Disks, DiskSlots, DiskAt
    <3>3. ASSUME NEW i \in DOMAIN HostList, Multipathed(HostList[i])' PROVE Prepared(i)'
      <4>1. Multipathed(HostList[i])
        BY <2>1, <3>3 DEF Multipathed
      <4>2. Prepared(i)
        BY <3>2, <4>1 DEF HostsPrepared
      <4>3. CASE i = turn /\ step \in DOMAIN Later
        <5>1. Multipathed(h0)
          BY <4>1, <4>3 DEF h0
        <5>2. turn' = turn
          BY <1>2, <4>3, PassWhere DEF Going, DisksShape
        <5>3. Prepared(turn)'
          BY <1>2, <3>1, <3>2, <4>3, <5>1, PreparedHere
        <5>4. QED  BY <4>3, <5>2, <5>3 DEF Prepared, Past
      <4>4. CASE i # turn \/ step \notin DOMAIN Later
        BY <1>2, <2>1, <2>3, <3>1, <4>2, <4>4, PreparedElsewhere
      <4>5. QED  BY <4>3, <4>4
    <3>4. ASSUME step' = "trigger", Multipathed(h0)' PROVE changed' \/ opt'.force
      <4>1. step = "rules" /\ turn' = turn
        BY <1>2, <3>4 DEF Going, Pass, Following
      <4>2. Multipathed(h0)
        BY <2>1, <3>4, <4>1 DEF Multipathed, h0
      <4>3. QED  BY <1>2, <2>1, <3>2, <4>1, <4>2, RulesTriggered
    <3>5. QED  BY <3>3, <3>4 DEF HostsPrepared
  <2>4. QED  BY <2>2, <2>3
<1>3. CASE UNCHANGED disksVars
  BY <1>3 DEF disksVars, host, HostsPrepared, Sure, OnTheWay, Running, ByDevice, Filled, Disks,
     DiskSlots, DiskAt, Multipathed, h0, Prepared, Past, HasAll, Wanted, MapsFollow, ByMap,
     LinksFollow, Aliased
<1>4. QED  BY <1>1, <1>2, <1>3, StepsOn DEF Sure, OnTheWay
-----------------------------------------------------------------------------
(* What C-012 lets pass. *)

LEMMA PastAll ==
    ASSUME DisksShape, Standing, OnTheWay, step = "check", HostsPrepared, Sure,
           NEW h \in Hosts, Multipathed(h)
    PROVE  HasAll(h) /\ conf[h] = Wanted(h) /\ MapsFollow(h) /\ LinksFollow(h)
<1>1. PICK i \in DOMAIN HostList : h = HostList[i]
  BY HostsFacts
<1>2. turn = Len(HostList)
  BY DEF Standing, OnTheWay
<1>3. \A s \in {"wwid", "conf", "multipathd", "rules", "trigger"} : Past(i, s)
  BY <1>2, HostsFacts DEF Past, Later
<1>4. Prepared(i)
  BY <1>1 DEF HostsPrepared
<1>5. QED  BY <1>1, <1>3, <1>4 DEF Prepared

LEMMA MapperFields == \A a : Mapper(a).in = "mapper" /\ Mapper(a).id = a
BY DEF Mapper

(* What a disk that the hosts agree on is.                                 *)
LEMMA AgreedFact ==
    ASSUME NEW d \in Disks(groups), Agreed(d), ByDevice, lay.reliable
    PROVE  /\ \A h \in Hosts : MapsOf(h, d) # {}
           /\ \A g, h \in Hosts : MapsOf(g, d) = MapsOf(h, d) /\ lay.dev[g][d.id] = lay.dev[h][d.id]
           /\ \A h \in Hosts : \A m \in MapsOf(h, d) :
                 \E a \in DOMAIN maps[h] : m = Mapper(a) /\ maps[h][a] = lay.dev[h][d.id]
<1>1. \A h \in Hosts : Lun(h, d) = lay.dev[h][d.id] /\ ~Multipath(d)
  BY DevExists
<1>2. \A l : WWID(l) = l
  BY DEF WWID
<1>3. \A g, h \in Hosts : MapsOf(g, d) = MapsOf(h, d) /\ lay.dev[g][d.id] = lay.dev[h][d.id]
  BY <1>1, <1>2, HostsFacts DEF Agreed
<1>4. \A h \in Hosts : \A m \in MapsOf(h, d) :
          \E a \in DOMAIN maps[h] : m = Mapper(a) /\ maps[h][a] = lay.dev[h][d.id]
  BY <1>1, <1>2 DEF MapsOf
<1>5. \A h \in Hosts : MapsOf(h, d) # {}
  BY DEF Agreed
<1>6. QED  BY <1>3, <1>4, <1>5

(* An alias below /dev/yfs or a multipath device of the disk asked for.    *)
LEMMA NameIsRight ==
    ASSUME DisksShape, MapsLive, Sure, NEW d \in Disks(groups), Agreed(d),
           \A h \in Hosts : HasAll(h) /\ conf[h] = Wanted(h) /\ MapsFollow(h) /\ LinksFollow(h),
           NEW s \in DiskSlots(groups), d = DiskAt(groups, s),
           NEW e, e = IF s \in DOMAIN links[FirstHost] THEN Yfs(s)
                      ELSE MapOf(d),
           \A h \in Hosts : Exists(h, e)
    PROVE  /\ \A h \in Hosts : Lun(h, e) = lay.dev[FirstHost][d.id]
           /\ lay.dev[FirstHost][d.id] \notin lay.busy
<1>0. ByDevice /\ lay.reliable /\ FirstHost \in Hosts
  BY HostsFacts DEF Sure
<1>1. \A g, h \in Hosts : MapsOf(g, d) = MapsOf(h, d) /\ lay.dev[g][d.id] = lay.dev[h][d.id]
  BY <1>0, AgreedFact
<1>2. CASE s \in DOMAIN links[FirstHost]
  <2>1. e = Yfs(s) /\ e.in = "yfs" /\ e.id = s
    BY <1>2 DEF Yfs
  <2>2. \A h \in Hosts : s \in DOMAIN links[h] /\ Lun(h, e) = links[h][s]
    BY <2>1 DEF Exists, View, Lun
  <2>3. s[1] \in Parts
    BY SlotIs
  <2>4. \A h \in Hosts : s \in Aliased(groups) /\ s \in DOMAIN maps[h] /\ links[h][s] = maps[h][s]
    BY <2>2 DEF LinksFollow
  <2>5. \A h \in Hosts : maps[h][s] = conf[h][s]
    BY <2>3, <2>4 DEF MapsFollow
  <2>6. \A h \in Hosts : conf[h][s] = lay.dev[h][d.id]
    BY <2>4 DEF Wanted
  <2>7. \A h \in Hosts : Lun(h, e) = lay.dev[FirstHost][d.id]
    BY <1>0, <1>1, <2>2, <2>4, <2>5, <2>6
  <2>8. lay.dev[FirstHost][d.id] \in Mappable(FirstHost)
    BY <1>0, <2>4, <2>5, <2>6 DEF MapsLive
  <2>9. QED  BY <2>7, <2>8 DEF Mappable
<1>3. CASE s \notin DOMAIN links[FirstHost]
  <2>1. e \in MapsOf(FirstHost, d)
    BY <1>0, <1>3, AgreedFact DEF MapOf
  <2>2. \A h \in Hosts : e \in MapsOf(h, d)
    BY <1>0, <1>1, <2>1
  <2>3. PICK a : e = Mapper(a)
    BY <1>0, <2>1, AgreedFact
  <2>4. e.in = "mapper" /\ e.id = a
    BY <2>3, MapperFields, Zenon
  <2>5. \A h \in Hosts : a \in DOMAIN maps[h] /\ maps[h][a] = lay.dev[h][d.id]
    <3>1. ASSUME NEW h \in Hosts PROVE a \in DOMAIN maps[h] /\ maps[h][a] = lay.dev[h][d.id]
      <4>1. PICK b \in DOMAIN maps[h] : e = Mapper(b) /\ maps[h][b] = lay.dev[h][d.id]
        BY <1>0, <2>2, AgreedFact
      <4>2. b = a
        <5>1. Mapper(b).id = b /\ Mapper(b) = e
          BY <4>1, MapperFields
        <5>2. QED  BY <2>4, <5>1, Zenon
      <4>3. QED  BY <4>1, <4>2
    <3>2. QED  BY <3>1
  <2>6. \A h \in Hosts : Lun(h, e) = maps[h][a]
    BY <2>4 DEF Lun, View
  <2>7. \A h \in Hosts : Lun(h, e) = lay.dev[FirstHost][d.id]
    BY <1>0, <1>1, <2>5, <2>6
  <2>8. lay.dev[FirstHost][d.id] \in Mappable(FirstHost)
    BY <1>0, <2>5 DEF MapsLive
  <2>9. QED  BY <2>7, <2>8 DEF Mappable
<1>4. QED  BY <1>2, <1>3

(* The groups after C-012 under the multipath policy.                      *)
LEMMA Normalized ==
    ASSUME policy.need
    PROVE  LET g == ToYfs(ToMapper(groups))
           IN  /\ DiskSlots(g) = DiskSlots(groups)
               /\ \A s \in DiskSlots(g) :
                     DiskAt(g, s) = IF s \in DOMAIN links[FirstHost] THEN Yfs(s)
                                    ELSE MapOf(DiskAt(groups, s))
<1> DEFINE mapped == ToMapper(groups)
           g == ToYfs(mapped)
<1>1. \A p \in Parts : /\ DOMAIN mapped[p] = DOMAIN groups[p]
                       /\ \A i \in DOMAIN groups[p] :
                             mapped[p][i] = MapOf(groups[p][i])
  BY DEF ToMapper
<1> HIDE DEF mapped
<1>2. \A p \in Parts : /\ DOMAIN g[p] = DOMAIN mapped[p]
                       /\ \A i \in DOMAIN mapped[p] :
                             g[p][i] = IF <<p, i>> \in DOMAIN links[FirstHost] THEN Yfs(<<p, i>>)
                                       ELSE mapped[p][i]
  BY DEF ToYfs
<1> HIDE DEF g
<1>3. \A p \in Parts : {<<p, i>> : i \in DOMAIN g[p]} = {<<p, i>> : i \in DOMAIN groups[p]}
  BY <1>1, <1>2
<1>4. DiskSlots(g) = DiskSlots(groups)
  BY <1>3 DEF DiskSlots
<1>5. ASSUME NEW s \in DiskSlots(g)
      PROVE  DiskAt(g, s) = IF s \in DOMAIN links[FirstHost] THEN Yfs(s)
                            ELSE MapOf(DiskAt(groups, s))
  <2>1. PICK p \in Parts : \E i \in DOMAIN g[p] : s = <<p, i>>
    BY SlotIs
  <2>2. PICK i \in DOMAIN g[p] : s = <<p, i>>
    BY <2>1
  <2>3. DiskAt(g, s) = g[p][i] /\ DiskAt(groups, s) = groups[p][i]
    BY <2>2 DEF DiskAt
  <2>4. QED  BY <1>1, <1>2, <2>2, <2>3
<1>6. QED  BY <1>4, <1>5 DEF g, mapped

LEMMA CheckPasses ==
    ASSUME CheckDisks, Going, DisksShape, Standing, GroupsNamed, PolicyFits, policy.need
    PROVE  /\ step = "check" /\ OnTheWay /\ Filled
           /\ \A d \in Disks(groups) : Agreed(d)
           /\ groups' = ToYfs(ToMapper(groups))
           /\ \A h \in Hosts, d \in Disks(ToYfs(ToMapper(groups))) : Exists(h, d)
           /\ UNCHANGED <<lay, maps, links, asked, policy>>
<1>1. step = "check" /\ Running /\ UNCHANGED <<lay, maps, links, asked, policy>>
  BY DEF CheckDisks, Here, Frame, host
<1>2. OnTheWay /\ Filled
  BY <1>1 DEF PolicyFits, OnTheWay
<1>3. /\ \A d \in Disks(groups) : Agreed(d)
      /\ groups' = ToYfs(ToMapper(groups))
      /\ \A h \in Hosts, d \in Disks(ToYfs(ToMapper(groups))) : Exists(h, d)
  BY <1>2 DEF CheckDisks, Filled, Refuse, Going, Running
<1>4. QED  BY <1>1, <1>2, <1>3

LEMMA CheckedIsSound ==
    ASSUME CheckDisks, Going, DisksShape, Standing, GroupsNamed, AskedKnown, PolicyFits, MapsLive,
           HostsPrepared, policy.need, run = 1 \/ opt.force, lay.reliable,
           \A d \in Disks(opt.groups) : d.in # "yfs"
    PROVE  \A s \in DiskSlots(groups)' :
              /\ s \in DOMAIN asked
              /\ \A h \in Hosts : Exists(h, DiskAt(groups', s)) /\ Lun(h, DiskAt(groups', s)) = asked[s]
              /\ asked[s] \notin lay.busy
<1> DEFINE g == ToYfs(ToMapper(groups))
<1>1. /\ step = "check" /\ OnTheWay /\ Filled
      /\ \A d \in Disks(groups) : Agreed(d)
      /\ groups' = g
      /\ \A h \in Hosts, d \in Disks(g) : Exists(h, d)
  BY CheckPasses
<1>2. ByDevice
  <2>1. \A d \in Disks(groups) : d.in \in {"dev", "mapper", "yfs"} /\ d.in # "yfs" /\ d.in # "mapper"
    BY <1>1 DEF GroupsNamed, GroupsShape, PolicyFits, Multipath
  <2>2. QED  BY <2>1 DEF ByDevice
<1>3. Sure
  BY <1>1, <1>2 DEF Sure
<1>4. \A h \in Hosts : Multipathed(h)
  <2>1. <<"sys", 1>> \in DiskSlots(groups)
    BY <1>1, SomeAlias DEF Filled, GroupsNamed
  <2>2. PICK d \in Disks(groups) : TRUE
    BY <2>1, SlotIs
  <2>3. ASSUME NEW h \in Hosts PROVE Multipathed(h)
    <3>1. \E a \in DOMAIN maps[h] : TRUE
      BY <1>1, <1>2, AgreedFact
    <3>2. Mappable(h) # {}
      BY <3>1 DEF MapsLive
    <3>3. QED  BY <3>2 DEF Mappable, Multipathed
  <2>4. QED  BY <2>3
<1>5. \A h \in Hosts : HasAll(h) /\ conf[h] = Wanted(h) /\ MapsFollow(h) /\ LinksFollow(h)
  BY <1>1, <1>3, <1>4, PastAll
<1>6. /\ DiskSlots(g) = DiskSlots(groups)
      /\ \A s \in DiskSlots(g) :
            DiskAt(g, s) = IF s \in DOMAIN links[FirstHost] THEN Yfs(s)
                           ELSE MapOf(DiskAt(groups, s))
  BY Normalized
<1> HIDE DEF g
<1>7. ASSUME NEW s \in DiskSlots(g)
      PROVE  /\ s \in DOMAIN asked
             /\ \A h \in Hosts : Exists(h, DiskAt(g, s)) /\ Lun(h, DiskAt(g, s)) = asked[s]
             /\ asked[s] \notin lay.busy
  <2> DEFINE d == DiskAt(groups, s)
             e == DiskAt(g, s)
  <2>1. d \in Disks(groups) /\ s \in DiskSlots(groups) /\ e \in Disks(g)
    BY <1>6, SlotIs
  <2>2. PICK k \in Hosts : AskedFrom(k)
    BY <1>1 DEF AskedKnown
  <2>3. s \in DOMAIN asked /\ asked[s] = lay.dev[k][d.id]
    BY <1>2, <1>5, <2>1, <2>2 DEF AskedFrom, HasAll, ByDevice
  <2>4. lay.dev[k][d.id] = lay.dev[FirstHost][d.id]
    BY <1>1, <1>2, <2>1, AgreedFact, HostsFacts
  <2>5. e = IF s \in DOMAIN links[FirstHost] THEN Yfs(s)
            ELSE MapOf(d)
    BY <1>6
  <2>6. Agreed(d) /\ \A h \in Hosts : Exists(h, e)
    BY <1>1, <2>1
  <2> HIDE DEF d, e
  <2>7. /\ \A h \in Hosts : Lun(h, e) = lay.dev[FirstHost][d.id]
        /\ lay.dev[FirstHost][d.id] \notin lay.busy
    BY <1>3, <1>5, <2>1, <2>5, <2>6, NameIsRight DEF d
  <2>8. QED  BY <2>3, <2>4, <2>6, <2>7 DEF e
<1>8. DiskSlots(groups)' = DiskSlots(g)
  BY <1>1 DEF DiskSlots
<1>9. QED  BY <1>1, <1>7, <1>8

LEMMA SoundSame == DeploymentIsSound /\ UNCHANGED disksVars => DeploymentIsSound'
<1> SUFFICES ASSUME DeploymentIsSound, UNCHANGED disksVars,
                    Deploying', policy'.need, run' = 1 \/ opt'.force, lay'.reliable,
                    \A d \in Disks(opt'.groups) : d.in # "yfs",
                    NEW s \in DiskSlots(groups)'
             PROVE  /\ IsAsked(s)' /\ SameEverywhere(Deployed(s))'
                    /\ Lun(FirstHost, Deployed(s))' \notin lay'.busy
  BY DEF DeploymentIsSound
<1>1. UNCHANGED <<lay, maps, links, groups, policy, asked, opt, run, step, exitStatus>>
  BY DEF disksVars, host
<1>2. Deploying /\ s \in DiskSlots(groups)
  BY <1>1 DEF Deploying, Here, Running, DiskSlots
<1>3. IsAsked(s) /\ SameEverywhere(Deployed(s)) /\ Lun(FirstHost, Deployed(s)) \notin lay.busy
  BY <1>1, <1>2 DEF DeploymentIsSound
<1>4. IsAsked(s)'
  BY <1>1, <1>3 DEF IsAsked, Deployed, DiskAt, Lun, View
<1>5. SameEverywhere(Deployed(s))'
  BY <1>1, <1>3 DEF SameEverywhere, Deployed, DiskAt, Exists, Lun, View
<1>6. Lun(FirstHost, Deployed(s))' \notin lay'.busy
  BY <1>1, <1>3 DEF Deployed, DiskAt, Lun, View
<1>7. QED  BY <1>4, <1>5, <1>6

LEMMA SoundNext ==
    /\ DisksShape /\ Standing /\ GroupsNamed /\ AskedKnown /\ PolicyFits /\ MapsLive
    /\ HostsPrepared /\ DeploymentIsSound /\ DisksNext
    => DeploymentIsSound'
<1> SUFFICES ASSUME DisksShape, Standing, GroupsNamed, AskedKnown, PolicyFits, MapsLive,
                    HostsPrepared, DeploymentIsSound, DisksNext,
                    Deploying', policy'.need, run' = 1 \/ opt'.force, lay'.reliable,
                    \A d \in Disks(opt'.groups) : d.in # "yfs"
             PROVE  \A s \in DiskSlots(groups)' :
                       /\ IsAsked(s)' /\ SameEverywhere(Deployed(s))'
                       /\ Lun(FirstHost, Deployed(s))' \notin lay'.busy
  BY DEF DeploymentIsSound
<1>0. Running' /\ step' = "deploy"
  BY DEF Deploying, Here
<1>1. CASE Start
  BY <1>0, <1>1 DEF Start
<1>2. CASE Going
  <2>1. step = "check"
    BY <1>0, <1>2, PassWhere DEF Going, DisksShape
  <2>2. CheckDisks /\ lay' = lay /\ opt' = opt /\ run' = run
    BY <1>2, <2>1 DEF Going, HostStep, Discover, DiscoverAliases, Validate, CollectWwid, WriteConf,
          EnableMultipathd, WriteRules, TriggerUdev, Look, Here
  <2>3. policy' = policy
    BY <1>2, <2>1, Writes
  <2>4. UNCHANGED <<maps, links, asked>>
    BY <1>2, <2>2, <2>3, CheckPasses
  <2>5. \A s \in DiskSlots(groups)' :
              /\ s \in DOMAIN asked
              /\ \A h \in Hosts : Exists(h, DiskAt(groups', s)) /\ Lun(h, DiskAt(groups', s)) = asked[s]
              /\ asked[s] \notin lay.busy
    BY <1>2, <2>2, <2>3, CheckedIsSound
  <2>6. ASSUME NEW s \in DiskSlots(groups)'
        PROVE  /\ IsAsked(s)' /\ SameEverywhere(Deployed(s))'
               /\ Lun(FirstHost, Deployed(s))' \notin lay'.busy
    <3>1. PICK e : e = DiskAt(groups', s)
      OBVIOUS
    <3>2. /\ s \in DOMAIN asked /\ asked[s] \notin lay.busy
          /\ \A h \in Hosts : Exists(h, e) /\ Lun(h, e) = asked[s]
      BY <2>5, <3>1
    <3>3. \A h \in Hosts : Exists(h, e)' /\ Lun(h, e)' = asked[s]
      BY <2>2, <2>4, <3>2 DEF Exists, Lun, View
    <3>4. Deployed(s)' = e
      BY <3>1 DEF Deployed, DiskAt
    <3>5. \A h \in Hosts : Exists(h, Deployed(s))' /\ Lun(h, Deployed(s))' = asked[s]
      BY <3>3, <3>4 DEF Exists, Lun, View
    <3>6. QED  BY <2>2, <2>4, <3>2, <3>5, HostsFacts DEF IsAsked, SameEverywhere
  <2>7. QED  BY <2>6
<1>3. CASE UNCHANGED disksVars
  <2>1. DeploymentIsSound'
    BY <1>3, SoundSame
  <2>2. QED  BY <2>1 DEF DeploymentIsSound
<1>4. QED  BY <1>0, <1>1, <1>2, <1>3, StepsOn
-----------------------------------------------------------------------------
(* What discovery finds. *)

LEMMA SlotsCounted ==
    ASSUME NEW n \in Nat
    PROVE  Cardinality({<<"sys", i>> : i \in 1..n}) = n
<1> DEFINE S == {<<"sys", i>> : i \in 1..n}
           f == [i \in 1..n |-> <<"sys", i>>]
<1>1. f \in [1..n -> S]
  OBVIOUS
<1>2. \A i, j \in 1..n : f[i] = f[j] => i = j
  OBVIOUS
<1>3. \A s \in S : \E i \in 1..n : f[i] = s
  OBVIOUS
<1>4. f \in Injection(1..n, S) /\ f \in Surjection(1..n, S)
  BY <1>1, <1>2, <1>3 DEF Injection, Surjection, IsInjective
<1>5. ExistsBijection(1..n, S)
  BY <1>4 DEF ExistsBijection, Bijection
<1>6. IsFiniteSet(1..n) /\ Cardinality(1..n) = n
  BY FS_Interval
<1> HIDE DEF S, f
<1>7. QED  BY <1>5, <1>6, FS_Bijection DEF S

(* Where each disk has a WWID and a name of its own, the WWIDs decide as   *)
(* soon as the hosts share a disk, and what they match is shared.          *)
Trusted == lay.reliable /\ \A h \in Hosts : IsInjective(lay.dev[h])
LEMMA TrustedNames ==
    ASSUME Trusted, NEW h \in Hosts, NEW w \in SeenByAll
    PROVE  Cardinality(NamesOf(h, w)) = 1 /\ NamesOf(h, w) # {}
<1>1. NamesOf(h, w) # {}
  BY DEF SeenByAll
<1>2. PICK n \in NamesOf(h, w) : TRUE
  BY <1>1
<1>3. \A k \in NamesOf(h, w) : k = n
  BY <1>2 DEF NamesOf, Scanned, WWID, Trusted, IsInjective
<1>4. NamesOf(h, w) = {n}
  BY <1>2, <1>3
<1>5. QED  BY <1>1, <1>4, FS_Singleton

LEMMA TrustedSizes ==
    ASSUME Trusted, NEW w \in SeenByAll
    PROVE  Cardinality(SizesOf(w)) = 1
<1>1. \A h \in Hosts : \A n \in NamesOf(h, w) : lay.dev[h][n] = w
  BY DEF NamesOf, WWID, Trusted
<1>2. \A h \in Hosts : {Size[lay.dev[h][n]] : n \in NamesOf(h, w)} = {Size[w]}
  BY <1>1, TrustedNames
<1>3. SizesOf(w) = {Size[w]}
  <2>1. \A z : z \in SizesOf(w) <=> \E h \in Hosts : z \in {Size[lay.dev[h][n]] : n \in NamesOf(h, w)}
    BY DEF SizesOf
  <2>2. ASSUME NEW z \in SizesOf(w) PROVE z = Size[w]
    BY <1>2, <2>1
  <2>3. Size[w] \in SizesOf(w)
    <3>1. FirstHost \in Hosts
      BY HostsFacts
    <3>2. Size[w] \in {Size[lay.dev[FirstHost][n]] : n \in NamesOf(FirstHost, w)}
      BY <1>2, <3>1
    <3>3. QED  BY <2>1, <3>1, <3>2
  <2>4. QED  BY <2>2, <2>3
<1>4. QED  BY <1>3, FS_Singleton

LEMMA TrustedMatches ==
    ASSUME Trusted, NEW h \in Hosts
    PROVE  /\ ByWWID(h) = UNION {NamesOf(h, w) : w \in SeenByAll}
           /\ SeenByAll # {} => ByWWID(h) # {}
           /\ \A n \in ByWWID(h) : /\ n \in DOMAIN lay.dev[h]
                                   /\ lay.dev[h][n] \notin lay.busy
                                   /\ \A g \in Hosts : lay.dev[h][n] \in Range(lay.dev[g])
<1>1. \A w \in SeenByAll : \A g \in Hosts : Cardinality(NamesOf(g, w)) = 1
  BY TrustedNames
<1>2. {v \in SeenByAll : Cardinality(SizesOf(v)) = 1} = SeenByAll
  BY TrustedSizes
<1>3. ByWWID(h) = UNION {NamesOf(h, w) : w \in SeenByAll}
  BY <1>1, <1>2 DEF ByWWID
<1>4. ASSUME SeenByAll # {} PROVE ByWWID(h) # {}
  <2>1. PICK w \in SeenByAll : TRUE
    BY <1>4
  <2>2. PICK n \in NamesOf(h, w) : TRUE
    BY <2>1, TrustedNames
  <2>3. QED  BY <1>3, <2>1, <2>2
<1>5. ASSUME NEW n \in ByWWID(h)
      PROVE  /\ n \in DOMAIN lay.dev[h]
             /\ lay.dev[h][n] \notin lay.busy
             /\ \A g \in Hosts : lay.dev[h][n] \in Range(lay.dev[g])
  <2>1. PICK w \in SeenByAll : n \in NamesOf(h, w)
    BY <1>3
  <2>2. \A l : WWID(l) = l
    BY DEF WWID, Trusted
  <2>3. n \in Scanned(h) /\ lay.dev[h][n] = w
    BY <2>1, <2>2 DEF NamesOf
  <2>4. ASSUME NEW g \in Hosts PROVE w \in Range(lay.dev[g])
    <3>1. PICK k \in NamesOf(g, w) : TRUE
      BY <2>1, TrustedNames
    <3>2. k \in DOMAIN lay.dev[g] /\ lay.dev[g][k] = w
      BY <2>2, <3>1 DEF NamesOf, Scanned
    <3>3. QED  BY <3>2 DEF Range
  <2>5. QED  BY <2>3, <2>4 DEF Scanned
<1>6. QED  BY <1>3, <1>4, <1>5

(* What a choice asks for: the disks behind its names, slot by slot.       *)
LEMMA PickedAsked ==
    ASSUME NEW h, NEW names, NEW g, NEW t, Picked(h, names, g, t), names \subseteq DOMAIN lay.dev[h]
    PROVE  /\ \A s \in DOMAIN Meant(h, g) : \E p \in Parts : \E i \in DOMAIN t[p] :
                 /\ s = <<p, i>> /\ t[p][i] \in names
                 /\ Meant(h, g)[s] = lay.dev[h][t[p][i]]
           /\ \A p \in Parts : \A i \in DOMAIN t[p] : <<p, i>> \in DOMAIN Meant(h, g)
<1>1. ASSUME NEW p \in Parts, NEW i \in DOMAIN t[p]
      PROVE  /\ t[p][i] \in names /\ <<p, i>> \in DOMAIN Meant(h, g)
             /\ Meant(h, g)[<<p, i>>] = lay.dev[h][t[p][i]]
  <2>1. t[p][i] \in names /\ g[p] = Named(t[p])
    BY DEF Picked
  <2>2. i \in DOMAIN g[p] /\ g[p][i] = Dev(t[p][i])
    BY <2>1 DEF Named
  <2>3. <<p, i>> \in DiskSlots(g) /\ DiskAt(g, <<p, i>>) = Dev(t[p][i])
    BY <2>2, SlotOf
  <2>4. DiskAt(g, <<p, i>>).in = "dev" /\ DiskAt(g, <<p, i>>).id = t[p][i]
    BY <2>3 DEF Dev
  <2>5. QED  BY <2>1, <2>3, <2>4, MeantDev
<1>2. ASSUME NEW s \in DOMAIN Meant(h, g)
      PROVE  \E p \in Parts : \E i \in DOMAIN t[p] : s = <<p, i>>
  <2>1. s \in DiskSlots(g)
    BY DEF Meant
  <2>2. PICK p \in Parts : \E i \in DOMAIN g[p] : s = <<p, i>>
    BY <2>1, SlotIs
  <2>3. DOMAIN g[p] = DOMAIN t[p]
    BY DEF Picked, Named
  <2>4. QED  BY <2>2, <2>3
<1>3. QED  BY <1>1, <1>2

SoundChoice(a) ==
    LET sys == {s \in DOMAIN a : s[1] = "sys"}
    IN  /\ Cardinality(sys) \in {1, 3, 5} /\ IsInjective(a)
        /\ \A s, u \in sys : Size[a[s]] = Size[a[u]]
        /\ \A s \in DOMAIN a, h \in Hosts : a[s] \in Range(lay.dev[h])
        /\ \A s \in DOMAIN a : a[s] \notin lay.busy

LEMMA ChoiceIsSound ==
    ASSUME DisksShape, Trusted, SeenByAll # {}, NEW m \in Matches, NEW arch,
           NEW g \in Classified(m[1], m[2], arch), g["sys"] # <<>>
    PROVE  SoundChoice(Meant(m[1], g))
<1> DEFINE h == m[1]
           names == m[2]
           a == Meant(h, g)
<1>1. h \in Hosts /\ IsFiniteSet(names) /\ names = ByWWID(h)
  BY MatchesFact, TrustedMatches, HostsFacts
<1>2. PICK t : Picked(h, names, g, t)
  BY <1>1, ClassifiedFact
<1>3. \A n \in names : /\ n \in DOMAIN lay.dev[h]
                       /\ lay.dev[h][n] \notin lay.busy
                       /\ \A k \in Hosts : lay.dev[h][n] \in Range(lay.dev[k])
  BY <1>1, TrustedMatches
<1> HIDE DEF h, names
<1>4. /\ \A s \in DOMAIN a : \E p \in Parts : \E i \in DOMAIN t[p] :
            /\ s = <<p, i>> /\ t[p][i] \in names /\ a[s] = lay.dev[h][t[p][i]]
      /\ \A p \in Parts : \A i \in DOMAIN t[p] : <<p, i>> \in DOMAIN a
  BY <1>2, <1>3, PickedAsked
<1> HIDE DEF a
<1>5. (\A s \in DOMAIN a, k \in Hosts : a[s] \in Range(lay.dev[k]))
      /\ \A s \in DOMAIN a : a[s] \notin lay.busy
  BY <1>3, <1>4
<1>6. IsInjective(a)
  <2>1. SUFFICES ASSUME NEW s \in DOMAIN a, NEW u \in DOMAIN a, a[s] = a[u] PROVE s = u
    BY DEF IsInjective
  <2>2. PICK p \in Parts : \E i \in DOMAIN t[p] :
            s = <<p, i>> /\ t[p][i] \in names /\ a[s] = lay.dev[h][t[p][i]]
    BY <1>4
  <2>3. PICK i \in DOMAIN t[p] : s = <<p, i>> /\ t[p][i] \in names /\ a[s] = lay.dev[h][t[p][i]]
    BY <2>2
  <2>4. PICK q \in Parts : \E j \in DOMAIN t[q] :
            u = <<q, j>> /\ t[q][j] \in names /\ a[u] = lay.dev[h][t[q][j]]
    BY <1>4
  <2>5. PICK j \in DOMAIN t[q] : u = <<q, j>> /\ t[q][j] \in names /\ a[u] = lay.dev[h][t[q][j]]
    BY <2>4
  <2>6. t[p][i] = t[q][j]
    BY <1>1, <1>3, <2>1, <2>3, <2>5 DEF Trusted, IsInjective
  <2>7. t[p][i] \in Range(t[p]) /\ t[q][j] \in Range(t[q])
    BY DEF Range
  <2>8. p = q
    BY <1>2, <2>6, <2>7 DEF Picked
  <2>9. i = j
    BY <1>2, <2>6, <2>8 DEF Picked, IsInjective
  <2>10. QED  BY <2>3, <2>5, <2>8, <2>9
<1> DEFINE sys == {s \in DOMAIN a : s[1] = "sys"}
<1>7. PICK n \in {0, 1, 3, 5} : DOMAIN t["sys"] = 1..n
  BY <1>2 DEF Picked
<1>8. "sys" \in Parts
  BY DEF Parts
<1>9. sys = {<<"sys", i>> : i \in 1..n}
  <2>1. ASSUME NEW s \in sys PROVE s \in {<<"sys", i>> : i \in 1..n}
    <3>1. PICK p \in Parts : \E i \in DOMAIN t[p] : s = <<p, i>>
      BY <1>4
    <3>2. p = "sys"
      BY <3>1
    <3>3. QED  BY <1>7, <3>1, <3>2
  <2>2. ASSUME NEW i \in 1..n PROVE <<"sys", i>> \in sys
    BY <1>4, <1>7, <1>8
  <2>3. QED  BY <2>1, <2>2
<1>10. n # 0
  <2>1. g["sys"] = Named(t["sys"])
    BY <1>2, <1>8 DEF Picked
  <2>2. ASSUME n = 0 PROVE FALSE
    <3>1. g["sys"] = [i \in {} |-> Dev(t["sys"][i])]
      BY <1>7, <2>1, <2>2 DEF Named
    <3>2. QED  BY <3>1
  <2>3. QED  BY <2>2
<1>11. Cardinality(sys) \in {1, 3, 5}
  BY <1>9, <1>10, SlotsCounted
<1>12. \A s, u \in sys : Size[a[s]] = Size[a[u]]
  <2>1. ASSUME NEW s \in sys PROVE \E x \in Range(t["sys"]) : a[s] = lay.dev[h][x]
    <3>1. PICK p \in Parts : \E i \in DOMAIN t[p] : s = <<p, i>> /\ a[s] = lay.dev[h][t[p][i]]
      BY <1>4
    <3>2. p = "sys"
      BY <3>1
    <3>3. QED  BY <3>1, <3>2 DEF Range
  <2>2. QED  BY <1>2, <2>1 DEF Picked
<1>13. QED  BY <1>5, <1>6, <1>11, <1>12 DEF SoundChoice, a, h

(* Once made, the choice stays.                                            *)
LEMMA SameView ==
    ASSUME lay' = lay
    PROVE  SeenByAll' = SeenByAll
BY DEF SeenByAll, NamesOf, Scanned, WWID

LEMMA SoundChoiceKept ==
    ASSUME lay' = lay, NEW a, SoundChoice(a)
    PROVE  SoundChoice(a)'
BY DEF SoundChoice

LEMMA DiscoverySoundness ==
    DiscoveryIsSound <=> (Discovered /\ SeenByAll # {} => SoundChoice(asked))
BY DEF DiscoveryIsSound, SoundChoice, OnAllHosts

LEMMA DiscoveryNext ==
    DisksShape /\ Standing /\ DiscoveryIsSound /\ DisksNext => DiscoveryIsSound'
<1> SUFFICES ASSUME DisksShape, Standing, DiscoveryIsSound, DisksNext, Discovered', SeenByAll' # {}
             PROVE  SoundChoice(asked)'
  BY DEF DiscoveryIsSound, SoundChoice, OnAllHosts
<1>0. Running' /\ ~opt'.skipOS /\ opt'.groups = NoGroups /\ groups' # NoGroups
  BY DEF Discovered
<1>1. CASE Start
  BY <1>0, <1>1 DEF Start
<1>2. CASE Going
  <2>1. lay' = lay /\ opt' = opt /\ Running
    BY <1>2 DEF Going
  <2>2. Trusted /\ SeenByAll # {}
    BY <2>1, SameView DEF Discovered, Trusted
  <2>3. ASSUME groups # NoGroups, asked' = asked PROVE SoundChoice(asked)'
    <3>1. Discovered
      BY <1>0, <2>1, <2>2, <2>3 DEF Discovered, Trusted
    <3>2. SoundChoice(asked)
      BY <2>2, <3>1, DiscoverySoundness
    <3>3. QED  BY <2>1, <2>3, <3>2 DEF SoundChoice
  <2>4. CASE step = "discover"
    <3>1. Discover
      BY <1>2, <2>4 DEF Going, HostStep, DiscoverAliases, Validate, CollectWwid, WriteConf,
            EnableMultipathd, WriteRules, TriggerUdev, Look, CheckDisks, Here
    <3>2. CASE groups' = groups /\ asked' = asked
      BY <1>0, <2>3, <3>2
    <3>3. ASSUME NEW m \in Matches, NEW g \in Classified(m[1], m[2], opt.arch),
                 g["sys"] # <<>>, asked' = Meant(m[1], g)
          PROVE  SoundChoice(asked)'
      <4>1. SoundChoice(Meant(m[1], g))
        BY <2>2, <3>3, ChoiceIsSound
      <4>2. PICK a : a = Meant(m[1], g)
        OBVIOUS
      <4>3. SoundChoice(a) /\ asked' = a
        BY <3>3, <4>1, <4>2
      <4>4. QED  BY <2>1, <4>3 DEF SoundChoice
    <3>4. QED  BY <1>0, <3>1, <3>2, <3>3, Chosen
  <2>5. CASE step # "discover"
    <3>1. step # "aliases"
      BY <1>0, <2>1, <2>5 DEF Standing
    <3>2. asked' = asked
      BY <1>2, <2>5, <3>1 DEF Going, HostStep, Discover, DiscoverAliases, Validate, CollectWwid,
            WriteConf, EnableMultipathd, WriteRules, TriggerUdev, Look, CheckDisks, Here, Params
    <3>3. groups # NoGroups
      <4>1. CASE step = "check"
        <5>1. CheckDisks
          BY <1>2, <4>1 DEF Going, HostStep, Discover, DiscoverAliases, Validate, CollectWwid,
                WriteConf, EnableMultipathd, WriteRules, TriggerUdev, Look, Here
        <5>2. groups' = groups \/ groups["sys"] # <<>>
          BY <5>1 DEF CheckDisks
        <5>3. NoGroups["sys"] = <<>>
          BY DEF NoGroups, Parts
        <5>4. QED  BY <1>0, <5>2, <5>3
      <4>2. CASE step # "check"
        <5>1. groups' = groups
          BY <1>2, <2>5, <3>1, <4>2, Writes
        <5>2. QED  BY <1>0, <5>1
      <4>3. QED  BY <4>1, <4>2
    <3>4. QED  BY <2>3, <3>2, <3>3
  <2>6. QED  BY <2>4, <2>5
<1>3. CASE UNCHANGED disksVars
  <2>1. UNCHANGED <<lay, opt, groups, asked, exitStatus>>
    BY <1>3 DEF disksVars
  <2>2. Discovered /\ SeenByAll # {}
    BY <2>1, SameView DEF Discovered, Running
  <2>3. SoundChoice(asked)
    BY <2>2, DiscoverySoundness
  <2>4. QED  BY <2>1, <2>3 DEF SoundChoice
<1>4. QED  BY <1>0, <1>1, <1>2, <1>3, StepsOn

-----------------------------------------------------------------------------
(* The theorems. *)

LEMMA DisksInvInit == DisksInit => DisksInv
<1> SUFFICES ASSUME DisksInit PROVE DisksInv
  OBVIOUS
<1>1. DisksShape
  BY ShapeInit
<1>2. ~Running /\ run = 0 /\ daemon = {} /\ policy = RealDM
  BY DEF DisksInit, Running
<1>3. \A h \in Hosts : conf[h] = Nothing /\ maps[h] = Nothing /\ rules[h] = Nothing
  BY DEF DisksInit
<1>4. Standing /\ GroupsNamed /\ AskedKnown /\ HostsPrepared
  BY <1>2 DEF Standing, GroupsNamed, AskedKnown, HostsPrepared, OnTheWay, Sure
<1>5. FirstRun
  BY <1>2, <1>3 DEF FirstRun
<1>6. PolicyFits
  BY <1>2 DEF PolicyFits, OnTheWay, Sure
<1>7. MapsLive
  BY <1>3 DEF MapsLive, Nothing
<1>8. DeploymentIsSound
  BY <1>2 DEF DeploymentIsSound, Deploying, Here
<1>9. DiscoveryIsSound
  BY <1>2 DEF DiscoveryIsSound, Discovered
<1>10. QED  BY <1>1, <1>4, <1>5, <1>6, <1>7, <1>8, <1>9 DEF DisksInv

LEMMA DisksSame == DisksInv /\ UNCHANGED disksVars => DisksInv'
<1> SUFFICES ASSUME DisksInv, UNCHANGED disksVars PROVE DisksInv'
  OBVIOUS
<1>1. UNCHANGED <<lay, conf, daemon, maps, rules, links, groups, policy, changed, asked,
                  opt, run, step, turn, disturbed, exitStatus>>
  BY DEF disksVars, host
<1>2. OnTheWay' = OnTheWay /\ Running' = Running /\ h0' = h0
  BY <1>1 DEF OnTheWay, Running, h0
<1>3. \A i \in DOMAIN HostList : \A s \in DOMAIN Later : Past(i, s)' = Past(i, s)
  BY <1>1 DEF Past
<1>4. DisksShape' /\ Standing'
  BY <1>1, <1>2 DEF DisksInv, DisksShape, Standing
<1>5. FirstRun'
  BY <1>1, <1>2, <1>3 DEF DisksInv, FirstRun, Later
<1>6. GroupsNamed' /\ AskedKnown'
  BY <1>1, <1>2 DEF DisksInv, GroupsNamed, AskedKnown, AskedFrom
<1>7. PolicyFits' /\ MapsLive'
  BY <1>1, <1>2 DEF DisksInv, PolicyFits, Sure, ByDevice, Filled, Multipathed, HasAll, MapsLive, Mappable
<1>8. HostsPrepared'
  BY <1>1, <1>2, <1>3 DEF DisksInv, HostsPrepared, Sure, ByDevice, Filled, Multipathed,
        Prepared, HasAll, Wanted, MapsFollow, LinksFollow, ByMap, Later
<1>9. DeploymentIsSound'
  BY SoundSame DEF DisksInv
<1>10. DiscoveryIsSound'
  <2>1. SUFFICES ASSUME Discovered', SeenByAll' # {} PROVE SoundChoice(asked)'
    BY DEF DiscoveryIsSound, SoundChoice, OnAllHosts
  <2>2. Discovered /\ SeenByAll # {}
    BY <1>1, <2>1, SameView DEF Discovered, Running
  <2>3. SoundChoice(asked)
    BY <2>2, DiscoverySoundness DEF DisksInv
  <2>4. QED  BY <1>1, <2>3 DEF SoundChoice
<1>11. QED  BY <1>4, <1>5, <1>6, <1>7, <1>8, <1>9, <1>10 DEF DisksInv

(* The strengthening DisksInv is inductive.                                *)
THEOREM DisksInvariant == DisksSpec => []DisksInv
<1>1. DisksInit => DisksInv
  BY DisksInvInit
<1>2. DisksInv /\ [DisksNext]_disksVars => DisksInv'
  <2>1. ASSUME DisksInv, DisksNext PROVE DisksInv'
    BY <2>1, ShapeNext, StandingNext, FirstRunNext, NamedNext, PolicyNext, MapsLiveNext,
       PreparedNext, SoundNext, DiscoveryNext DEF DisksInv
  <2>2. QED  BY <2>1, DisksSame
<1>3. QED  BY <1>1, <1>2, PTL DEF DisksSpec

(* For any number of hosts, disks, names and runs: where WWIDs can be      *)
(* trusted, the disks that C-022 overwrites under the multipath policy in  *)
(* a first or a forced run are the ones that the run was asked for, the    *)
(* same on every host, and not in use on any.                              *)
THEOREM DeploymentSound == DisksSpec => []DeploymentIsSound
BY DisksInvariant, PTL DEF DisksInv

(* The choice that B-021 makes where the hosts share an unused disk.       *)
THEOREM DiscoverySound == DisksSpec => []DiscoveryIsSound
BY DisksInvariant, PTL DEF DisksInv
=============================================================================
