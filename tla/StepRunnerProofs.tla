-------------------------- MODULE StepRunnerProofs --------------------------
(***************************************************************************)
(* What StepRunner guarantees for a list of any length, of any shapes:     *)
(* first its progress numbers, then its results, and the refinement.  At   *)
(* the end, what CommandStream guarantees of the commands in its steps.    *)
(***************************************************************************)
EXTENDS StepRunner, CommandStream, FiniteSetTheorems, TLAPS

(* Inside RunStep for the current step, after it was announced. *)
Running == {"precheck", "gate", "action", "postcheck"}

(* Required steps that have not been announced yet. *)
Left == {i \in Steps : Required(i) /\ slot[i] = NoSlot}

(* Where the loop is: steps before cur are decided, the others are not, and *)
(* without an error the loop is left only at the end of the list.          *)
LoopPosition ==
    /\ \A i \in Steps : (i < cur) <=> (result[i] # "pending")
    /\ pc \in {"leave", "gone"} /\ ~lastErr => cur = N + 1
    /\ exit # "none" => pc = "gone"

(* Which steps are announced, and how their slots relate to the counter.   *)
SlotPosition ==
    /\ \A i \in Steps : i > cur \/ (i = cur /\ pc \notin Running) => slot[i] = NoSlot
    /\ \A i \in Steps : Required(i) /\ i < cur => slot[i] # NoSlot
    /\ pc \in Running => slot[cur] # NoSlot
    /\ progress.next >= around.claimed
    /\ \A i \in Announced : /\ slot[i].index < progress.next
                            /\ slot[i].total <= progress.total

(* The denominator is what was claimed, what the loop is certain to claim, *)
(* and what it never does.                                                 *)
TotalAccounted ==
    progress.total = progress.next + Cardinality(Left) + around.c001 + around.archive

ProgressInv ==
    TypeOK /\ LoopPosition /\ SlotPosition /\ TotalAccounted /\ SlotsInOrder

-----------------------------------------------------------------------------
(* A set of steps is finite, so its cardinality is a number. *)
LEMMA StepSetsFinite ==
    \A S \in SUBSET Steps : IsFiniteSet(S) /\ Cardinality(S) \in Nat
<1>1. IsFiniteSet(Steps)
  BY NAssumption, FS_Interval DEF Steps
<1>2. QED  BY <1>1, FS_Subset, FS_CardinalityType

(* Returning from RunStep leaves the loop's own variables well typed.      *)
LoopTyped ==
    /\ result \in [Steps -> {"pending", "ok", "skipped", "failed"}]
    /\ precheckFailed \in BOOLEAN /\ lastErr \in BOOLEAN
    /\ cur \in 1..(N + 1)
    /\ pc \in {"leave", "begin"}
    /\ pc = "begin" => cur \in Steps

LEMMA ReturnTyped ==
    ASSUME TypeOK, pc \notin {"leave", "gone"},
           NEW r \in {"ok", "skipped", "failed"}, Return(r)
    PROVE  LoopTyped'
<1>. USE NAssumption DEF Steps, TypeOK, Return
<1>1. result' \in [Steps -> {"pending", "ok", "skipped", "failed"}]
  OBVIOUS
<1>2. precheckFailed' \in BOOLEAN /\ lastErr' \in BOOLEAN
  BY Zenon
<1>3. cur' \in 1..(N + 1)
  OBVIOUS
<1>4. pc' \in {"leave", "begin"}
  OBVIOUS
<1>5. pc' = "begin" => cur' \in Steps
  OBVIOUS
<1>6. QED  BY <1>1, <1>2, <1>3, <1>4, <1>5 DEF LoopTyped

(* The initial state is well typed. *)
LEMMA InitTyped == Init => TypeOK
<1>. USE NAssumption DEF Steps
<1>1. SUFFICES ASSUME Init PROVE TypeOK
  OBVIOUS
<1>2. CountNonOptionalSteps(plan) \in Nat
  BY StepSetsFinite DEF CountNonOptionalSteps
<1>3. progress \in [next : Nat, total : Nat]
  <2>1. around.claimed \in Nat /\ around.c001 \in Nat /\ around.archive \in Nat
    BY <1>1, SurroundingsAssumption DEF Init, Surrounding
  <2>2. QED  BY <1>1, <1>2, <2>1 DEF Init, PlannedTotal
<1>4. slot \in [Steps -> [index : Nat, total : Nat]]
  BY <1>1 DEF Init, NoSlot
<1>5. cur \in 1..(N + 1) /\ (pc \notin {"leave", "gone"} => cur \in Steps)
  BY <1>1 DEF Init
<1>6. QED  BY <1>1, <1>3, <1>4, <1>5 DEF Init, TypeOK

(* Every step of RunStep and its loop keeps the types. *)
LEMMA NextTyped == TypeOK /\ [Next]_vars => TypeOK'
<1>. USE NAssumption DEF Steps
<1>1. SUFFICES ASSUME TypeOK, [Next]_vars PROVE TypeOK'
  OBVIOUS
<1>. USE <1>1
<1>2. CASE OptionalSkip
  <2>1. LoopTyped'  BY <1>2, ReturnTyped DEF OptionalSkip
  <2>2. issues' \subseteq (Steps \X IssueKinds)
    BY <1>2 DEF OptionalSkip, ReportPrecheckIssue, IssueKinds, TypeOK
  <2>3. QED  BY <1>2, <2>1, <2>2 DEF OptionalSkip, LoopTyped, TypeOK
<1>3. CASE OptionalStart
  <2>1. progress' \in [next : Nat, total : Nat] /\ slot' \in [Steps -> [index : Nat, total : Nat]]
    BY <1>3 DEF OptionalStart, ClaimProgress, TypeOK
  <2>2. issues' \subseteq (Steps \X IssueKinds)
    BY <1>3 DEF OptionalStart, ReportPrecheckIssue, IssueKinds, TypeOK
  <2>3. QED  BY <1>3, <2>1, <2>2 DEF OptionalStart, Continue, TypeOK
<1>4. CASE RequiredStart
  BY <1>4 DEF RequiredStart, ClaimProgress, Continue, TypeOK
<1>5. CASE PreCheckPasses
  BY <1>5 DEF PreCheckPasses, ReportPrecheckIssue, IssueKinds, Continue, TypeOK
<1>6. CASE PreCheckSkips
  <2>1. LoopTyped'  BY <1>6, ReturnTyped DEF PreCheckSkips
  <2>2. issues' \subseteq (Steps \X IssueKinds)
    BY <1>6 DEF PreCheckSkips, ReportPrecheckIssue, IssueKinds, TypeOK
  <2>3. QED  BY <1>6, <2>1, <2>2 DEF PreCheckSkips, LoopTyped, TypeOK
<1>7. CASE PreCheckFails
  <2>1. LoopTyped'  BY <1>7, ReturnTyped DEF PreCheckFails
  <2>2. issues' \subseteq (Steps \X IssueKinds)
    <3>1. PICK own \in SUBSET {"same", "other"} :
              issues' \subseteq issues \cup {<<cur, kind>> : kind \in own} \cup {<<cur, "generic">>}
      BY <1>7, Zenon DEF PreCheckFails
    <3>2. cur \in Steps /\ issues \subseteq (Steps \X IssueKinds)
      BY <1>7 DEF PreCheckFails, TypeOK
    <3>3. QED  BY <3>1, <3>2 DEF IssueKinds
  <2>3. QED  BY <1>7, <2>1, <2>2 DEF PreCheckFails, LoopTyped, TypeOK
<1>8. CASE ModeGateStops
  <2>1. LoopTyped'  BY <1>8, ReturnTyped DEF ModeGateStops
  <2>2. QED  BY <1>8, <2>1 DEF ModeGateStops, LoopTyped, TypeOK
<1>9. CASE ModeGatePasses
  BY <1>9 DEF ModeGatePasses, Continue, TypeOK
<1>10. CASE ActionSucceeds
  BY <1>10 DEF ActionSucceeds, Continue, TypeOK
<1>11. CASE ActionFails
  <2>1. LoopTyped'  BY <1>11, ReturnTyped DEF ActionFails
  <2>2. acted' \subseteq Steps  BY <1>11 DEF ActionFails, TypeOK
  <2>3. QED  BY <1>11, <2>1, <2>2 DEF ActionFails, LoopTyped, TypeOK
<1>12. CASE PostCheckSucceeds
  <2>1. LoopTyped'  BY <1>12, ReturnTyped DEF PostCheckSucceeds
  <2>2. checked' \subseteq Steps  BY <1>12 DEF PostCheckSucceeds, TypeOK
  <2>3. QED  BY <1>12, <2>1, <2>2 DEF PostCheckSucceeds, LoopTyped, TypeOK
<1>13. CASE PostCheckFails
  <2>1. LoopTyped'  BY <1>13, ReturnTyped DEF PostCheckFails
  <2>2. checked' \subseteq Steps  BY <1>13 DEF PostCheckFails, TypeOK
  <2>3. QED  BY <1>13, <2>1, <2>2 DEF PostCheckFails, LoopTyped, TypeOK
<1>14. CASE Leave
  BY <1>14 DEF Leave, TypeOK
<1>15. CASE UNCHANGED vars
  BY <1>15 DEF vars, TypeOK
<1>16. QED
  BY <1>2, <1>3, <1>4, <1>5, <1>6, <1>7, <1>8, <1>9, <1>10, <1>11, <1>12,
     <1>13, <1>14, <1>15 DEF Next, Gone

(* The variables keep their types in every step of RunStep and its loop.   *)
THEOREM TypeCorrect == Spec => []TypeOK
BY InitTyped, NextTyped, PTL DEF Spec

-----------------------------------------------------------------------------
(* What the rest of the command claims or plans for are counts. *)
LEMMA AroundCounts ==
    TypeOK => around.claimed \in Nat /\ around.c001 \in Nat /\ around.archive \in Nat
BY SurroundingsAssumption DEF TypeOK, Surrounding

(* Announcing the current step keeps the slots in order and the total       *)
(* accounted for: an optional step adds itself to the denominator, a       *)
(* required one was counted in it from the start.                          *)
LEMMA ClaimKeepsProgress ==
    ASSUME ProgressInv, TypeOK', cur \in Steps, pc = "begin", ClaimProgress,
           pc' \in Running, UNCHANGED <<plan, around, cur, result, lastErr, exit>>
    PROVE  ProgressInv'
<1>. USE NAssumption DEF Steps
<1>1. /\ slot[cur] = NoSlot
      /\ progress.next \in Nat /\ progress.total \in Nat
      /\ around.claimed \in Nat /\ around.c001 \in Nat /\ around.archive \in Nat
      /\ around' = around /\ progress.next >= around.claimed
  BY AroundCounts DEF ProgressInv, SlotPosition, Running, TypeOK
<1>2. /\ slot' = [slot EXCEPT ![cur] = [index |-> progress.next, total |-> progress'.total]]
      /\ progress'.next = progress.next + 1
      /\ progress'.total = IF Required(cur) THEN progress.total ELSE progress.total + 1
  BY DEF ClaimProgress, Required
<1>6. progress.total >= progress.next /\ (Required(cur) => progress.total > progress.next)
  <2>1. Cardinality(Left) \in Nat /\ IsFiniteSet(Left)
    BY StepSetsFinite DEF Left
  <2>2. Required(cur) => Left # {}
    BY <1>1 DEF Left
  <2>3. Required(cur) => Cardinality(Left) # 0
    BY <2>1, <2>2, FS_EmptySet
  <2>4. QED  BY <1>1, <2>1, <2>3 DEF ProgressInv, TotalAccounted
<1>3. /\ slot'[cur] = [index |-> progress.next, total |-> progress'.total]
      /\ \A i \in Steps : i # cur => slot'[i] = slot[i]
      /\ slot'[cur] # NoSlot
  <2>1. progress'.total > progress.next
    BY <1>1, <1>2, <1>6
  <2>2. QED  BY <1>1, <1>2, <2>1 DEF ProgressInv, TypeOK, NoSlot
<1>4. LoopPosition'
  BY DEF ProgressInv, LoopPosition, Running
<1>5. Announced' = Announced \cup {cur}
  BY <1>3 DEF Announced
<1>7. SlotPosition'
  <2>1. \A i \in Steps : i > cur => slot'[i] = NoSlot
    BY <1>3 DEF ProgressInv, SlotPosition
  <2>2. \A i \in Steps : Required(i) /\ i < cur => slot'[i] # NoSlot
    BY <1>3 DEF ProgressInv, SlotPosition
  <2>3. progress'.next >= around'.claimed
    BY <1>1, <1>2
  <2>4. \A i \in Announced' : slot'[i].index < progress'.next /\ slot'[i].total <= progress'.total
    <3>1. SUFFICES ASSUME NEW i \in Announced'
                   PROVE  slot'[i].index < progress'.next /\ slot'[i].total <= progress'.total
      OBVIOUS
    <3>2. CASE i = cur
      BY <1>1, <1>2, <1>3, <3>2 DEF TypeOK
    <3>3. CASE i # cur
      <4>1. i \in Announced /\ i \in Steps /\ slot'[i] = slot[i]
        BY <1>3, <1>5, <3>1, <3>3 DEF Announced
      <4>2. slot[i].index < progress.next /\ slot[i].total <= progress.total
        BY <4>1 DEF ProgressInv, SlotPosition
      <4>3. slot[i].index \in Nat /\ slot[i].total \in Nat
        BY <4>1 DEF ProgressInv, TypeOK
      <4>4. QED  BY <1>1, <1>2, <4>1, <4>2, <4>3
    <3>4. QED  BY <3>2, <3>3
  <2>5. QED  BY <1>3, <2>1, <2>2, <2>3, <2>4 DEF SlotPosition, Required, Running
<1>8. TotalAccounted'
  <2>1. Left' = IF Required(cur) THEN Left \ {cur} ELSE Left
    BY <1>1, <1>3 DEF Left, Required
  <2>2. IsFiniteSet(Left) /\ Cardinality(Left) \in Nat
    BY StepSetsFinite DEF Left
  <2>3. Required(cur) => Cardinality(Left') = Cardinality(Left) - 1
    BY <1>1, <2>1, <2>2, FS_RemoveElement DEF Left
  <2>4. QED  BY <1>1, <1>2, <2>1, <2>2, <2>3 DEF ProgressInv, TotalAccounted
<1>9. SlotsInOrder'
  <2>1. {slot'[i].index : i \in Announced'} = {slot[i].index : i \in Announced} \cup {progress.next}
    BY <1>1, <1>3, <1>5 DEF Announced
  <2>2. {slot'[i].index : i \in Announced'} = around'.claimed..(progress'.next - 1)
    <3>1. {slot[i].index : i \in Announced} = around.claimed..(progress.next - 1)
      BY DEF ProgressInv, SlotsInOrder
    <3>2. (around.claimed..(progress.next - 1)) \cup {progress.next} = around.claimed..progress.next
      BY <1>1
    <3>3. progress'.next - 1 = progress.next
      BY <1>1, <1>2
    <3>4. QED  BY <2>1, <3>1, <3>2, <3>3
  <2>3. \A i \in Announced' : slot'[i].index < slot'[i].total
    BY <1>1, <1>2, <1>3, <1>5, <1>6 DEF ProgressInv, SlotsInOrder, Announced
  <2>4. ASSUME NEW i \in Announced', NEW j \in Announced', i < j
        PROVE  slot'[i].index < slot'[j].index /\ slot'[i].total <= slot'[j].total
    <3>1. i # cur /\ i \in Announced
      BY <1>1, <1>5, <2>4 DEF ProgressInv, SlotPosition, Announced, Running
    <3>2. CASE j = cur
      <4>1. /\ slot[i].index < progress.next /\ slot[i].total <= progress.total
            /\ slot[i].total \in Nat
        BY <3>1 DEF ProgressInv, SlotPosition, Announced, TypeOK
      <4>2. QED  BY <1>1, <1>2, <1>3, <3>1, <3>2, <4>1 DEF Announced
    <3>3. CASE j # cur
      BY <1>3, <1>5, <2>4, <3>1, <3>3 DEF ProgressInv, SlotsInOrder, Announced
    <3>4. QED  BY <3>2, <3>3
  <2>5. QED  BY <2>2, <2>3, <2>4 DEF SlotsInOrder
<1>10. QED  BY <1>4, <1>7, <1>8, <1>9 DEF ProgressInv

(* Returning from RunStep moves the loop on and leaves the slots alone.  A *)
(* step that returns without being announced is an optional one.           *)
LEMMA ReturnKeepsProgress ==
    ASSUME ProgressInv, TypeOK', cur \in Steps,
           pc \in Running \/ (pc = "begin" /\ ~Required(cur)),
           NEW r \in {"ok", "skipped", "failed"}, Return(r),
           UNCHANGED <<plan, around, progress, slot, exit>>
    PROVE  ProgressInv'
<1>. USE NAssumption DEF Steps
<1>1. /\ cur' = cur + 1
      /\ result' = [result EXCEPT ![cur] = r]
      /\ pc' \in {"leave", "begin"}
      /\ pc' = "leave" => cur = N \/ lastErr'
  BY DEF Return
<1>2. LoopPosition'
  <2>1. \A i \in Steps : (i < cur') <=> (result'[i] # "pending")
    BY <1>1 DEF ProgressInv, LoopPosition, TypeOK
  <2>2. exit = "none"
    BY DEF ProgressInv, LoopPosition, Running, TypeOK
  <2>3. QED  BY <1>1, <2>1, <2>2 DEF LoopPosition
<1>3. Announced' = Announced /\ Left' = Left
  BY DEF Announced, Left, Required
<1>4. SlotPosition'
  <2>1. /\ \A i \in Steps : i > cur => slot[i] = NoSlot
        /\ \A i \in Steps : Required(i) /\ i < cur + 1 => slot[i] # NoSlot
        /\ progress.next >= around.claimed
        /\ \A i \in Announced : slot[i].index < progress.next /\ slot[i].total <= progress.total
    BY DEF ProgressInv, SlotPosition, Running, TypeOK
  <2>2. pc' \notin Running
    BY <1>1 DEF Running
  <2>3. QED  BY <1>1, <1>3, <2>1, <2>2 DEF SlotPosition, Required, ProgressInv, TypeOK
<1>5. TotalAccounted' /\ SlotsInOrder'
  BY <1>3 DEF ProgressInv, TotalAccounted, SlotsInOrder
<1>6. QED  BY <1>2, <1>4, <1>5 DEF ProgressInv

(* Going from one callback of the current step to the next changes nothing *)
(* that the progress depends on.                                           *)
LEMMA MoveKeepsProgress ==
    ASSUME ProgressInv, TypeOK', pc \in Running, pc' \in Running,
           UNCHANGED <<plan, around, cur, progress, slot, result, lastErr, exit>>
    PROVE  ProgressInv'
<1>1. LoopPosition'
  BY DEF ProgressInv, LoopPosition, Running
<1>2. Announced' = Announced /\ Left' = Left
  BY DEF Announced, Left, Required
<1>3. SlotPosition'
  BY <1>2 DEF ProgressInv, SlotPosition, Required
<1>4. TotalAccounted' /\ SlotsInOrder'
  BY <1>2 DEF ProgressInv, TotalAccounted, SlotsInOrder
<1>5. QED  BY <1>1, <1>3, <1>4 DEF ProgressInv

-----------------------------------------------------------------------------
LEMMA ProgressAtStart == Init => ProgressInv
<1>. USE NAssumption DEF Steps
<1>1. SUFFICES ASSUME Init PROVE ProgressInv
  OBVIOUS
<1>2. TypeOK
  BY <1>1, InitTyped
<1>3. Announced = {} /\ Left = {i \in Steps : ~plan[i].optional}
  BY <1>1 DEF Init, Announced, Left, Required
<1>4. LoopPosition
  BY <1>1 DEF Init, LoopPosition
<1>5. SlotPosition
  BY <1>1, <1>2, <1>3, AroundCounts DEF Init, SlotPosition, Running
<1>6. TotalAccounted
  <2>1. Cardinality(Left) = CountNonOptionalSteps(plan) /\ Cardinality(Left) \in Nat
    BY <1>3, StepSetsFinite DEF CountNonOptionalSteps
  <2>2. QED  BY <1>1, <1>2, <2>1, AroundCounts DEF Init, TotalAccounted, PlannedTotal
<1>7. SlotsInOrder
  BY <1>1, <1>2, <1>3, AroundCounts DEF Init, SlotsInOrder
<1>8. QED  BY <1>2, <1>4, <1>5, <1>6, <1>7 DEF ProgressInv

LEMMA NextKeepsProgress == ProgressInv /\ [Next]_vars => ProgressInv'
<1>. USE NAssumption DEF Steps
<1>1. SUFFICES ASSUME ProgressInv, [Next]_vars PROVE ProgressInv'
  OBVIOUS
<1>. USE <1>1
<1>2. TypeOK /\ TypeOK'
  BY NextTyped DEF ProgressInv
<1>3. CASE OptionalSkip
  BY <1>2, <1>3, ReturnKeepsProgress DEF OptionalSkip, Required
<1>4. CASE OptionalStart
  BY <1>2, <1>4, ClaimKeepsProgress DEF OptionalStart, Continue, Running
<1>5. CASE RequiredStart
  BY <1>2, <1>5, ClaimKeepsProgress DEF RequiredStart, Continue, Running
<1>6. CASE PreCheckPasses
  BY <1>2, <1>6, MoveKeepsProgress DEF PreCheckPasses, Continue, Running
<1>7. CASE PreCheckSkips \/ PreCheckFails
  <2>1. pc \in Running /\ cur \in Steps
    BY <1>2, <1>7 DEF PreCheckSkips, PreCheckFails, Running, TypeOK
  <2>2. QED  BY <1>2, <1>7, <2>1, ReturnKeepsProgress DEF PreCheckSkips, PreCheckFails
<1>8. CASE ModeGatePasses \/ ActionSucceeds
  BY <1>2, <1>8, MoveKeepsProgress DEF ModeGatePasses, ActionSucceeds, Continue, Running
<1>9. CASE ModeGateStops \/ ActionFails \/ PostCheckSucceeds \/ PostCheckFails
  <2>1. pc \in Running /\ cur \in Steps
    BY <1>2, <1>9 DEF ModeGateStops, ActionFails, PostCheckSucceeds, PostCheckFails,
                      Running, TypeOK
  <2>2. QED
    BY <1>2, <1>9, <2>1, ReturnKeepsProgress
       DEF ModeGateStops, ActionFails, PostCheckSucceeds, PostCheckFails
<1>10. CASE Leave
  <2>1. Announced' = Announced /\ Left' = Left
    BY <1>10 DEF Leave, Announced, Left, Required
  <2>2. LoopPosition'
    BY <1>10 DEF Leave, ProgressInv, LoopPosition
  <2>3. SlotPosition'
    BY <1>10, <2>1 DEF Leave, ProgressInv, SlotPosition, Required, Running
  <2>4. TotalAccounted' /\ SlotsInOrder'
    BY <1>10, <2>1 DEF Leave, ProgressInv, TotalAccounted, SlotsInOrder
  <2>5. QED  BY <1>2, <2>2, <2>3, <2>4 DEF ProgressInv
<1>11. CASE UNCHANGED vars
  <2>1. Announced' = Announced /\ Left' = Left
    BY <1>11 DEF vars, Announced, Left, Required
  <2>2. LoopPosition'
    BY <1>11 DEF vars, ProgressInv, LoopPosition
  <2>3. SlotPosition'
    BY <1>11, <2>1 DEF vars, ProgressInv, SlotPosition, Required
  <2>4. TotalAccounted' /\ SlotsInOrder'
    BY <1>11, <2>1 DEF vars, ProgressInv, TotalAccounted, SlotsInOrder
  <2>5. QED  BY <1>2, <2>2, <2>3, <2>4 DEF ProgressInv
<1>12. QED
  BY <1>3, <1>4, <1>5, <1>6, <1>7, <1>8, <1>9, <1>10, <1>11 DEF Next, Gone

(* The strengthened invariant: SlotsInOrder alone is not inductive, since  *)
(* it does not say that the denominator has room for the steps to come.    *)
THEOREM ProgressInvariant == Spec => []ProgressInv
BY ProgressAtStart, NextKeepsProgress, PTL DEF Spec

(* The step lines "index of total" are in order and inside their total,    *)
(* for every list of steps and every outcome of the callbacks.             *)
THEOREM SlotsStayInOrder == Spec => []SlotsInOrder
<1>1. ProgressInv => SlotsInOrder
  BY DEF ProgressInv
<1>2. QED  BY <1>1, ProgressInvariant, PTL

(* A list that is not cut short by a failure leaves of its denominator     *)
(* the archive's slots and the one that nobody claims for C-001.           *)
THEOREM ProgressCompletes == Spec => []ProgressComplete
<1>1. ProgressInv => ProgressComplete
  <2>1. SUFFICES ASSUME ProgressInv, exit # "none", ~lastErr
                 PROVE  progress.total - progress.next = around.archive + around.c001
    BY DEF ProgressComplete
  <2>2. cur = N + 1
    BY <2>1 DEF ProgressInv, LoopPosition
  <2>3. Left = {}
    BY <2>1, <2>2, NAssumption DEF ProgressInv, SlotPosition, Left, Steps
  <2>4. Cardinality(Left) = 0
    BY <2>3, FS_EmptySet
  <2>5. progress.next \in Nat /\ progress.total = progress.next + around.c001 + around.archive
    BY <2>1, <2>4, AroundCounts DEF ProgressInv, TotalAccounted, TypeOK
  <2>6. QED  BY <2>1, <2>5, AroundCounts DEF ProgressInv
<1>2. QED  BY <1>1, ProgressInvariant, PTL

-----------------------------------------------------------------------------
(* Results and exit status: they agree with what was done, they keep to    *)
(* the contract the drivers rely on, and every step of the code is one of  *)
(* the abstract plan.                                                      *)

Touched == acted \cup checked
Failures == {i \in Steps : result[i] = "failed"}

(* What has been done to the host when RunStep is at each of its places.   *)
Doing ==
    /\ \A i \in Steps : i > cur => i \notin Touched
    /\ pc \in {"begin", "precheck", "gate", "action"} => cur \notin Touched
    /\ pc = "postcheck" => (plan[cur].act => cur \in acted) /\ cur \notin checked
    /\ pc \in {"action", "postcheck"} => Applying(flags)
    /\ pc = "precheck" => Required(cur)

(* The two failure variables of the loop.                                  *)
Remembered ==
    /\ lastErr <=> ~flags.precheck /\ Failures # {}
    /\ precheckFailed <=> flags.precheck /\ Failures # {}
    /\ pc \notin {"leave", "gone"} => ~lastErr
    /\ pc # "gone" => exit = "none"

ReportInv == ProgressInv /\ Doing /\ Remembered /\ EffectsMatchReport /\ WithinContract

-----------------------------------------------------------------------------
LEMMA InitReports == Init => ReportInv
<1>. USE NAssumption DEF Steps
<1> SUFFICES ASSUME Init
             PROVE  ReportInv
  OBVIOUS
<1>1. ProgressInv
  BY ProgressAtStart
<1>2. Failures = {} /\ Touched = {}
  BY DEF Init, Failures, Touched
<1>3. Doing
  BY <1>2 DEF Init, Doing
<1>4. Remembered
  BY <1>2 DEF Init, Remembered
<1>5. EffectsMatchReport /\ WithinContract
  BY DEF Init, EffectsMatchReport, WithinContract
<1>6. QED  BY <1>1, <1>3, <1>4, <1>5 DEF ReportInv

(* Returning from RunStep: what the result has to agree with.              *)
LEMMA ReturnReports ==
    ASSUME ReportInv, TypeOK', ProgressInv', cur \in Steps,
           pc \in Running \cup {"begin"},
           NEW r \in {"ok", "skipped", "failed"}, Return(r),
           UNCHANGED <<flags, plan, slot, exit>>,
           acted \subseteq acted', acted' \subseteq acted \cup {cur},
           checked \subseteq checked', checked' \subseteq checked \cup {cur},
           r = "ok" => (plan[cur].act => cur \in acted') /\ (plan[cur].post => cur \in checked'),
           r = "skipped" => cur \notin Touched',
           cur \in checked' /\ plan[cur].act => cur \in acted',
           cur \in Touched' => Applying(flags),
           Outcome(slot[cur] # NoSlot, r) \in RunStep(flags, plan[cur].optional)
    PROVE  ReportInv'
<1>. USE NAssumption DEF Steps
<1>1. /\ cur' = cur + 1 /\ pc' \in {"leave", "begin"}
      /\ result' = [result EXCEPT ![cur] = r]
      /\ result'[cur] = r /\ \A i \in Steps : i # cur => result'[i] = result[i]
  BY DEF Return, ReportInv, ProgressInv, TypeOK
<1>2. \A i \in Steps : (i < cur) <=> (result[i] # "pending")
  BY DEF ReportInv, ProgressInv, LoopPosition
<1>3. \A i \in Steps : i > cur => i \notin Touched'
  BY DEF ReportInv, Doing, Touched
<1>4. Doing'
  BY <1>1, <1>3 DEF Doing, Touched, ReportInv, ProgressInv, TypeOK
<1>5. Remembered'
  <2>1. Failures' = IF r = "failed" THEN Failures \cup {cur} ELSE Failures
    BY <1>1, <1>2 DEF Failures
  <2>2. ~lastErr /\ exit = "none"
    BY DEF ReportInv, Remembered, Running
  <2>3. lastErr' <=> (r = "failed" /\ ~flags.precheck)
    BY <2>2, Zenon DEF Return
  <2>4. precheckFailed' <=> (precheckFailed \/ (r = "failed" /\ flags.precheck))
    BY Zenon DEF Return
  <2>5. flags.precheck \/ Failures = {}
    BY <2>2 DEF ReportInv, Remembered
  <2>6. pc' # "leave" => ~lastErr'
    BY <2>3 DEF Return
  <2>7. (Failures' # {}) <=> (r = "failed" \/ Failures # {})
    BY <2>1
  <2>8. precheckFailed <=> flags.precheck /\ Failures # {}
    BY DEF ReportInv, Remembered
  <2>9. lastErr' <=> ~flags'.precheck /\ Failures' # {}
    BY <2>3, <2>5, <2>7
  <2>10. precheckFailed' <=> flags'.precheck /\ Failures' # {}
    BY <2>4, <2>7, <2>8
  <2>11. QED  BY <1>1, <2>2, <2>6, <2>9, <2>10 DEF Remembered
<1>6. EffectsMatchReport'
  <2>1. ASSUME NEW i \in Steps, result'[i] = "ok"
        PROVE  (plan'[i].act => i \in acted') /\ (plan'[i].post => i \in checked')
    BY <1>1, <2>1 DEF ReportInv, EffectsMatchReport
  <2>2. ASSUME NEW i \in Steps, result'[i] = "skipped" \/ (result'[i] = "pending" /\ i # cur')
        PROVE  i \notin Touched'
    <3>1. CASE i = cur
      BY <1>1, <2>2, <3>1
    <3>2. CASE i # cur
      <4>1. i \notin Touched
        BY <1>1, <2>2, <3>2 DEF ReportInv, EffectsMatchReport, Touched
      <4>2. QED  BY <3>2, <4>1 DEF Touched
    <3>3. QED  BY <3>1, <3>2
  <2>3. ASSUME NEW i \in checked', plan'[i].act
        PROVE  i \in acted'
    <3>1. CASE i = cur
      BY <2>3, <3>1
    <3>2. CASE i # cur
      BY <2>3, <3>2 DEF ReportInv, EffectsMatchReport
    <3>3. QED  BY <3>1, <3>2
  <2>4. ASSUME flags'.precheck \/ flags'.dryRun
        PROVE  acted' \cup checked' = {}
    <3>1. Touched = {}
      BY <2>4 DEF ReportInv, EffectsMatchReport, Touched
    <3>2. cur \notin Touched'
      BY <2>4 DEF Applying
    <3>3. QED  BY <3>1, <3>2 DEF Touched
  <2>5. QED  BY <2>1, <2>2, <2>3, <2>4 DEF EffectsMatchReport, Touched
<1>7. WithinContract'
  <2>1. ASSUME NEW i \in Steps, result'[i] # "pending"
        PROVE  Outcome(slot'[i] # NoSlot, result'[i]) \in RunStep(flags', plan'[i].optional)
    <3>1. CASE i = cur
      BY <1>1, <3>1
    <3>2. CASE i # cur
      BY <1>1, <2>1, <3>2 DEF ReportInv, WithinContract
    <3>3. QED  BY <3>1, <3>2
  <2>2. QED  BY <2>1 DEF WithinContract
<1>8. QED  BY <1>4, <1>5, <1>6, <1>7 DEF ReportInv

(* Going from one callback of the step to the next decides nothing.        *)
LEMMA MoveReports ==
    ASSUME ReportInv, ProgressInv', Doing', cur \in Steps,
           pc \in Running \cup {"begin"}, pc' \in Running,
           UNCHANGED <<flags, plan, cur, result, checked, precheckFailed, lastErr, exit>>,
           \A i \in Steps : i # cur => slot'[i] = slot[i],
           acted \subseteq acted', acted' \subseteq acted \cup {cur},
           cur \in acted' => Applying(flags)
    PROVE  ReportInv'
<1>. USE NAssumption DEF Steps
<1>1. result[cur] = "pending"
  BY DEF ReportInv, ProgressInv, LoopPosition
<1>2. Remembered'
  <2>1. Failures' = Failures
    BY DEF Failures
  <2>2. ~lastErr /\ exit = "none"
    BY DEF ReportInv, Remembered, Running
  <2>3. QED  BY <2>1, <2>2 DEF ReportInv, Remembered
<1>3. EffectsMatchReport'
  <2>1. \A i \in Steps : i # cur => (i \in Touched' <=> i \in Touched)
    BY DEF Touched
  <2>2. \A i \in Steps :
            result'[i] = "skipped" \/ (result'[i] = "pending" /\ i # cur') => i \notin acted' \cup checked'
    BY <1>1, <2>1 DEF ReportInv, EffectsMatchReport, Touched
  <2>3. flags'.precheck \/ flags'.dryRun => acted' \cup checked' = {}
    BY DEF ReportInv, EffectsMatchReport, Applying
  <2>4. QED  BY <1>1, <2>2, <2>3 DEF ReportInv, EffectsMatchReport
<1>4. WithinContract'
  BY <1>1 DEF ReportInv, WithinContract
<1>5. QED  BY <1>2, <1>3, <1>4 DEF ReportInv

(* The contract, case by case.                                             *)
LEMMA Contract ==
    ASSUME NEW c \in BOOLEAN, NEW r \in {"ok", "skipped", "failed"}, NEW optional \in BOOLEAN,
           IF optional
           THEN \/ ~c /\ r = "skipped"
                \/ c /\ ~Applying(flags) /\ r = "skipped"
                \/ c /\ Applying(flags) /\ r \in {"ok", "failed"}
           ELSE c /\ (r = "ok" => Applying(flags))
    PROVE  Outcome(c, r) \in RunStep(flags, optional)
BY DEF RunStep, OptionalOutcomes, RequiredOutcomes, Outcome

(* Each action of RunStep and its loop.                                    *)
LEMMA NextReports == ReportInv /\ [Next]_vars => ReportInv'
<1>. USE NAssumption DEF Steps
<1> SUFFICES ASSUME ReportInv, [Next]_vars
             PROVE  ReportInv'
  OBVIOUS
<1>1. ProgressInv' /\ TypeOK /\ TypeOK'
  BY NextKeepsProgress DEF ReportInv, ProgressInv
<1>2. /\ pc \in Running \cup {"begin"} => cur \in Steps /\ plan[cur].optional \in BOOLEAN
      /\ pc \in Running => slot[cur] # NoSlot
      /\ pc = "begin" => slot[cur] = NoSlot
  BY <1>1, KindsAssumption DEF ReportInv, ProgressInv, SlotPosition, Running, TypeOK, Kind
<1>3. /\ pc \in {"begin", "precheck", "gate", "action"} => cur \notin Touched
      /\ pc = "postcheck" => (plan[cur].act => cur \in acted) /\ cur \notin checked
      /\ pc \in {"action", "postcheck"} => Applying(flags)
      /\ pc = "precheck" => Required(cur)
  BY DEF ReportInv, Doing
<1>4. CASE OptionalSkip
  <2>1. Outcome(slot[cur] # NoSlot, "skipped") \in RunStep(flags, plan[cur].optional)
    BY <1>2, <1>4, Contract DEF OptionalSkip
  <2>2. QED  BY <1>1, <1>2, <1>3, <1>4, <2>1, ReturnReports DEF OptionalSkip, Touched
<1>5. CASE OptionalStart \/ RequiredStart
  <2>1. pc = "begin" /\ pc' \in Running /\ UNCHANGED <<flags, plan, cur, acted, checked>>
    BY <1>5 DEF OptionalStart, RequiredStart, Continue, Running
  <2>2. pc' \notin {"action", "postcheck"} /\ (pc' = "precheck" => Required(cur))
    BY <1>5 DEF OptionalStart, RequiredStart, Continue
  <2>3. Doing'
    BY <1>3, <2>1, <2>2 DEF ReportInv, Doing, Touched, Required
  <2>4. \A i \in Steps : i # cur => slot'[i] = slot[i]
    BY <1>1, <1>5 DEF OptionalStart, RequiredStart, ClaimProgress, TypeOK
  <2>5. QED
    BY <1>1, <1>2, <1>3, <1>5, <2>1, <2>3, <2>4, MoveReports
    DEF OptionalStart, RequiredStart, Continue, Touched
<1>6. CASE PreCheckPasses \/ ModeGatePasses
  <2>1. pc \in Running /\ pc' \in Running /\ UNCHANGED <<flags, plan, cur, slot, acted, checked>>
    BY <1>6 DEF PreCheckPasses, ModeGatePasses, Continue, Running
  <2>2. pc' = "gate" \/ (pc' = "action" /\ Applying(flags))
    BY <1>6 DEF PreCheckPasses, ModeGatePasses, Continue, Applying
  <2>3. cur \notin Touched
    BY <1>3, <1>6 DEF PreCheckPasses, ModeGatePasses
  <2>4. Doing'
    BY <2>1, <2>2, <2>3 DEF ReportInv, Doing, Touched, Applying
  <2>5. QED
    BY <1>1, <1>2, <1>6, <2>1, <2>3, <2>4, MoveReports
    DEF PreCheckPasses, ModeGatePasses, Continue, Touched
<1>7. CASE PreCheckSkips \/ PreCheckFails
  <2>1. pc = "precheck" /\ cur \notin Touched /\ slot[cur] # NoSlot /\ ~plan[cur].optional /\ cur \in Steps
    BY <1>2, <1>3, <1>7 DEF PreCheckSkips, PreCheckFails, Running, Required
  <2>2. \A r \in {"skipped", "failed"} :
            Outcome(slot[cur] # NoSlot, r) \in RunStep(flags, plan[cur].optional)
    BY <1>2, <2>1, Contract DEF Running
  <2>3. QED
    BY <1>1, <1>7, <2>1, <2>2, ReturnReports DEF PreCheckSkips, PreCheckFails, Touched, Running
<1>8. CASE ModeGateStops
  <2>1. pc = "gate" /\ cur \notin Touched /\ slot[cur] # NoSlot /\ cur \in Steps /\ ~Applying(flags)
    BY <1>2, <1>3, <1>8 DEF ModeGateStops, Running, Applying
  <2>2. Outcome(slot[cur] # NoSlot, "skipped") \in RunStep(flags, plan[cur].optional)
    BY <1>2, <2>1, Contract DEF Running
  <2>3. QED  BY <1>1, <1>8, <2>1, <2>2, ReturnReports DEF ModeGateStops, Touched, Running
<1>9. CASE ActionSucceeds
  <2>1. /\ pc = "action" /\ pc' = "postcheck" /\ cur \in Steps /\ cur \notin Touched /\ Applying(flags)
        /\ acted' = (IF plan[cur].act THEN acted \cup {cur} ELSE acted)
        /\ UNCHANGED <<flags, plan, cur, slot, checked>>
    BY <1>2, <1>3, <1>9 DEF ActionSucceeds, Continue, Running
  <2>2. Doing'
    BY <2>1 DEF ReportInv, Doing, Touched, Applying
  <2>3. QED  BY <1>1, <1>9, <2>1, <2>2, MoveReports DEF ActionSucceeds, Continue, Running
<1>10. CASE ActionFails \/ PostCheckSucceeds \/ PostCheckFails
  <2>1. pc \in {"action", "postcheck"} /\ cur \in Steps /\ slot[cur] # NoSlot /\ Applying(flags)
    BY <1>2, <1>3, <1>10 DEF ActionFails, PostCheckSucceeds, PostCheckFails, Running
  <2>2. \A r \in {"ok", "failed"} :
            Outcome(slot[cur] # NoSlot, r) \in RunStep(flags, plan[cur].optional)
    BY <1>2, <2>1, Contract DEF Running
  <2>3. CASE ActionFails
    <3>1. cur \notin checked
      BY <1>3, <2>3 DEF ActionFails, Touched
    <3>2. QED  BY <1>1, <2>1, <2>2, <2>3, <3>1, ReturnReports DEF ActionFails, Running
  <2>4. CASE PostCheckSucceeds
    <3>1. plan[cur].act => cur \in acted
      BY <1>3, <2>4 DEF PostCheckSucceeds
    <3>2. QED  BY <1>1, <2>1, <2>2, <2>4, <3>1, ReturnReports DEF PostCheckSucceeds, Running
  <2>5. CASE PostCheckFails
    <3>1. plan[cur].act => cur \in acted
      BY <1>3, <2>5 DEF PostCheckFails
    <3>2. QED  BY <1>1, <2>1, <2>2, <2>5, <3>1, ReturnReports DEF PostCheckFails, Running
  <2>6. QED  BY <1>10, <2>3, <2>4, <2>5
<1>11. CASE Leave
  <2>1. Failures' = Failures /\ Touched' = Touched
    BY <1>11 DEF Leave, Failures, Touched
  <2>2. Doing'
    BY <1>11, <2>1 DEF Leave, ReportInv, Doing
  <2>3. Remembered'
    BY <1>11, <2>1 DEF Leave, ReportInv, Remembered
  <2>4. EffectsMatchReport' /\ WithinContract'
    BY <1>11 DEF Leave, ReportInv, EffectsMatchReport, WithinContract
  <2>5. QED  BY <1>1, <2>2, <2>3, <2>4 DEF ReportInv
<1>12. CASE UNCHANGED vars
  <2>1. Failures' = Failures /\ Touched' = Touched
    BY <1>12 DEF vars, Failures, Touched
  <2>2. Doing'
    BY <1>12, <2>1 DEF vars, ReportInv, Doing, Required
  <2>3. Remembered'
    BY <1>12, <2>1 DEF vars, ReportInv, Remembered
  <2>4. EffectsMatchReport' /\ WithinContract'
    BY <1>12 DEF vars, ReportInv, EffectsMatchReport, WithinContract
  <2>5. QED  BY <1>1, <2>2, <2>3, <2>4 DEF ReportInv
<1>13. QED
  BY <1>4, <1>5, <1>6, <1>7, <1>8, <1>9, <1>10, <1>11, <1>12 DEF Next, Gone

LEMMA Reports == Spec => []ReportInv
BY InitReports, NextReports, PTL DEF Spec

(* A result says what was done to the host, and --precheck and --dry-run   *)
(* do nothing to it, for every list of steps and whatever the callbacks    *)
(* return (RunStep, step.go).                                              *)
THEOREM EffectsAreReported == Spec => []EffectsMatchReport
<1>1. ReportInv => EffectsMatchReport
  BY DEF ReportInv
<1>2. QED  BY <1>1, Reports, PTL

(* RunStep keeps to the contract that the models of the drivers take for   *)
(* it: HostPhases and DBInstall rest on this.                              *)
THEOREM ContractIsKept == Spec => []WithinContract
<1>1. ReportInv => WithinContract
  BY DEF ReportInv
<1>2. QED  BY <1>1, Reports, PTL

-----------------------------------------------------------------------------
(* Every step of the code is a step of the abstract plan, or none of it.   *)
LEMMA ReturnDecides ==
    ASSUME ReportInv, cur \in Steps, pc \in Running \cup {"begin"},
           NEW r \in {"ok", "skipped", "failed"}, Return(r), UNCHANGED <<flags, exit>>
    PROVE  Plan!Next
<1>. USE NAssumption DEF Steps
<1>1. result[cur] = "pending" /\ \A j \in 1..(cur - 1) : result[j] # "pending"
  BY DEF ReportInv, ProgressInv, LoopPosition
<1>2. exit = "none" /\ (flags.precheck \/ Failures = {})
  BY DEF ReportInv, Remembered, Running
<1>3. Plan!Failed = Failures
  BY DEF Plan!Failed, Plan!Items, Failures
<1>4. Plan!Decide(cur, r)
  BY <1>1, <1>2, <1>3 DEF Plan!Decide, Return
<1>5. QED  BY <1>4 DEF Plan!Next, Plan!Items

LEMMA NextFollowsPlan == ReportInv /\ [Next]_vars => [Plan!Next]_Plan!vars
<1> SUFFICES ASSUME ReportInv, [Next]_vars
             PROVE  [Plan!Next]_Plan!vars
  OBVIOUS
<1>1. pc \in Running \cup {"begin"} => cur \in Steps
  BY DEF ReportInv, ProgressInv, TypeOK, Running
<1>2. CASE OptionalSkip \/ PreCheckSkips \/ ModeGateStops
  BY <1>1, <1>2, ReturnDecides DEF OptionalSkip, PreCheckSkips, ModeGateStops, Running
<1>3. CASE PreCheckFails \/ ActionFails \/ PostCheckFails
  BY <1>1, <1>3, ReturnDecides DEF PreCheckFails, ActionFails, PostCheckFails, Running
<1>4. CASE PostCheckSucceeds
  BY <1>1, <1>4, ReturnDecides DEF PostCheckSucceeds, Running
<1>5. CASE OptionalStart \/ RequiredStart \/ PreCheckPasses \/ ModeGatePasses \/ ActionSucceeds
  BY <1>5 DEF OptionalStart, RequiredStart, PreCheckPasses, ModeGatePasses, ActionSucceeds, Continue, Plan!vars
<1>6. CASE Leave
  <2>1. exit = "none" /\ UNCHANGED <<flags, result>>
    BY <1>6 DEF Leave, ReportInv, Remembered
  <2>2. Plan!Failed = Failures
    BY DEF Plan!Failed, Plan!Items, Failures, Steps
  <2>3. exit' = IF Failures = {} THEN "ok" ELSE "error"
    <3>1. (lastErr \/ (flags.precheck /\ precheckFailed)) <=> Failures # {}
      BY DEF ReportInv, Remembered
    <3>2. QED  BY <1>6, <3>1 DEF Leave
  <2>4. (\A i \in Steps : result[i] # "pending") \/ (~flags.precheck /\ Failures # {})
    <3>1. CASE lastErr
      BY <3>1 DEF ReportInv, Remembered
    <3>2. CASE ~lastErr
      BY <1>6, <3>2, NAssumption DEF Leave, ReportInv, ProgressInv, LoopPosition, Steps
    <3>3. QED  BY <3>1, <3>2
  <2>5. Plan!Conclude
    BY <2>1, <2>2, <2>3, <2>4 DEF Plan!Conclude, Plan!Items, Steps
  <2>6. QED  BY <2>5 DEF Plan!Next
<1>7. CASE UNCHANGED vars
  BY <1>7 DEF vars, Plan!vars
<1>8. QED  BY <1>2, <1>3, <1>4, <1>5, <1>6, <1>7 DEF Next, Gone

(* Steps are decided in list order, an apply stops at its first failure, a *)
(* precheck visits the whole list, and the exit status is an error exactly *)
(* when a step failed: the safety part of ImplementsPlanRun, for every     *)
(* list (the loop in cli/db.go around RunStep).                            *)
THEOREM FollowsPlan == Spec => Plan!Spec
<1>1. Init => Plan!Init
  BY DEF Init, Plan!Init, Plan!Items, Steps
<1>2. QED  BY <1>1, Reports, NextFollowsPlan, PTL DEF Spec, Plan!Spec

-----------------------------------------------------------------------------
(* The commands that the callbacks of a step execute: what an executor     *)
(* returns of one, for output of any length and pipes of any size.         *)

(* Types of what the codes and the output depend on; and a child that has  *)
(* not been started.                                                       *)
StreamTyped ==
    /\ cmd \in Commands
    /\ exitCode \in {0, 1} /\ status \in {NoCode, 0, 1}
    /\ written \in [Streams -> Nat] /\ buf \in [Streams -> Nat]
    /\ unread \in [Streams -> Nat]
    /\ pump \in [Streams -> {"read", "emit", "done"}]
    /\ timedOut \in BOOLEAN
    /\ main = "start" => child = "idle"

(* Whoever waits for the command knows its own exit code or none.          *)
StatusIsOwn == status # NoCode => child = "exited" /\ status = exitCode

(* A code that the call returns was its status, in a call that did not see *)
(* its deadline and whose pumps have ended.  No connection is left by then *)
(* that could change the status.                                           *)
CodeIsStatus ==
    code \in {0, 1} =>
        /\ main \in {"finish", "returned"} /\ code = status
        /\ ~cmd.local => ~timedOut /\ ~LinkUp
        /\ \A s \in Streams : pump[s] = "done"

(* Only the deadline makes the caller close the channel; a channel that is *)
(* closed otherwise was closed after an exit.  Wait over SSH returns when  *)
(* it is closed or lost.                                                   *)
ClosedInOrder ==
    /\ main = "join" /\ ~cmd.local => ~LinkUp
    /\ link = "closing" => timedOut
    /\ link = "closed" => ~cmd.local /\ (timedOut \/ child = "exited")

(* Until the connection breaks or is closed with lines on their way, every *)
(* line written is in the buffer or still to be read.                      *)
NothingLost ==
    link = "open" \/ (link = "closed" /\ ~timedOut)
        => \A s \in Streams : buf[s] + unread[s] = written[s]

(* A command exits when it has written everything, and a pump ends when    *)
(* everything is read and nothing more can come.                           *)
EndsLast ==
    /\ child = "exited" => written = cmd.lines
    /\ \A s \in Streams :
          pump[s] = "done" => unread[s] = 0 /\ (ChildDone \/ ~LinkUp)

CommandInv == /\ StreamTyped /\ StatusIsOwn /\ CodeIsStatus
              /\ ClosedInOrder /\ NothingLost /\ EndsLast

LEMMA CommandStarts ==
    ASSUME CommandInit
    PROVE  CommandInv
<1>1. /\ cmd \in Commands /\ exitCode = 0 /\ status = NoCode /\ code = NoCode
      /\ written = [s \in Streams |-> 0] /\ unread = written /\ buf = written
      /\ pump = [s \in Streams |-> "read"]
      /\ timedOut = FALSE /\ child = "idle" /\ link = "open" /\ main = "start"
  BY DEF CommandInit
<1>2. StreamTyped
  BY <1>1 DEF StreamTyped
<1>3. StatusIsOwn /\ CodeIsStatus
  BY <1>1 DEF StatusIsOwn, CodeIsStatus, NoCode
<1>4. ClosedInOrder /\ NothingLost /\ EndsLast
  BY <1>1 DEF ClosedInOrder, NothingLost, EndsLast
<1>5. QED  BY <1>2, <1>3, <1>4 DEF CommandInv

LEMMA CommandGoesOn ==
    ASSUME CommandInv, [CommandNext]_commandVars
    PROVE  CommandInv'
<1> USE DEF CommandInv, StreamTyped, StatusIsOwn, CodeIsStatus, ClosedInOrder,
            NothingLost, EndsLast, NoCode
<1> USE CapAssumption
<1>1. CASE \E s \in Streams : ChildWrites(s)
  BY <1>1 DEF ChildWrites, ChildDone, LinkUp
<1>2. CASE ChildExits
  BY <1>2 DEF ChildExits, ChildDone, LinkUp
<1>3. CASE RemoteCloses
  BY <1>3 DEF RemoteCloses, LoseSomeUnread, ExitStatus, ChildDone, LinkUp
<1>4. CASE TransportBreaks
  BY <1>4 DEF TransportBreaks, LoseSomeUnread, ExitStatus, ChildDone, LinkUp
<1>5. CASE DeadlineExpires
  BY <1>5 DEF DeadlineExpires, ChildDone, LinkUp
<1>6. CASE Starts
  BY <1>6 DEF Starts, ChildDone, LinkUp
<1>7. CASE StartFails
  <2>1. /\ main = "start" /\ main' = "finish" /\ code' \in {NoCode, TimeoutCode}
        /\ UNCHANGED <<cmd, child, exitCode, written, unread, link, status, buf, pump, timedOut>>
    BY <1>7 DEF StartFails
  <2>2. QED  BY <2>1 DEF ChildDone, LinkUp, TimeoutCode
<1>8. CASE KillLocal
  BY <1>8 DEF KillLocal, ChildDone, LinkUp
<1>9. CASE WaitReturnsLocal
  BY <1>9 DEF WaitReturnsLocal, LoseSomeUnread, ExitStatus, ChildDone, LinkUp
<1>10. CASE WaitReturnsSSH
  BY <1>10 DEF WaitReturnsSSH, ChildDone, LinkUp
<1>11. CASE OnTimeout
  BY <1>11 DEF OnTimeout, ChildDone, LinkUp
<1>12. CASE Join
  <2>1. /\ main = "join" /\ main' = "finish"
        /\ \A s \in Streams : pump[s] = "done"
        /\ code' = TimeoutCode \/ (code' = status /\ ~DeadlineSeen)
        /\ UNCHANGED <<cmd, child, exitCode, written, unread, link, status, buf, pump, timedOut>>
    BY <1>12 DEF Join
  <2>2. QED  BY <2>1 DEF ChildDone, LinkUp, DeadlineSeen, TimeoutCode
<1>13. CASE Finish
  BY <1>13 DEF Finish, ChildDone, LinkUp
<1>14. CASE \E s \in Streams : PumpRead(s)
  BY <1>14 DEF PumpRead, ChildDone, LinkUp
<1>15. CASE \E s \in Streams : PumpEmit(s) \/ PumpEnds(s)
  <2>1. PICK s \in Streams : PumpEmit(s) \/ PumpEnds(s)
    BY <1>15
  <2>2. /\ \/ pump[s] = "emit" /\ pump' = [pump EXCEPT ![s] = "read"]
           \/ /\ pump[s] = "read" /\ pump' = [pump EXCEPT ![s] = "done"]
              /\ unread[s] = 0 /\ (~LinkUp \/ ChildDone)
        /\ UNCHANGED <<cmd, child, exitCode, written, unread, link, status, buf, main, timedOut, code>>
    BY <2>1 DEF PumpEmit, PumpEnds
  <2>3. QED  BY <2>2 DEF ChildDone, LinkUp
<1>16. CASE UNCHANGED commandVars
  BY <1>16 DEF commandVars, ChildDone, LinkUp
<1>17. QED
  BY <1>1, <1>2, <1>3, <1>4, <1>5, <1>6, <1>7, <1>8, <1>9, <1>10, <1>11, <1>12, <1>13,
     <1>14, <1>15, <1>16 DEF CommandNext, Outside, Caller, Pump

LEMMA CommandInvHolds == CommandSpec => []CommandInv
<1>1. CommandInv /\ [CommandNext]_commandVars => CommandInv'
  BY CommandGoesOn
<1>2. QED  BY CommandStarts, <1>1, PTL DEF CommandSpec

(* Exit codes 0 and 1 are the command's own, and a command that was        *)
(* stopped, or whose end was not seen, never has one: for output of any    *)
(* length (exitCodeFromWait and the deadlines of ssh/executor.go).         *)
THEOREM CodesAreTrue == CommandSpec => []ExitCodeTruthful
<1>1. CommandInv => ExitCodeTruthful
  BY DEF CommandInv, StatusIsOwn, CodeIsStatus, ExitCodeTruthful, NoCode
<1>2. QED  BY CommandInvHolds, <1>1, PTL

(* A command whose SSH channel was closed in order gives the caller every  *)
(* line it wrote, whatever the window of the channel holds and however the *)
(* two pumps and the server take turns (pumpOutputStream, session.Wait).   *)
THEOREM RemoteOutputArrives == CommandSpec => []RemoteOutputComplete
<1>1. ASSUME CommandInv, main = "returned", link = "closed", code \in {0, 1}
      PROVE  buf = cmd.lines
  <2>1. ~timedOut /\ \A s \in Streams : pump[s] = "done"
    BY <1>1 DEF CommandInv, CodeIsStatus, ClosedInOrder
  <2>2. written = cmd.lines
    BY <1>1, <2>1 DEF CommandInv, ClosedInOrder, EndsLast
  <2>3. \A s \in Streams : buf[s] + unread[s] = written[s] /\ unread[s] = 0
    BY <1>1, <2>1 DEF CommandInv, NothingLost, EndsLast
  <2>4. buf = written
    BY <1>1, <2>3 DEF CommandInv, StreamTyped
  <2>5. QED  BY <2>2, <2>4
<1>2. CommandInv => RemoteOutputComplete
  BY <1>1 DEF RemoteOutputComplete
<1>3. QED  BY CommandInvHolds, <1>2, PTL
=============================================================================
