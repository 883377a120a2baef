--------------------------- MODULE WaveRunProofs ---------------------------
(***************************************************************************)
(* TLAPS proofs for DagPlan and WaveRun, for any number of steps: the      *)
(* planner rejects exactly the manifests it should, its cycle check never  *)
(* fires and a step's wave is its depth; a step starts only on stored      *)
(* results, the error reported is the first declared, and a cancel in the  *)
(* middle of a parallel wave is reported.                                  *)
(***************************************************************************)
EXTENDS WaveRun, FiniteSetTheorems, WellFoundedInduction, TLAPS

(* A set of natural numbers that is not empty has a least element.         *)
LEMMA LeastExists ==
  ASSUME NEW S, S \subseteq Nat, S # {}
  PROVE  \E x \in S : \A y \in S : x <= y
<1>1. PICK x \in S : \A y \in S : ~ (<<y, x>> \in OpToRel(<, Nat))
  BY NatLessThanWellFounded, WFMin
<1>2. \A y \in S : ~ (y < x)
  BY <1>1, Zenon DEF OpToRel
<1> QED BY <1>2

-----------------------------------------------------------------------------
(* The planner.                                                            *)

LEMMA PlanInitInv == PlanInit => PlanInv
<1> SUFFICES ASSUME PlanInit PROVE PlanInv
  OBVIOUS
<1> USE DagAssumption DEF PlanInit, NewPlan, NoDeps, Numberings, Steps, Ids
<1>1. PlanTypeOK
  <2>1. <<>> \in Seq(SUBSET Steps)
    OBVIOUS
  <2> QED BY <2>1 DEF PlanTypeOK, Stages, Errors
<1>2. ScannedInv
  BY DEF ScannedInv
<1>3. RejectsExactlyTheBad
  BY DEF RejectsExactlyTheBad
<1> QED BY <1>1, <1>2, <1>3 DEF PlanInv

(* A round of the layering always finds a step: the first that is not      *)
(* scheduled depends on earlier ones only, which are.                      *)
LEMMA NextWaveNotEmpty ==
  ASSUME PlanInv, plan.stage = "layer", Scheduled # Steps
  PROVE  NextWave # {}
<1> USE DagAssumption
<1>1. Scheduled \subseteq Steps
  <2>1. plan.waves \in Seq(SUBSET Steps)
    BY DEF PlanInv, PlanTypeOK
  <2>2. \A k \in 1..Len(plan.waves) : plan.waves[k] \subseteq Steps
    BY <2>1
  <2> QED BY <2>2 DEF Scheduled
<1> DEFINE open == Steps \ Scheduled
<1>2. open # {} /\ open \subseteq Nat
  <2>1. open # {}
    BY <1>1
  <2>2. Steps \subseteq Nat
    BY DEF Steps
  <2> QED BY <2>1, <2>2
<1> HIDE DEF open
<1>3. PICK i \in open : \A j \in open : i <= j
  BY <1>2, LeastExists
<1>4. i \in Steps /\ i \notin Scheduled
  BY <1>3 DEF open
<1>5. plan.deps[i] \subseteq 1..(i - 1)
  BY <1>4 DEF PlanInv, PlanTypeOK, ScannedInv, Steps
<1>6. \A j \in 1..(i - 1) : j \in Scheduled
  <2> SUFFICES ASSUME NEW j \in 1..(i - 1), j \notin Scheduled PROVE FALSE
    OBVIOUS
  <2>1. j \in open
    BY <1>4 DEF open, Steps
  <2> QED BY <2>1, <1>3, <1>4 DEF Steps
<1>7. i \in NextWave
  BY <1>4, <1>5, <1>6 DEF NextWave
<1> QED BY <1>7

(* Every step of the planner keeps the invariant.                          *)
LEMMA PlanNextInv ==
  ASSUME PlanInv, PlanNext
  PROVE  PlanInv'
<1> USE DagAssumption DEF PlanInv, planIn
<1>1. CASE CheckIds
  <2> USE <1>1 DEF CheckIds, Reject
  <2>1. PlanTypeOK'
    BY DEF PlanTypeOK, Stages, Errors, Steps, Ids
  <2>2. ScannedInv'
    BY ZenonT(40) DEF PlanTypeOK, ScannedInv, Stages, Errors, Steps
  <2>3. RejectsExactlyTheBad'
    BY DEF PlanTypeOK, RejectsExactlyTheBad, BadManifest, Stages, Errors, Steps
  <2> QED BY <2>1, <2>2, <2>3
<1>2. CASE ScanStep
  <2> DEFINE i == plan.at
             bad == {r \in refs[i] : RefError(i, r) # "none"}
  <2>1. i \in Steps /\ refs[i] \subseteq Ids /\ i \in Nat
    BY <1>2 DEF ScanStep, PlanTypeOK, Steps
  <2>2. CASE i \in unrooted /\ Reject("unrooted_steps_reference")
    BY <1>2, <2>1, <2>2
    DEF ScanStep, Reject, PlanTypeOK, ScannedInv, RejectsExactlyTheBad, BadManifest, Stages, Errors
  <2>3. ASSUME NEW r \in bad, Reject(RefError(i, r)) PROVE PlanInv'
    <3>1. r \in refs[i] /\ (r = 0 \/ r >= i)
      BY <2>1, <2>3 DEF RefError, Ids, Steps
    <3>2. BadManifest
      BY <2>1, <3>1 DEF BadManifest
    <3>3. RefError(i, r) \in {"self_ref", "unknown_step_ref", "forward_ref"}
      BY <2>1, <2>3 DEF RefError, Ids, Steps
    <3> QED
      BY <1>2, <2>1, <2>3, <3>2, <3>3
      DEF ScanStep, Reject, PlanTypeOK, ScannedInv, RejectsExactlyTheBad, BadManifest, Stages, Errors
  <2>4. CASE /\ i \notin unrooted /\ bad = {}
             /\ plan' = [plan EXCEPT !.at = i + 1, !.deps[i] = refs[i]]
    <3>1. \A r \in refs[i] : r \in 1..(i - 1)
      <4> SUFFICES ASSUME NEW r \in refs[i] PROVE r \in 1..(i - 1)
        OBVIOUS
      <4>1. RefError(i, r) = "none"
        BY <2>4
      <4>2. r \in Nat
        BY <2>1 DEF Ids
      <4> QED BY <2>1, <4>1, <4>2 DEF RefError
    <3>2. i \in 1..N /\ i + 1 \in 1..(N + 1)
      BY <2>1 DEF Steps
    <3>3. PlanTypeOK'
      BY <1>2, <2>1, <2>4, <3>2 DEF ScanStep, PlanTypeOK
    <3>4. ScannedInv'
      <4>1. plan'.at = i + 1 /\ plan'.stage = "deps"
            /\ plan'.deps = [plan.deps EXCEPT ![i] = refs[i]]
        BY <1>2, <2>4 DEF ScanStep, PlanTypeOK
      <4>2. ASSUME NEW j \in 1..i
            PROVE  j \notin unrooted /\ refs[j] \subseteq 1..(j - 1) /\ plan'.deps[j] = refs[j]
        <5>1. CASE j = i
          BY <5>1, <2>1, <2>4, <3>1, <4>1 DEF PlanTypeOK
        <5>2. CASE j # i
          <6>1. j \in 1..(plan.at - 1) /\ j \in Steps
            BY <5>2, <3>2 DEF Steps
          <6> QED BY <6>1, <5>2, <4>1, <2>1 DEF ScannedInv, PlanTypeOK
        <5> QED BY <5>1, <5>2
      <4>3. 1..(plan'.at - 1) = 1..i
        BY <4>1, <3>2
      <4> QED BY <1>2, <4>1, <4>2, <4>3 DEF ScanStep, ScannedInv
    <3>5. RejectsExactlyTheBad'
      BY <1>2, <2>4 DEF ScanStep, PlanTypeOK, RejectsExactlyTheBad
    <3> QED BY <3>3, <3>4, <3>5
  <2> QED BY <1>2, <2>2, <2>3, <2>4 DEF ScanStep
<1>3. CASE DepsDone
  <2>1. plan.at = N + 1
    BY <1>3 DEF DepsDone, PlanTypeOK
  <2> QED
    BY <1>3, <2>1 DEF DepsDone, PlanTypeOK, ScannedInv, RejectsExactlyTheBad, Stages, Errors
<1>4. CASE LayerWave
  <2>1. NextWave # {} /\ NextWave \subseteq Steps
    BY <1>4, NextWaveNotEmpty DEF LayerWave, NextWave
  <2>2. plan' = [plan EXCEPT !.waves = Append(@, NextWave)]
    BY <1>4, <2>1 DEF LayerWave
  <2>3. Append(plan.waves, NextWave) \in Seq(SUBSET Steps)
    BY <2>1 DEF PlanTypeOK
  <2> QED
    BY <1>4, <2>2, <2>3
    DEF LayerWave, PlanTypeOK, ScannedInv, RejectsExactlyTheBad, BadManifest
<1>5. CASE LayersDone
  <2>1. ~BadManifest
    <3>1. \A i \in Steps : i \notin unrooted /\ refs[i] \subseteq 1..(i - 1) /\ id[i] = i
      BY <1>5 DEF LayersDone, ScannedInv, PlanTypeOK, Steps
    <3>2. unrooted = {}
      BY <3>1 DEF PlanTypeOK
    <3>3. \A i \in Steps : \A r \in refs[i] : ~ (r = 0 \/ r >= i)
      BY <3>1 DEF Steps
    <3> QED BY <3>1, <3>2, <3>3 DEF BadManifest
  <2> QED
    BY <1>5, <2>1
    DEF LayersDone, PlanTypeOK, ScannedInv, RejectsExactlyTheBad, BadManifest, Stages, Errors
<1> QED BY <1>1, <1>2, <1>3, <1>4, <1>5 DEF PlanNext

(* Invoking the action keeps it too, and no other step looks at the plan.  *)
LEMMA PlanStepInv ==
  ASSUME PlanInv, [Next]_vars
  PROVE  PlanInv'
<1>1. CASE Planning
  BY <1>1, PlanNextInv DEF Planning
<1>2. CASE Invoke
  BY <1>2
  DEF Invoke, planIn, PlanInv, PlanTypeOK, ScannedInv, RejectsExactlyTheBad, BadManifest,
      Stages, Errors
<1>3. CASE UNCHANGED planVars
  BY <1>3
  DEF planVars, planIn, PlanInv, PlanTypeOK, ScannedInv, RejectsExactlyTheBad, BadManifest
<1>4. ASSUME ~ Planning, ~ Invoke PROVE UNCHANGED planVars
  BY <1>4
  DEF Next, Scheduler, vars, StartStep, AfterStep, SpawnWave, WaveCancelled, MergeWave,
      TaskPanicked, Finish, StepEnds, Cancel
<1> QED BY <1>1, <1>2, <1>3, <1>4

(* The planner rejects a manifest exactly if an id repeats, a template is  *)
(* unrooted or a reference is not to an earlier step, and never for a      *)
(* cycle, for any number of steps and any references.                      *)
THEOREM PlannerIsExact == Spec => []RejectsExactlyTheBad
<1>1. Init => PlanInv
  BY PlanInitInv DEF Init
<1>2. PlanInv /\ [Next]_vars => PlanInv'
  BY PlanStepInv
<1>3. PlanInv => RejectsExactlyTheBad
  BY DEF PlanInv
<1> QED BY <1>1, <1>2, <1>3, PTL DEF Spec

-----------------------------------------------------------------------------
(* A cancel in the middle of a parallel wave.                              *)

(* The wave being run has a task that is not joined.                       *)
LEMMA WaveIsOpen ==
  ASSUME PlanInv, Wave # {}
  PROVE  Wave \subseteq Steps /\ \E s \in Wave : task[s] # "joined"
<1> DEFINE open == {k \in 1..Len(plan.waves) : \E s \in plan.waves[k] : task[s] # "joined"}
           k == CHOOSE k \in open : \A l \in open : k <= l
<1>1. plan.waves \in Seq(SUBSET Steps)
  BY DEF PlanInv, PlanTypeOK
<1>2. open \subseteq Nat
  BY <1>1
<1>3. Wave = IF open = {} THEN {} ELSE plan.waves[k]
  BY DEF Wave
<1> HIDE DEF open
<1>4. open # {}
  BY <1>3
<1>5. k \in open
  BY <1>2, <1>4, LeastExists
<1>6. Wave = plan.waves[k]
  BY <1>3, <1>4
<1> HIDE DEF k
<1> QED BY <1>1, <1>5, <1>6 DEF open

(* It stays the same until a task is joined.                               *)
LEMMA WaveIsStable ==
  ASSUME PlanInv, UNCHANGED plan,
         \A s \in Steps : task'[s] = "joined" <=> task[s] = "joined"
  PROVE  Wave' = Wave
<1> DEFINE open == {k \in 1..Len(plan.waves) : \E s \in plan.waves[k] : task[s] # "joined"}
<1>1. plan.waves \in Seq(SUBSET Steps)
  BY DEF PlanInv, PlanTypeOK
<1>2. \A k \in 1..Len(plan.waves) : plan.waves[k] \subseteq Steps
  BY <1>1
<1>3. open' = open
  BY <1>2
<1> HIDE DEF open
<1>4. Wave = IF open = {} THEN {} ELSE plan.waves[CHOOSE k \in open : \A l \in open : k <= l]
  BY DEF Wave, open
<1>5. Wave' = IF open' = {} THEN {}
              ELSE plan'.waves[CHOOSE k \in open' : \A l \in open' : k <= l]
  BY DEF Wave, open
<1> QED BY <1>3, <1>4, <1>5

(* The invariant and the steps that may not end the wave.                  *)
LEMMA MidWaveStepInv ==
  ASSUME PlanInv, MidWaveInv, [Next]_vars
  PROVE  MidWaveInv'
<1> USE DEF MidWaveInv
<1>1. CASE Planning \/ Invoke
  BY <1>1
  DEF Planning, PlanNext, CheckIds, ScanStep, DepsDone, LayerWave, LayersDone, Invoke,
      WaveUnderWay, Running, taskVars, endVars
<1>2. CASE StartStep
  BY <1>2 DEF StartStep, WaveUnderWay, Ends, endVars
<1>3. ASSUME NEW s \in Steps, AfterStep(s) PROVE MidWaveInv'
  BY <1>3 DEF AfterStep, WaveUnderWay, Running, Ends, endVars
<1>4. CASE SpawnWave
  <2>1. midWave => outcome # "none"
    BY <1>4 DEF SpawnWave, WaveUnderWay
  <2> QED BY <1>4, <2>1 DEF SpawnWave, Running, Ends, endVars
<1>5. CASE WaveCancelled
  BY <1>5 DEF WaveCancelled, Ends, taskVars
<1>6. ASSUME NEW s \in Steps, TaskPanicked(s) PROVE MidWaveInv'
  BY <1>6 DEF TaskPanicked, taskVars
<1>7. CASE MergeWave
  BY <1>7 DEF MergeWave, JoinSlots
<1>8. CASE Finish
  <2>1. midWave => outcome # "none"
    BY <1>8, WaveIsOpen DEF Finish, WaveUnderWay
  <2> QED BY <1>8, <2>1 DEF Finish, Running, taskVars
<1>9. ASSUME NEW s \in Steps, NEW how, NEW bytes, StepEnds(s, how, bytes) PROVE MidWaveInv'
  <2>1. task' = [task EXCEPT ![s] = "ended"] /\ task[s] = "running"
    BY <1>9 DEF StepEnds
  <2>2. Wave' = Wave
    BY <1>9, <2>1, WaveIsStable DEF StepEnds, planVars
  <2>3. Parallel(Wave)' = Parallel(Wave)
    BY <1>9, <2>2 DEF StepEnds, Parallel, RequiresSequential, runIn
  <2> QED
    BY <1>9, <2>1, <2>2, <2>3, WaveIsOpen
    DEF StepEnds, WaveUnderWay, Running, endVars, planVars
<1>10. CASE Cancel
  <2>1. Wave' = Wave
    BY <1>10, WaveIsStable DEF Cancel, planVars, taskVars
  <2>2. Parallel(Wave)' = Parallel(Wave)
    BY <1>10, <2>1 DEF Cancel, Parallel, RequiresSequential, runIn
  <2> QED
    BY <1>10, <2>1, <2>2 DEF Cancel, WaveUnderWay, Running, endVars, planVars, taskVars
<1>11. CASE UNCHANGED vars
  <2>1. Wave' = Wave
    BY <1>11, WaveIsStable DEF vars, planVars, taskVars
  <2>2. Parallel(Wave)' = Parallel(Wave)
    BY <1>11, <2>1 DEF vars, Parallel, RequiresSequential, runIn
  <2> QED
    BY <1>11, <2>1, <2>2 DEF vars, WaveUnderWay, Running, endVars, planVars, taskVars
<1> QED
  BY <1>1, <1>2, <1>3, <1>4, <1>5, <1>6, <1>7, <1>8, <1>9, <1>10, <1>11 DEF Next, Scheduler

(* Once the token fires in the middle of a parallel wave, the run can only *)
(* end cancelled, for any number of steps and any wave.                    *)
THEOREM MidWaveCancel == Spec => []MidWaveCancelIsReported
<1>1. Init => PlanInv /\ MidWaveInv
  BY PlanInitInv DEF Init, MidWaveInv
<1>2. PlanInv /\ MidWaveInv /\ [Next]_vars => (PlanInv /\ MidWaveInv)'
  BY PlanStepInv, MidWaveStepInv
<1>3. MidWaveInv => MidWaveCancelIsReported
  BY DEF MidWaveInv, MidWaveCancelIsReported
<1> QED BY <1>1, <1>2, <1>3, PTL DEF Spec
-----------------------------------------------------------------------------
(* The layering.  Depth is recursive, so its equation and its range are    *)
(* shown by the least step they could fail for.                            *)

(* What Depth computes at step i from the depths g of earlier steps.       *)
DepthOver(below) == IF below = {} THEN 1 ELSE 1 + CHOOSE d \in below : \A e \in below : e <= d
DepthFrom(g, i) == DepthOver({g[r] : r \in refs[i]})

BackwardRefs == \A i \in Steps : refs[i] \subseteq 1..(i - 1)

(* The recursion is well founded: the steps up to k have depths, for every *)
(* k, as a least k without them would follow one with them.                *)
LEMMA DepthEquation ==
  ASSUME BackwardRefs
  PROVE  Depth = [i \in Steps |-> DepthFrom(Depth, i)]
<1> USE DagAssumption DEF Steps
<1> DEFINE Has(k) == \E g : g = [i \in 1..k |-> DepthFrom(g, i)]
           lacks == {k \in 0..N : ~ Has(k)}
<1>1. Has(0)
  <2>1. PICK g : g = [i \in 1..0 |-> 1]
    OBVIOUS
  <2>2. [i \in 1..0 |-> 1] = [i \in 1..0 |-> DepthFrom(g, i)]
    OBVIOUS
  <2> QED BY <2>1, <2>2
<1>2. ASSUME NEW k \in 1..N, Has(k - 1) PROVE Has(k)
  <2>1. PICK g : g = [i \in 1..(k - 1) |-> DepthFrom(g, i)]
    BY <1>2
  <2> DEFINE h == [i \in 1..k |-> IF i < k THEN g[i] ELSE DepthFrom(g, k)]
  <2>2. ASSUME NEW i \in 1..k PROVE DepthFrom(h, i) = DepthFrom(g, i)
    <3>1. refs[i] \subseteq 1..(k - 1)
      BY DEF BackwardRefs
    <3>2. \A r \in refs[i] : h[r] = g[r]
      BY <3>1
    <3>3. {h[r] : r \in refs[i]} = {g[r] : r \in refs[i]}
      BY <3>2
    <3> HIDE DEF h
    <3> QED BY <3>3 DEF DepthFrom
  <2>3. ASSUME NEW i \in 1..k PROVE h[i] = DepthFrom(g, i)
    <3>1. CASE i = k
      BY <3>1
    <3>2. CASE i # k
      <4>1. i \in 1..(k - 1) /\ i < k
        BY <3>2
      <4> QED BY <4>1, <2>1
    <3> QED BY <3>1, <3>2
  <2>4. h = [i \in 1..k |-> h[i]]
    OBVIOUS
  <2> HIDE DEF h
  <2>5. h = [i \in 1..k |-> DepthFrom(h, i)]
    BY <2>2, <2>3, <2>4
  <2> QED BY <2>5
<1> HIDE DEF Has
<1>3. lacks = {}
  <2> SUFFICES ASSUME lacks # {} PROVE FALSE
    OBVIOUS
  <2>1. PICK k \in lacks : \A l \in lacks : k <= l
    <3>1. lacks \subseteq Nat
      OBVIOUS
    <3> HIDE DEF lacks
    <3> QED BY <3>1, LeastExists
  <2>2. k \in 1..N
    BY <2>1, <1>1
  <2>3. Has(k - 1)
    BY <2>1, <2>2
  <2> QED BY <2>1, <2>2, <2>3, <1>2
<1>4. \E g : g = [i \in Steps |-> DepthFrom(g, i)]
  <2>1. Has(N)
    BY <1>3
  <2> QED BY <2>1 DEF Has
<1>5. Depth = CHOOSE g : g = [i \in Steps |-> DepthFrom(g, i)]
  BY Zenon DEF Depth, DepthFrom, DepthOver
<1> QED BY <1>4, <1>5, Zenon

LEMMA GreatestExists ==
  ASSUME NEW b \in Nat, NEW S, S \subseteq 1..b, S # {}
  PROVE  \E x \in S : \A y \in S : y <= x
<1> DEFINE T == {b - x : x \in S}
<1>1. T \subseteq Nat /\ T # {}
  <2>1. PICK x \in S : TRUE
    OBVIOUS
  <2>2. b - x \in T
    BY <2>1
  <2>3. \A y \in S : b - y \in Nat
    OBVIOUS
  <2> QED BY <2>2, <2>3
<1>2. PICK z \in T : \A y \in T : z <= y
  <2> HIDE DEF T
  <2> QED BY <1>1, LeastExists
<1>3. PICK x \in S : z = b - x
  OBVIOUS
<1>4. ASSUME NEW y \in S PROVE y <= x
  <2>1. b - y \in T
    OBVIOUS
  <2>2. b - x <= b - y
    BY <2>1, <1>2, <1>3
  <2> QED BY <2>2
<1> QED BY <1>4

(* One more than the greatest depth below.                                 *)
LEMMA DepthOverIsLeast ==
  ASSUME NEW b \in Nat, NEW S, S \subseteq 1..b
  PROVE  /\ DepthOver(S) \in 1..(b + 1)
         /\ \A m \in Nat : DepthOver(S) <= m + 1 <=> S \subseteq 1..m
<1>1. CASE S = {}
  BY <1>1 DEF DepthOver
<1>2. CASE S # {}
  <2> DEFINE d == CHOOSE d \in S : \A e \in S : e <= d
  <2>1. d \in S /\ \A e \in S : e <= d
    BY <1>2, GreatestExists
  <2>2. DepthOver(S) = 1 + d
    BY <1>2 DEF DepthOver
  <2> HIDE DEF d
  <2> QED BY <2>1, <2>2
<1> QED BY <1>1, <1>2

LEMMA DepthRange ==
  ASSUME BackwardRefs
  PROVE  \A i \in Steps : Depth[i] \in 1..i
<1> USE DagAssumption DEF Steps
<1> DEFINE bad == {i \in Steps : Depth[i] \notin 1..i}
<1> SUFFICES ASSUME bad # {} PROVE FALSE
  OBVIOUS
<1>1. bad \subseteq Nat
  OBVIOUS
<1>2. PICK i \in bad : \A j \in bad : i <= j
  <2> HIDE DEF bad
  <2> QED BY <1>1, LeastExists
<1>3. i \in Steps /\ i - 1 \in Nat
  OBVIOUS
<1>4. ASSUME NEW r \in refs[i] PROVE Depth[r] \in 1..(i - 1)
  <2>1. r \in 1..(i - 1) /\ r \in Steps
    BY <1>3 DEF BackwardRefs
  <2>2. r \notin bad
    BY <2>1, <1>2, <1>3
  <2>3. Depth[r] \in 1..r
    BY <2>1, <2>2
  <2> QED BY <2>1, <2>3
<1>5. {Depth[r] : r \in refs[i]} \subseteq 1..(i - 1)
  BY <1>4
<1>6. Depth[i] = DepthFrom(Depth, i)
  BY <1>3, DepthEquation
<1>7. DepthFrom(Depth, i) \in 1..i
  BY <1>3, <1>5, DepthOverIsLeast DEF DepthFrom
<1> QED BY <1>6, <1>7

(* A step lies within the first m + 1 levels exactly if all it refers to   *)
(* lies within the first m.                                                *)
LEMMA DepthBound ==
  ASSUME BackwardRefs, NEW i \in Steps, NEW m \in Nat
  PROVE  Depth[i] <= m + 1 <=> \A r \in refs[i] : Depth[r] <= m
<1> USE DagAssumption DEF Steps
<1>1. \A r \in refs[i] : r \in Steps /\ Depth[r] \in 1..(i - 1)
  <2> TAKE r \in refs[i]
  <2>1. r \in 1..(i - 1) /\ r \in Steps
    BY DEF BackwardRefs
  <2>2. Depth[r] \in 1..r
    BY <2>1, DepthRange
  <2> QED BY <2>1, <2>2
<1> DEFINE below == {Depth[r] : r \in refs[i]}
<1>2. below \subseteq 1..(i - 1)
  BY <1>1
<1>3. Depth[i] = DepthOver(below)
  BY DepthEquation DEF DepthFrom
<1>4. below \subseteq 1..m <=> \A r \in refs[i] : Depth[r] <= m
  BY <1>1
<1> HIDE DEF below
<1>5. DepthOver(below) <= m + 1 <=> below \subseteq 1..m
  <2>1. i - 1 \in Nat
    OBVIOUS
  <2> QED BY <2>1, <1>2, DepthOverIsLeast
<1> QED BY <1>3, <1>4, <1>5

LEMMA DepthStable ==
  ASSUME UNCHANGED refs
  PROVE  Depth' = Depth
BY DEF Depth

(* Wave k and everything the layering has established about it.            *)
Level(k) == {s \in Steps : Depth[s] = k}

LayerInv ==
  /\ plan.stage \in {"ids", "deps"} => plan.waves = <<>>
  /\ plan.stage \in {"layer", "ready", "run"} =>
       \A k \in 1..Len(plan.waves) : plan.waves[k] = Level(k)
  /\ plan.stage \in {"ready", "run"} => \A s \in Steps : Depth[s] \in 1..Len(plan.waves)

LEMMA Backward ==
  ASSUME PlanInv, plan.stage \in {"layer", "ready", "run"}
  PROVE  BackwardRefs /\ plan.deps = refs
<1>1. \A i \in Steps : refs[i] \subseteq 1..(i - 1) /\ plan.deps[i] = refs[i]
  BY DagAssumption DEF PlanInv, ScannedInv, Steps
<1>2. plan.deps = refs
  BY <1>1 DEF PlanInv, PlanTypeOK
<1> QED BY <1>1, <1>2 DEF BackwardRefs

LEMMA LayerInitInv == PlanInit => LayerInv
BY DEF PlanInit, NewPlan, LayerInv

(* A round schedules exactly the next level: what is not scheduled lies    *)
(* beyond the last level, and its references are scheduled exactly if they *)
(* all lie within it.                                                      *)
LEMMA NextWaveIsLevel ==
  ASSUME PlanInv, LayerInv, plan.stage = "layer"
  PROVE  NextWave = Level(Len(plan.waves) + 1)
<1> DEFINE m == Len(plan.waves)
<1>1. plan.waves \in Seq(SUBSET Steps) /\ m \in Nat
  BY DEF PlanInv, PlanTypeOK
<1>2. BackwardRefs /\ plan.deps = refs
  BY Backward
<1>3. \A s \in Steps : Depth[s] \in Nat \ {0}
  BY <1>2, DepthRange, DagAssumption DEF Steps
<1>4. ASSUME NEW s \in Steps PROVE s \in Scheduled <=> Depth[s] <= m
  BY <1>1, <1>3 DEF Scheduled, LayerInv, Level
<1>5. ASSUME NEW s \in Steps PROVE refs[s] \subseteq Scheduled <=> Depth[s] <= m + 1
  <2>1. refs[s] \subseteq Steps
    BY <1>2, DagAssumption DEF BackwardRefs, Steps
  <2>2. refs[s] \subseteq Scheduled <=> \A r \in refs[s] : Depth[r] <= m
    BY <2>1, <1>4
  <2> QED BY <2>2, <1>1, <1>2, DepthBound
<1>6. ASSUME NEW s \in Steps PROVE s \in NextWave <=> Depth[s] = m + 1
  <2>1. s \in NextWave <=> s \notin Scheduled /\ refs[s] \subseteq Scheduled
    BY <1>2 DEF NextWave
  <2>2. Depth[s] \in Nat
    BY <1>3
  <2> QED BY <2>1, <2>2, <1>1, <1>4, <1>5
<1> QED BY <1>6 DEF NextWave, Level

LEMMA LayerStepInv ==
  ASSUME PlanInv, LayerInv, [Next]_vars
  PROVE  LayerInv'
<1>1. UNCHANGED refs => Depth' = Depth
  BY DepthStable
<1>2. UNCHANGED refs => \A k : Level(k)' = Level(k)
  BY <1>1 DEF Level, Steps
<1> USE DEF PlanInv, PlanTypeOK
<1>3. CASE CheckIds \/ ScanStep \/ DepsDone
  <2>1. UNCHANGED refs
    BY <1>3 DEF CheckIds, ScanStep, DepsDone, planIn
  <2>2. plan'.waves = plan.waves /\ plan.stage \in {"ids", "deps"}
        /\ plan'.stage \in {"ids", "deps", "layer", "rejected"}
    BY <1>3 DEF CheckIds, ScanStep, DepsDone, Reject
  <2> QED BY <2>1, <2>2 DEF LayerInv
<1>4. CASE LayerWave
  <2>1. NextWave # {} /\ NextWave = Level(Len(plan.waves) + 1) /\ UNCHANGED refs
    BY <1>4, NextWaveNotEmpty, NextWaveIsLevel DEF LayerWave, planIn
  <2>2. plan' = [plan EXCEPT !.waves = Append(@, NextWave)] /\ plan.stage = "layer"
    BY <1>4, <2>1 DEF LayerWave
  <2>3. plan'.waves = Append(plan.waves, NextWave) /\ plan'.stage = "layer"
    BY <2>2
  <2>4. plan.waves \in Seq(SUBSET Steps)
    OBVIOUS
  <2>5. ASSUME NEW k \in 1..Len(plan'.waves) PROVE plan'.waves[k] = Level(k)'
    <3>1. CASE k = Len(plan.waves) + 1
      BY <3>1, <1>2, <2>1, <2>3, <2>4
    <3>2. CASE k # Len(plan.waves) + 1
      <4>1. k \in 1..Len(plan.waves)
        BY <3>2, <2>3, <2>4
      <4> QED BY <4>1, <1>2, <2>1, <2>2, <2>3, <2>4 DEF LayerInv
    <3> QED BY <3>1, <3>2
  <2> QED BY <2>3, <2>5 DEF LayerInv
<1>5. CASE LayersDone
  <2>1. UNCHANGED refs /\ Scheduled = Steps /\ plan.stage = "layer"
        /\ plan'.waves = plan.waves /\ plan'.stage = "ready"
    BY <1>5 DEF LayersDone, planIn
  <2>2. ASSUME NEW s \in Steps PROVE Depth[s] \in 1..Len(plan.waves)
    BY <2>1 DEF Scheduled, LayerInv, Level
  <2> QED BY <1>1, <1>2, <2>1, <2>2 DEF LayerInv
<1>6. CASE Invoke
  <2>1. UNCHANGED refs /\ plan'.waves = plan.waves /\ plan.stage = "ready" /\ plan'.stage = "run"
    BY <1>6 DEF Invoke, planIn
  <2> QED BY <1>1, <1>2, <2>1 DEF LayerInv
<1>7. CASE UNCHANGED planVars
  <2>1. UNCHANGED <<refs, plan>>
    BY <1>7 DEF planVars, planIn
  <2> QED BY <1>1, <1>2, <2>1 DEF LayerInv
<1>8. ASSUME ~ Planning, ~ Invoke PROVE UNCHANGED planVars
  BY <1>8
  DEF Next, Scheduler, vars, StartStep, AfterStep, SpawnWave, WaveCancelled, MergeWave,
      TaskPanicked, Finish, StepEnds, Cancel
<1> QED BY <1>3, <1>4, <1>5, <1>6, <1>7, <1>8 DEF Planning, PlanNext

(* Every step runs in the wave of its depth in the reference graph: behind *)
(* all it refers to and no later than it must be, for any number of steps. *)
THEOREM LayeredByDepth == Spec => []WavesAreTheDepths
<1>1. Init => PlanInv /\ LayerInv
  BY PlanInitInv, LayerInitInv DEF Init
<1>2. PlanInv /\ LayerInv /\ [Next]_vars => (PlanInv /\ LayerInv)'
  BY PlanStepInv, LayerStepInv
<1>3. LayerInv => WavesAreTheDepths
  BY DEF LayerInv, WavesAreTheDepths, Level
<1> QED BY <1>1, <1>2, <1>3, PTL DEF Spec

-----------------------------------------------------------------------------
(* The run.                                                                *)

Fates == {"none", "ok", "return"} \cup Failing
CanonStates ==
  [stored : SUBSET Steps, bytes : Nat, tripped : BOOLEAN, variable : 0..N, ret : 0..N]

WaveTypeOK ==
  /\ task \in [Steps -> {"waiting", "running", "ended", "joined"}]
  /\ fate \in [Steps -> Fates]
  /\ size \in [Steps -> Nat]
  /\ canon \in CanonStates

(* Nothing runs before the plan does, and a fate comes with a step's end.  *)
FateInv ==
  /\ plan.stage # "run" => outcome = "none" /\ \A s \in Steps : task[s] = "waiting"
  /\ \A s \in Steps : fate[s] = "none" <=> task[s] \in {"waiting", "running"}

(* A step that has started has every earlier wave behind it.               *)
BehindInv ==
  \A s, t \in Steps : task[s] # "waiting" /\ Depth[t] < Depth[s] => task[t] = "joined"

(* While the run is under way what was joined has left its mark.           *)
JoinedInv ==
  outcome = "none" =>
    \A s \in Steps : task[s] = "joined" =>
      \/ fate[s] = "ok" /\ s \in canon.stored
      \/ fate[s] = "return" /\ canon.ret # 0

(* A result that fitted when its step ended still does.                    *)
FitsInv ==
  outcome = "none" =>
    \A s \in Steps : task[s] = "ended" /\ fate[s] = "ok" => canon.bytes + size[s] <= Limit

(* The steps of a sequential wave take turns.                              *)
TurnInv ==
  outcome = "none" =>
    \A s, t \in Steps :
      /\ task[t] \in {"running", "ended"}
      /\ s < t /\ Depth[s] = Depth[t]
      /\ ~Parallel(Level(Depth[s]))
      => task[s] = "joined"

WaveInv ==
  /\ WaveTypeOK /\ FateInv /\ BehindInv /\ JoinedInv /\ FitsInv /\ TurnInv
  /\ NoStepOnMissingResult /\ ErrorIsTheFirstDeclared

(* The merge is a fold over a set, a recursive function on its subsets.    *)
(* One exists by the argument used for Depth: add the steps in order.      *)
MergeFrom(g, s) == IF s = {} THEN canon ELSE Store(Last(s), g[s \ {Last(s)}])
Upto(W, k) == {t \in W : t <= k}

LEMMA LastIs ==
  ASSUME NEW S, S \subseteq Steps, NEW k \in S, \A t \in S : t <= k
  PROVE  Last(S) = k
<1>1. S \subseteq Int
  BY DagAssumption DEF Steps
<1>2. \A x \in S : (\A t \in S : x >= t) => x = k
  BY <1>1
<1>3. \A t \in S : k >= t
  BY <1>1
<1> QED BY <1>2, <1>3 DEF Last

LEMMA LastIn ==
  ASSUME NEW S, S \subseteq Steps, S # {}
  PROVE  Last(S) \in S /\ \A t \in S : t <= Last(S)
<1>1. PICK k \in S : \A t \in S : t <= k
  BY GreatestExists, DagAssumption DEF Steps
<1> QED BY <1>1, LastIs

LEMMA UptoFacts ==
  ASSUME NEW W, W \subseteq Steps
  PROVE  /\ Upto(W, 0) = {} /\ Upto(W, N) = W
         /\ \A k \in 1..N : k \notin W => Upto(W, k) = Upto(W, k - 1)
<1>1. \A t \in W : t \in Int /\ 1 <= t /\ t <= N
  BY DagAssumption DEF Steps
<1>2. ASSUME NEW k \in 1..N, k \notin W PROVE Upto(W, k) = Upto(W, k - 1)
  <2>1. \A t \in W : t <= k <=> t <= k - 1
    BY <1>1, <1>2, DagAssumption
  <2> QED BY <2>1 DEF Upto
<1>3. \A t \in W : ~ (t <= 0)
  BY <1>1
<1> QED BY <1>1, <1>2, <1>3 DEF Upto

LEMMA MergeEquation ==
  ASSUME NEW W, W \subseteq Steps
  PROVE  \E g : /\ g = [s \in SUBSET W |-> MergeFrom(g, s)]
                /\ MapThenFoldSet(Store, canon, Itself, Last, W) = g[W]
<1> USE DagAssumption
<1> DEFINE Has(k) == \E g : g = [s \in SUBSET Upto(W, k) |-> MergeFrom(g, s)]
           lacks == {k \in 0..N : ~ Has(k)}
<1>1. Has(0)
  <2>1. Upto(W, 0) = {}
    BY UptoFacts
  <2>2. PICK g : g = [s \in {{}} |-> canon]
    OBVIOUS
  <2>3. g = [s \in SUBSET Upto(W, 0) |-> MergeFrom(g, s)]
    BY <2>1, <2>2 DEF MergeFrom
  <2> QED BY <2>3
<1>2. ASSUME NEW k \in 1..N, Has(k - 1) PROVE Has(k)
  <2>1. PICK g : g = [s \in SUBSET Upto(W, k - 1) |-> MergeFrom(g, s)]
    BY <1>2
  <2>2. CASE k \notin W
    <3>1. Upto(W, k) = Upto(W, k - 1)
      BY <2>2, UptoFacts
    <3> QED BY <2>1, <3>1
  <2>3. CASE k \in W
    <3> DEFINE h == [s \in SUBSET Upto(W, k) |->
                       IF k \in s THEN Store(k, g[s \ {k}]) ELSE g[s]]
    <3>1. ASSUME NEW s \in SUBSET Upto(W, k), k \notin s
          PROVE  s \in SUBSET Upto(W, k - 1)
      BY <3>1 DEF Upto, Steps
    <3>2. ASSUME NEW s \in SUBSET Upto(W, k) PROVE h[s] = MergeFrom(h, s)
      <4>1. CASE k \in s
        <5>1. Last(s) = k
          <6>1. s \subseteq Steps /\ \A t \in s : t <= k
            BY DEF Upto
          <6> QED BY <6>1, <4>1, LastIs
        <5>2. s \ {k} \in SUBSET Upto(W, k) /\ k \notin s \ {k}
          OBVIOUS
        <5>3. h[s \ {k}] = g[s \ {k}]
          BY <5>2
        <5>4. h[s] = Store(k, g[s \ {k}])
          BY <4>1
        <5> HIDE DEF h
        <5> QED BY <4>1, <5>1, <5>3, <5>4 DEF MergeFrom
      <4>2. CASE k \notin s
        <5>1. s \in SUBSET Upto(W, k - 1) /\ h[s] = g[s]
          BY <3>1, <4>2
        <5>2. g[s] = MergeFrom(g, s)
          BY <2>1, <5>1
        <5>3. h[s \ {Last(s)}] = g[s \ {Last(s)}]
          <6>1. s \ {Last(s)} \in SUBSET Upto(W, k) /\ k \notin s \ {Last(s)}
            BY <4>2
          <6> QED BY <6>1
        <5> HIDE DEF h
        <5> QED BY <5>1, <5>2, <5>3 DEF MergeFrom
      <4> QED BY <4>1, <4>2
    <3>3. h = [s \in SUBSET Upto(W, k) |-> h[s]]
      OBVIOUS
    <3> HIDE DEF h
    <3>4. h = [s \in SUBSET Upto(W, k) |-> MergeFrom(h, s)]
      BY <3>2, <3>3
    <3> QED BY <3>4
  <2> QED BY <2>2, <2>3
<1> HIDE DEF Has
<1>3. lacks = {}
  <2> SUFFICES ASSUME lacks # {} PROVE FALSE
    OBVIOUS
  <2>1. PICK k \in lacks : \A l \in lacks : k <= l
    <3>1. lacks \subseteq Nat
      OBVIOUS
    <3> HIDE DEF lacks
    <3> QED BY <3>1, LeastExists
  <2>2. k \in 1..N
    BY <2>1, <1>1
  <2>3. Has(k - 1)
    BY <2>1, <2>2
  <2> QED BY <2>1, <2>2, <2>3, <1>2
<1>4. \E g : g = [s \in SUBSET W |-> MergeFrom(g, s)]
  <2>1. Has(N)
    BY <1>3
  <2>2. Upto(W, N) = W
    BY UptoFacts
  <2> QED BY <2>1, <2>2 DEF Has
<1> DEFINE iter == CHOOSE g : g = [s \in SUBSET W |-> MergeFrom(g, s)]
<1>5. MapThenFoldSet(Store, canon, Itself, Last, W) = iter[W]
  BY Zenon DEF MapThenFoldSet, MergeFrom, Itself
<1>6. iter = [s \in SUBSET W |-> MergeFrom(iter, s)]
  BY <1>4, Zenon
<1> HIDE DEF iter
<1> QED BY <1>5, <1>6

(* What merging the steps U leaves in the canonical state: nothing stored  *)
(* is lost, a return is kept, and unless the budget tripped every result   *)
(* is there.                                                               *)
Leaves(c, U) ==
  /\ c \in CanonStates
  /\ canon.stored \subseteq c.stored
  /\ \A t \in U : fate[t] = "return" => c.ret # 0
  /\ canon.ret # 0 => c.ret # 0
  /\ ~c.tripped => \A t \in U : fate[t] = "ok" => t \in c.stored

LEMMA StoreFields ==
  ASSUME WaveTypeOK, NEW c \in CanonStates, NEW k \in Steps
  PROVE  /\ Store(k, c) \in CanonStates
         /\ c.stored \subseteq Store(k, c).stored
         /\ fate[k] = "return" => Store(k, c).ret # 0
         /\ c.ret # 0 => Store(k, c).ret # 0
         /\ c.tripped => Store(k, c).tripped
         /\ ~Store(k, c).tripped /\ fate[k] = "ok" => k \in Store(k, c).stored
         /\ fate[k] = "ok" /\ c.bytes + size[k] <= Limit => k \in Store(k, c).stored
<1> USE DagAssumption, WaveAssumption
<1> DEFINE has == fate[k] = "ok"
           fits == c.bytes + size[k] <= Limit
           d == Store(k, c)
<1>1. c = [stored |-> c.stored, bytes |-> c.bytes, tripped |-> c.tripped,
           variable |-> c.variable, ret |-> c.ret]
  BY DEF CanonStates
<1>2. c.stored \subseteq Steps /\ c.bytes \in Nat /\ c.tripped \in BOOLEAN
      /\ c.variable \in 0..N /\ c.ret \in 0..N /\ size[k] \in Nat /\ k \in 1..N
  BY DEF CanonStates, WaveTypeOK, Steps
<1>3. /\ d.stored = IF has /\ fits THEN c.stored \cup {k} ELSE c.stored
      /\ d.ret = IF fate[k] = "return" /\ c.ret = 0 THEN k ELSE c.ret
  BY <1>1 DEF Store, CanonStates
<1>4. d.tripped = (c.tripped \/ fate[k] = "violation" \/ (has /\ ~fits))
  BY <1>1 DEF Store, CanonStates
<1>5. d \in CanonStates
  <2> DEFINE st == IF has /\ fits THEN c.stored \cup {k} ELSE c.stored
             by == IF has /\ fits THEN c.bytes + size[k] ELSE c.bytes
             tr == c.tripped \/ fate[k] = "violation" \/ (has /\ ~fits)
             re == IF fate[k] = "return" /\ c.ret = 0 THEN k ELSE c.ret
  <2>1. d = [c EXCEPT !.stored = st, !.bytes = by, !.tripped = tr, !.ret = re]
    BY <1>1 DEF Store
  <2>2. st \in SUBSET Steps /\ by \in Nat /\ re \in 0..N
    BY <1>2
  <2>3. tr \in BOOLEAN
    OBVIOUS
  <2> HIDE DEF st, by, tr, re, d
  <2> QED BY <2>1, <2>2, <2>3 DEF CanonStates
<1> HIDE DEF d
<1> HIDE DEF fits, has
<1>6. /\ Store(k, c).stored = IF has /\ fits THEN c.stored \cup {k} ELSE c.stored
      /\ Store(k, c).ret = IF fate[k] = "return" /\ c.ret = 0 THEN k ELSE c.ret
      /\ Store(k, c).tripped = (c.tripped \/ fate[k] = "violation" \/ (has /\ ~fits))
      /\ k # 0
  BY <1>2, <1>3, <1>4 DEF d
<1> QED BY <1>5, <1>6 DEF d, has, fits

LEMMA StoreLeaves ==
  ASSUME WaveTypeOK, NEW U \in SUBSET Steps, NEW k \in Steps, NEW c, Leaves(c, U)
  PROVE  Leaves(Store(k, c), U \cup {k})
<1>1. c \in CanonStates
  BY DEF Leaves
<1> QED BY <1>1, StoreFields DEF Leaves

LEMMA MergeLeaves ==
  ASSUME WaveTypeOK, NEW W, W \subseteq Steps
  PROVE  Leaves(MapThenFoldSet(Store, canon, Itself, Last, W), W)
<1> USE DagAssumption
<1>1. PICK g : /\ g = [s \in SUBSET W |-> MergeFrom(g, s)]
               /\ MapThenFoldSet(Store, canon, Itself, Last, W) = g[W]
  BY MergeEquation
<1> DEFINE Ok(k) == Leaves(g[Upto(W, k)], Upto(W, k))
           bad == {k \in 0..N : ~ Ok(k)}
<1>2. Ok(0)
  <2>1. Upto(W, 0) = {}
    BY UptoFacts
  <2>2. g[{}] = canon
    BY <1>1 DEF MergeFrom
  <2>3. Leaves(canon, {})
    BY DEF Leaves, WaveTypeOK
  <2> QED BY <2>1, <2>2, <2>3
<1>3. ASSUME NEW k \in 1..N, Ok(k - 1) PROVE Ok(k)
  <2>1. CASE k \notin W
    <3>1. Upto(W, k) = Upto(W, k - 1)
      BY <2>1, UptoFacts
    <3> QED BY <3>1, <1>3
  <2>2. CASE k \in W
    <3> DEFINE s == Upto(W, k)
    <3>1. s \in SUBSET W /\ k \in s /\ \A t \in s : t <= k
      BY <2>2 DEF Upto
    <3>2. s \ {k} = Upto(W, k - 1)
      <4>1. \A t \in W : t <= k /\ t # k <=> t <= k - 1
        BY DEF Steps
      <4> QED BY <4>1 DEF Upto
    <3>3. Last(s) = k
      BY <3>1, LastIs
    <3>4. g[s] = Store(k, g[Upto(W, k - 1)])
      <4>1. s # {}
        BY <3>1
      <4>2. g[s] = MergeFrom(g, s)
        BY <1>1, <3>1
      <4> QED BY <4>1, <4>2, <3>2, <3>3 DEF MergeFrom
    <3>5. s = Upto(W, k - 1) \cup {k} /\ Upto(W, k - 1) \in SUBSET Steps /\ k \in Steps
      BY <3>1, <3>2, <2>2
    <3> HIDE DEF s
    <3>6. Leaves(g[s], s)
      BY <1>3, <3>4, <3>5, StoreLeaves
    <3> QED BY <3>6 DEF s
  <2> QED BY <2>1, <2>2
<1> HIDE DEF Ok
<1>4. bad = {}
  <2> SUFFICES ASSUME bad # {} PROVE FALSE
    OBVIOUS
  <2>1. PICK k \in bad : \A l \in bad : k <= l
    <3>1. bad \subseteq Nat
      OBVIOUS
    <3> HIDE DEF bad
    <3> QED BY <3>1, LeastExists
  <2>2. k \in 1..N
    BY <2>1, <1>2
  <2>3. Ok(k - 1)
    BY <2>1, <2>2
  <2> QED BY <2>1, <2>2, <2>3, <1>3
<1>5. Ok(N)
  BY <1>4
<1> QED BY <1>1, <1>5, UptoFacts DEF Ok

LEMMA MergedLeaves ==
  ASSUME WaveTypeOK, NEW W, W \subseteq Steps
  PROVE  Leaves(Merged(W), W)
<1> DEFINE m == MapThenFoldSet(Store, canon, Itself, Last, W)
           new == {s \in W : Writes(s)}
           v == IF canon.variable = 0 /\ new # {} THEN Last(new) ELSE m.variable
<1>1. Leaves(m, W)
  BY MergeLeaves
<1>2. Merged(W) = [m EXCEPT !.variable = v]
  BY DEF Merged
<1>3. m \in CanonStates
  BY <1>1 DEF Leaves
<1>4. v \in 0..N
  <2>1. new \subseteq Steps
    OBVIOUS
  <2>2. new # {} => Last(new) \in 0..N
    <3>1. Steps \subseteq 0..N
      BY DagAssumption DEF Steps
    <3> HIDE DEF new
    <3> QED BY <2>1, <3>1, LastIn
  <2> HIDE DEF new, m
  <2> QED BY <2>1, <2>2, <1>3 DEF CanonStates
<1> HIDE DEF m, v
<1>5. Merged(W) \in CanonStates /\ Merged(W).stored = m.stored /\ Merged(W).ret = m.ret
      /\ Merged(W).tripped = m.tripped
  BY <1>2, <1>3, <1>4 DEF CanonStates
<1> QED BY <1>1, <1>5 DEF Leaves

(* While the plan runs a wave is a level, the first that is not joined.    *)
LEMMA WaveIsLevel ==
  ASSUME PlanInv, LayerInv, plan.stage = "run", Wave # {}
  PROVE  \E k \in 1..Len(plan.waves) :
           /\ Wave = Level(k)
           /\ \A s \in Steps : Depth[s] < k => task[s] = "joined"
           /\ \E s \in Wave : task[s] # "joined"
<1> DEFINE open == {k \in 1..Len(plan.waves) : \E s \in plan.waves[k] : task[s] # "joined"}
           k == CHOOSE k \in open : \A l \in open : k <= l
<1>1. Len(plan.waves) \in Nat
  BY DEF PlanInv, PlanTypeOK
<1>2. open \subseteq Nat
  BY <1>1
<1>3. Wave = IF open = {} THEN {} ELSE plan.waves[k]
  BY DEF Wave
<1> HIDE DEF open
<1>4. open # {} /\ Wave = plan.waves[k]
  BY <1>3
<1>5. k \in open /\ \A l \in open : k <= l
  BY <1>2, <1>4, LeastExists
<1> HIDE DEF k
<1>6. k \in 1..Len(plan.waves) /\ \E s \in plan.waves[k] : task[s] # "joined"
  BY <1>5 DEF open
<1>7. ASSUME NEW s \in Steps, Depth[s] < k PROVE task[s] = "joined"
  <2>1. Depth[s] \in 1..Len(plan.waves) /\ s \in plan.waves[Depth[s]]
    BY DEF LayerInv, Level
  <2>2. Depth[s] \notin open
    BY <1>1, <1>5, <1>6, <1>7, <2>1
  <2> QED BY <2>1, <2>2 DEF open
<1> QED BY <1>4, <1>6, <1>7 DEF LayerInv

LEMMA NoWaveAllJoined ==
  ASSUME PlanInv, LayerInv, plan.stage = "run", Wave = {}, NEW s \in Steps
  PROVE  task[s] = "joined"
<1> DEFINE open == {k \in 1..Len(plan.waves) : \E t \in plan.waves[k] : task[t] # "joined"}
           k == CHOOSE k \in open : \A l \in open : k <= l
<1>1. Len(plan.waves) \in Nat
  BY DEF PlanInv, PlanTypeOK
<1>2. open \subseteq Nat
  BY <1>1
<1>3. Wave = IF open = {} THEN {} ELSE plan.waves[k]
  BY DEF Wave
<1>4. open = {}
  <2> SUFFICES ASSUME open # {} PROVE FALSE
    OBVIOUS
  <2>1. k \in open
    <3> HIDE DEF open
    <3> QED BY <1>2, LeastExists
  <2> HIDE DEF k
  <2> QED BY <1>3, <2>1
<1>5. Depth[s] \in 1..Len(plan.waves) /\ s \in plan.waves[Depth[s]]
  BY DEF LayerInv, Level
<1> QED BY <1>4, <1>5

LEMMA FirstIn ==
  ASSUME NEW S, S \subseteq Steps, S # {}
  PROVE  First(S) \in S /\ \A t \in S : First(S) <= t
<1>1. S \subseteq Nat
  BY DagAssumption DEF Steps
<1> QED BY <1>1, LeastExists DEF First

(* The run's variables do not change while the plan is made.               *)
LEMMA WaveInitInv == Init => WaveInv
<1> SUFFICES ASSUME Init PROVE WaveInv
  OBVIOUS
<1> USE DagAssumption, WaveAssumption DEF Init
<1>1. /\ task \in [Steps -> {"waiting", "running", "ended", "joined"}]
      /\ \A s \in Steps : task[s] = "waiting"
  OBVIOUS
<1>2. fate \in [Steps -> Fates] /\ \A s \in Steps : fate[s] = "none"
  BY DEF Fates
<1>3. size \in [Steps -> Nat] /\ canon \in CanonStates
  BY DEF Fresh, CanonStates
<1>4. WaveTypeOK /\ FateInv
  BY <1>1, <1>2, <1>3 DEF WaveTypeOK, FateInv
<1>5. BehindInv /\ JoinedInv /\ FitsInv /\ TurnInv /\ NoStepOnMissingResult
  BY <1>1 DEF BehindInv, JoinedInv, FitsInv, TurnInv, NoStepOnMissingResult
<1>6. ErrorIsTheFirstDeclared
  BY DEF ErrorIsTheFirstDeclared
<1> QED BY <1>4, <1>5, <1>6 DEF WaveInv

(* Running the plan changes neither the levels nor how a wave is run.      *)
LEMMA Steady ==
  ASSUME UNCHANGED <<planVars, runIn>>
  PROVE  /\ Depth' = Depth /\ plan' = plan
         /\ \A k : Level(k)' = Level(k) /\ Parallel(Level(k))' = Parallel(Level(k))
<1>1. UNCHANGED <<refs, plan, kind, parallelWaves>>
  BY DEF planVars, planIn, runIn
<1>2. Depth' = Depth
  BY <1>1, DepthStable
<1>3. ASSUME NEW k PROVE Level(k)' = Level(k)
  BY <1>2 DEF Level, Steps
<1>4. ASSUME NEW k PROVE Parallel(Level(k))' = Parallel(Level(k))
  BY <1>1, <1>3 DEF Parallel, RequiresSequential
<1> QED BY <1>1, <1>2, <1>3, <1>4

LEMMA DeclaredByDepth ==
  ASSUME PlanInv, LayerInv, plan.stage = "run", NEW s \in Steps, NEW t \in Steps
  PROVE  DeclaredBefore(s, t) <=> Depth[s] < Depth[t] \/ (Depth[s] = Depth[t] /\ s < t)
<1>1. ASSUME NEW u \in Steps PROVE WaveOf(u) = Depth[u]
  <2>1. Depth[u] \in 1..Len(plan.waves)
    BY DEF LayerInv
  <2>2. \A k \in 1..Len(plan.waves) : u \in plan.waves[k] <=> Depth[u] = k
    BY DEF LayerInv, Level
  <2> QED BY <2>1, <2>2 DEF WaveOf
<1> QED BY <1>1 DEF DeclaredBefore

(* The run ends on an error: it is the first declared if the steps before  *)
(* the blamed one were joined.                                             *)
LEMMA BlameTheFirst ==
  ASSUME PlanInv, LayerInv, WaveInv, Running, UNCHANGED <<planVars, runIn, fate>>,
         NEW t \in Steps, blamed' = t,
         \A s \in Steps : Depth[s] < Depth[t] => task[s] = "joined",
         \A s \in Steps : Depth[s] = Depth[t] /\ s < t => fate[s] \in {"ok", "return"}
  PROVE  ErrorIsTheFirstDeclared'
<1>1. plan' = plan /\ fate' = fate
  BY Steady
<1>2. ASSUME NEW s \in Steps, DeclaredBefore(s, t) PROVE fate[s] \in {"ok", "return"}
  BY <1>2, DeclaredByDepth DEF Running, WaveInv, JoinedInv
<1>3. ASSUME NEW s \in Steps PROVE DeclaredBefore(s, t)' <=> DeclaredBefore(s, t)
  BY <1>1 DEF DeclaredBefore, WaveOf
<1> QED BY <1>1, <1>2, <1>3 DEF ErrorIsTheFirstDeclared, Steps, DeclaredBefore, WaveOf

(* A step that ends the run and touches neither tasks nor state.           *)
LEMMA EndsInv ==
  ASSUME PlanInv, LayerInv, WaveInv, Running, UNCHANGED <<planVars, runIn, taskVars, canon>>,
         outcome' # "none", ErrorIsTheFirstDeclared'
  PROVE  WaveInv'
<1>1. Depth' = Depth /\ plan' = plan /\ UNCHANGED <<task, fate, size, canon>>
  BY Steady DEF taskVars
<1>2. plan.stage = "run"
  BY DEF Running
<1>3. WaveTypeOK'
  BY <1>1 DEF WaveInv, WaveTypeOK, CanonStates, Steps, Fates, Failing
<1>4. FateInv'
  BY <1>1, <1>2 DEF WaveInv, FateInv, Steps
<1>5. BehindInv'
  BY <1>1 DEF WaveInv, BehindInv, Steps
<1>6. (JoinedInv /\ FitsInv /\ TurnInv)'
  BY DEF JoinedInv, FitsInv, TurnInv
<1>7. NoStepOnMissingResult'
  BY <1>1 DEF WaveInv, NoStepOnMissingResult, Steps
<1> QED BY <1>3, <1>4, <1>5, <1>6, <1>7 DEF WaveInv

LEMMA WaveIdleInv ==
  ASSUME WaveInv, UNCHANGED <<planVars, runIn, taskVars, canon, endVars>>
  PROVE  WaveInv'
<1>1. Depth' = Depth /\ plan' = plan /\ UNCHANGED <<task, fate, size, canon, outcome, blamed>>
  BY Steady DEF taskVars, endVars
<1>2. \A k : Parallel(Level(k))' = Parallel(Level(k))
  BY Steady
<1> USE DEF WaveInv
<1>3. WaveTypeOK'
  BY <1>1 DEF WaveTypeOK, CanonStates, Steps, Fates, Failing
<1>4. (FateInv /\ JoinedInv /\ FitsInv)'
  BY <1>1 DEF FateInv, JoinedInv, FitsInv, Steps
<1>5. BehindInv'
  BY <1>1 DEF BehindInv, Steps
<1>6. TurnInv'
  BY <1>1, <1>2 DEF TurnInv, Steps
<1>7. NoStepOnMissingResult'
  BY <1>1 DEF NoStepOnMissingResult, Steps
<1>8. ErrorIsTheFirstDeclared'
  <2>1. \A s : WaveOf(s)' = WaveOf(s)
    BY <1>1 DEF WaveOf
  <2>2. \A s : DeclaredBefore(s, blamed)' = DeclaredBefore(s, blamed)
    BY <1>1, <2>1 DEF DeclaredBefore
  <2> QED BY <1>1, <2>2 DEF ErrorIsTheFirstDeclared, Steps, Failing
<1> QED BY <1>3, <1>4, <1>5, <1>6, <1>7, <1>8

(* Planning, and the invocation: nothing has run.                          *)
LEMMA WavePlanningInv ==
  ASSUME WaveInv, Planning \/ Invoke
  PROVE  WaveInv'
<1> USE DEF WaveInv
<1>1. plan.stage # "run" /\ UNCHANGED <<task, fate, size, canon, outcome, blamed>>
  BY DEF Planning, PlanNext, CheckIds, ScanStep, DepsDone, LayerWave, LayersDone, Invoke,
         taskVars, endVars
<1>2. outcome = "none" /\ \A s \in Steps : task[s] = "waiting"
  BY <1>1 DEF FateInv
<1>3. WaveTypeOK'
  BY <1>1 DEF WaveTypeOK, CanonStates, Steps, Fates, Failing
<1>4. FateInv'
  BY <1>1, <1>2 DEF FateInv, Steps
<1>5. (BehindInv /\ JoinedInv /\ FitsInv /\ TurnInv /\ NoStepOnMissingResult)'
  BY <1>1, <1>2 DEF BehindInv, JoinedInv, FitsInv, TurnInv, NoStepOnMissingResult, Steps
<1>6. ErrorIsTheFirstDeclared'
  BY <1>1, <1>2 DEF ErrorIsTheFirstDeclared, Failing
<1> QED BY <1>3, <1>4, <1>5, <1>6

(* A step ends: its fate is recorded, and the result fits for now.         *)
LEMMA StepEndsInv ==
  ASSUME WaveInv, NEW s \in Steps, NEW how \in {"ok", "failed", "return", "cancelled", "panic"},
         NEW bytes \in Nat, StepEnds(s, how, bytes)
  PROVE  WaveInv'
<1> USE DEF WaveInv, StepEnds
<1> DEFINE f == IF how = "ok" /\ canon.bytes + bytes > Limit THEN "violation" ELSE how
<1>1. task' = [task EXCEPT ![s] = "ended"] /\ task[s] = "running" /\ plan.stage = "run"
      /\ outcome = "none" /\ UNCHANGED <<canon, outcome, blamed>>
  BY DEF Running, endVars
<1>2. Depth' = Depth /\ plan' = plan /\ \A k : Parallel(Level(k))' = Parallel(Level(k))
  BY Steady
<1>3. fate' = [fate EXCEPT ![s] = f] /\ f \in Fates \ {"none"} /\ size' = [size EXCEPT ![s] = bytes]
  BY DEF Fates, Failing
<1>4. f = "ok" => canon.bytes + bytes <= Limit
  BY WaveAssumption DEF WaveTypeOK, CanonStates
<1> HIDE DEF f
<1>5. \A t \in Steps : /\ task'[t] = IF t = s THEN "ended" ELSE task[t]
                       /\ fate'[t] = IF t = s THEN f ELSE fate[t]
                       /\ size'[t] = IF t = s THEN bytes ELSE size[t]
  BY <1>1, <1>3 DEF WaveTypeOK
<1>6. WaveTypeOK'
  BY <1>1, <1>3 DEF WaveTypeOK, CanonStates, Steps, Fates, Failing
<1>7. FateInv'
  BY <1>1, <1>2, <1>3, <1>5 DEF FateInv, Steps
<1>8. BehindInv'
  BY <1>1, <1>2, <1>5 DEF BehindInv, Steps
<1>9. JoinedInv'
  BY <1>1, <1>5 DEF JoinedInv, Steps
<1>10. FitsInv'
  BY <1>1, <1>4, <1>5 DEF FitsInv, Steps
<1>11. TurnInv'
  BY <1>1, <1>2, <1>5 DEF TurnInv, Steps
<1>12. NoStepOnMissingResult'
  BY <1>1, <1>2, <1>5 DEF NoStepOnMissingResult, Steps
<1>13. ErrorIsTheFirstDeclared'
  BY <1>1 DEF ErrorIsTheFirstDeclared, Failing
<1> QED BY <1>6, <1>7, <1>8, <1>9, <1>10, <1>11, <1>12, <1>13

(* Some steps of the wave start: all they refer to lies in earlier waves,  *)
(* which are joined, and no step has returned.                             *)
LEMMA StartsInv ==
  ASSUME PlanInv, LayerInv, WaveInv, Running, Wave # {}, canon.ret = 0,
         UNCHANGED <<planVars, runIn, fate, size, canon, endVars>>,
         NEW S \in SUBSET Wave,
         \A s \in S : task[s] = "waiting",
         task' = [s \in Steps |-> IF s \in S THEN "running" ELSE task[s]],
         \A t \in S : \A s \in Wave : s < t /\ ~Parallel(Wave) => task[s] = "joined"
  PROVE  WaveInv'
<1> USE DEF WaveInv
<1>1. plan.stage = "run" /\ outcome = "none" /\ UNCHANGED <<canon, outcome, blamed, fate, size>>
  BY DEF Running, endVars
<1>2. Depth' = Depth /\ plan' = plan /\ \A k : Parallel(Level(k))' = Parallel(Level(k))
  BY Steady
<1>3. PICK k \in 1..Len(plan.waves) :
        Wave = Level(k) /\ \A s \in Steps : Depth[s] < k => task[s] = "joined"
  BY <1>1, WaveIsLevel
<1>4. \A s \in S : s \in Steps /\ Depth[s] = k
  BY <1>3 DEF Level
<1>5. \A t \in Steps : task'[t] = IF t \in S THEN "running" ELSE task[t]
  OBVIOUS
<1>6. WaveTypeOK'
  BY <1>1 DEF WaveTypeOK, CanonStates, Steps, Fates, Failing
<1>7. FateInv'
  BY <1>1, <1>2, <1>5 DEF FateInv, Steps
<1>8. BehindInv'
  BY <1>2, <1>3, <1>4, <1>5 DEF BehindInv, Steps
<1>9. JoinedInv'
  BY <1>1, <1>5 DEF JoinedInv, Steps
<1>10. FitsInv'
  BY <1>1, <1>5 DEF FitsInv, Steps
<1>11. TurnInv'
  <2> SUFFICES ASSUME NEW s \in Steps, NEW t \in Steps, s < t, Depth[s] = Depth[t],
                      ~Parallel(Level(Depth[s])), task'[t] \in {"running", "ended"}
               PROVE  task'[s] = "joined"
    BY <1>2 DEF TurnInv, Steps
  <2>1. CASE t \in S
    BY <2>1, <1>3, <1>4, <1>5 DEF Level
  <2>2. CASE t \notin S
    BY <2>2, <1>1, <1>5 DEF TurnInv
  <2> QED BY <2>1, <2>2
<1>12. NoStepOnMissingResult'
  <2> SUFFICES ASSUME NEW s \in Steps, task'[s] # "waiting"
               PROVE  plan.deps[s] \subseteq canon.stored
    BY <1>1, <1>2 DEF NoStepOnMissingResult, Steps
  <2>1. CASE s \in S
    <3>1. BackwardRefs /\ plan.deps = refs
      BY <1>1, Backward
    <3>2. Depth[s] \in Nat \ {0} /\ refs[s] \subseteq Steps
      BY <3>1, DepthRange, DagAssumption DEF Steps, BackwardRefs
    <3>3. ASSUME NEW r \in refs[s] PROVE r \in canon.stored
      <4>1. Depth[s] - 1 \in Nat /\ Depth[s] <= (Depth[s] - 1) + 1
        BY <3>2
      <4>2. Depth[r] <= Depth[s] - 1
        BY <3>1, <4>1, DepthBound
      <4>3. r \in Steps /\ Depth[r] \in Nat
        BY <3>1, <3>2, DepthRange, DagAssumption DEF Steps
      <4>4. task[r] = "joined"
        BY <2>1, <1>3, <1>4, <3>2, <4>2, <4>3
      <4> QED BY <1>1, <4>3, <4>4 DEF JoinedInv
    <3> QED BY <3>1, <3>3
  <2>2. CASE s \notin S
    BY <2>2, <1>5 DEF NoStepOnMissingResult
  <2> QED BY <2>1, <2>2
<1>13. ErrorIsTheFirstDeclared'
  BY <1>1 DEF ErrorIsTheFirstDeclared, Failing
<1> QED BY <1>6, <1>7, <1>8, <1>9, <1>10, <1>11, <1>12, <1>13

(* Some steps of the wave are joined, and no other is under way.           *)
LEMMA JoinsInv ==
  ASSUME WaveInv, Running, UNCHANGED <<planVars, runIn, fate, size>>,
         NEW S \in SUBSET Steps,
         \A s \in S : task[s] = "ended",
         \A s \in Steps \ S : task[s] \in {"waiting", "joined"},
         task' = [s \in Steps |-> IF s \in S THEN "joined" ELSE task[s]],
         canon' \in CanonStates, canon.stored \subseteq canon'.stored,
         canon.ret # 0 => canon'.ret # 0,
         outcome' = "none" => \A s \in S : \/ fate[s] = "ok" /\ s \in canon'.stored
                                           \/ fate[s] = "return" /\ canon'.ret # 0,
         ErrorIsTheFirstDeclared'
  PROVE  WaveInv'
<1> USE DEF WaveInv
<1>1. plan.stage = "run" /\ outcome = "none" /\ UNCHANGED <<fate, size>>
  BY DEF Running
<1>2. Depth' = Depth /\ plan' = plan
  BY Steady
<1>3. \A t \in Steps : task'[t] = IF t \in S THEN "joined" ELSE task[t]
  OBVIOUS
<1>4. WaveTypeOK'
  BY <1>1 DEF WaveTypeOK, CanonStates, Steps, Fates, Failing
<1>5. FateInv'
  BY <1>1, <1>2, <1>3 DEF FateInv, Steps
<1>6. BehindInv'
  BY <1>2, <1>3 DEF BehindInv, Steps
<1>7. JoinedInv'
  BY <1>1, <1>3 DEF JoinedInv, Steps
<1>8. (FitsInv /\ TurnInv)'
  <2>1. \A t \in Steps : task'[t] \notin {"running", "ended"}
    BY <1>3
  <2> QED BY <2>1 DEF FitsInv, TurnInv, Steps
<1>9. NoStepOnMissingResult'
  BY <1>1, <1>2, <1>3 DEF NoStepOnMissingResult, Steps
<1> QED BY <1>4, <1>5, <1>6, <1>7, <1>8, <1>9

(* Nothing lies under way outside the wave being run.                      *)
LEMMA OnlyTheWave ==
  ASSUME PlanInv, LayerInv, WaveInv, Running, NEW s \in Wave, task[s] # "joined"
  PROVE  /\ Wave \subseteq Steps
         /\ \A t \in Wave : Depth[t] = Depth[s] /\ Wave = Level(Depth[s])
         /\ \A t \in Steps : Depth[t] < Depth[s] => task[t] = "joined"
         /\ \A t \in Steps \ Wave : task[t] \in {"waiting", "joined"}
<1>1. PICK k \in 1..Len(plan.waves) :
        Wave = Level(k) /\ \A t \in Steps : Depth[t] < k => task[t] = "joined"
  BY WaveIsLevel DEF Running
<1>2. s \in Steps /\ Depth[s] = k /\ Wave \subseteq Steps
  BY <1>1 DEF Level
<1>3. ASSUME NEW t \in Steps \ Wave PROVE task[t] \in {"waiting", "joined"}
  <2>1. Depth[t] # k /\ Depth[t] \in Nat /\ k \in Nat
    BY <1>1 DEF Level, LayerInv, Running
  <2>2. CASE Depth[t] < k
    BY <1>1, <2>2
  <2>3. CASE k < Depth[t]
    BY <1>2, <2>3 DEF WaveInv, BehindInv
  <2> QED BY <2>1, <2>2, <2>3
<1> QED BY <1>1, <1>2, <1>3 DEF Level

LEMMA StartStepInv ==
  ASSUME PlanInv, LayerInv, WaveInv, StartStep
  PROVE  WaveInv'
<1> DEFINE free == {t \in Wave : task[t] = "waiting"}
           s == First(free)
<1>1. Running /\ Wave # {} /\ ~Parallel(Wave) /\ canon.ret = 0
      /\ \A t \in Wave : task[t] \in {"waiting", "joined"}
      /\ UNCHANGED <<planVars, runIn, fate, size, canon>>
  BY DEF StartStep
<1>2. PICK u \in Wave : task[u] # "joined"
  BY <1>1, WaveIsOpen
<1>3. free \subseteq Steps /\ free # {}
  BY <1>1, <1>2, WaveIsOpen
<1>4. s \in free /\ \A t \in free : s <= t
  <2> HIDE DEF free
  <2> QED BY <1>3, FirstIn
<1>5. IF cancelled THEN Ends("cancelled", s) /\ UNCHANGED task
      ELSE task' = [task EXCEPT ![s] = "running"] /\ UNCHANGED endVars
  BY DEF StartStep
<1> HIDE DEF s
<1>6. s \in Wave /\ s \in Steps /\ task[s] = "waiting"
      /\ \A t \in Wave : t < s => task[t] = "joined"
  <2>1. \A t \in free : t \in Int /\ s \in Int /\ ~ (t < s)
    BY <1>3, <1>4, DagAssumption DEF Steps
  <2> QED BY <1>1, <1>3, <1>4, <2>1
<1>7. CASE cancelled
  <2>1. outcome' = "cancelled" /\ blamed' = s /\ UNCHANGED taskVars
    BY <1>1, <1>5, <1>7 DEF Ends, taskVars
  <2>2. \A t \in Steps : Depth[t] < Depth[s] => task[t] = "joined"
    BY <1>1, <1>6, OnlyTheWave
  <2>3. \A t \in Steps : Depth[t] = Depth[s] /\ t < s => fate[t] \in {"ok", "return"}
    <3>1. Wave = Level(Depth[s])
      BY <1>1, <1>6, OnlyTheWave
    <3> QED BY <1>1, <1>6, <3>1 DEF Level, WaveInv, JoinedInv, Running
  <2>4. ErrorIsTheFirstDeclared'
    BY <1>1, <1>6, <2>1, <2>2, <2>3, BlameTheFirst
  <2> QED BY <1>1, <2>1, <2>4, EndsInv
<1>8. CASE ~cancelled
  <2>1. task' = [t \in Steps |-> IF t \in {s} THEN "running" ELSE task[t]]
    BY <1>5, <1>8 DEF WaveInv, WaveTypeOK
  <2>2. \A t \in {s} : \A r \in Wave : r < t /\ ~Parallel(Wave) => task[r] = "joined"
    BY <1>6
  <2>3. {s} \in SUBSET Wave /\ \A t \in {s} : task[t] = "waiting"
    BY <1>6
  <2>4. UNCHANGED endVars
    BY <1>5, <1>8
  <2> QED BY <1>1, <2>1, <2>2, <2>3, <2>4, StartsInv
<1> QED BY <1>7, <1>8

(* The first step of the wave may be blamed before any of it has run.      *)
LEMMA BlameFirstOfWave ==
  ASSUME PlanInv, LayerInv, WaveInv, Running, Wave # {}, UNCHANGED <<planVars, runIn, fate>>,
         blamed' = First(Wave)
  PROVE  ErrorIsTheFirstDeclared'
<1>1. PICK k \in 1..Len(plan.waves) :
        Wave = Level(k) /\ \A t \in Steps : Depth[t] < k => task[t] = "joined"
  BY WaveIsLevel DEF Running
<1>2. Wave \subseteq Steps
  BY <1>1 DEF Level
<1>3. First(Wave) \in Wave /\ \A t \in Wave : First(Wave) <= t
  BY <1>2, FirstIn
<1>4. First(Wave) \in Steps /\ Depth[First(Wave)] = k
  BY <1>1, <1>2, <1>3 DEF Level
<1>5. ASSUME NEW t \in Steps, Depth[t] = k PROVE ~ (t < First(Wave))
  BY <1>1, <1>3, <1>4, <1>5, DagAssumption DEF Level, Steps
<1> QED BY <1>1, <1>4, <1>5, BlameTheFirst

LEMMA SpawnWaveInv ==
  ASSUME PlanInv, LayerInv, WaveInv, SpawnWave
  PROVE  WaveInv'
<1>1. Running /\ Parallel(Wave) /\ canon.ret = 0
      /\ (\A t \in Wave : task[t] = "waiting")
      /\ UNCHANGED <<planVars, runIn, fate, size, canon>>
  BY DEF SpawnWave
<1>2. Wave # {}
  <2>1. Cardinality(Wave) > 1
    BY <1>1 DEF Parallel
  <2> QED BY <2>1, FS_EmptySet
<1>3. CASE cancelled
  <2>1. outcome' = "cancelled" /\ blamed' = First(Wave) /\ UNCHANGED taskVars
    BY <1>1, <1>3 DEF SpawnWave, Ends, taskVars
  <2>2. ErrorIsTheFirstDeclared'
    BY <1>1, <1>2, <2>1, BlameFirstOfWave
  <2> QED BY <1>1, <2>1, <2>2, EndsInv
<1>4. CASE ~cancelled
  <2>1. task' = [t \in Steps |-> IF t \in Wave THEN "running" ELSE task[t]] /\ UNCHANGED endVars
    BY <1>4 DEF SpawnWave
  <2>2. \A t \in Wave : \A r \in Wave : r < t /\ ~Parallel(Wave) => task[r] = "joined"
    BY <1>1
  <2> QED BY <1>1, <1>2, <2>1, <2>2, StartsInv
<1> QED BY <1>3, <1>4

LEMMA WaveCancelledInv ==
  ASSUME PlanInv, LayerInv, WaveInv, WaveCancelled
  PROVE  WaveInv'
<1>1. Running /\ Parallel(Wave) /\ outcome' = "cancelled" /\ blamed' = First(Wave)
      /\ UNCHANGED <<planVars, runIn, taskVars, canon>>
  BY DEF WaveCancelled, WaveUnderWay, Ends
<1>2. Wave # {}
  <2>1. Cardinality(Wave) > 1
    BY <1>1 DEF Parallel
  <2> QED BY <2>1, FS_EmptySet
<1>3. ErrorIsTheFirstDeclared'
  BY <1>1, <1>2, BlameFirstOfWave DEF taskVars
<1> QED BY <1>1, <1>3, EndsInv

LEMMA AfterStepInv ==
  ASSUME PlanInv, LayerInv, WaveInv, NEW s \in Steps, AfterStep(s)
  PROVE  WaveInv'
<1>1. Running /\ s \in Wave /\ ~Parallel(Wave) /\ task[s] = "ended"
      /\ UNCHANGED <<planVars, runIn, fate, size>> /\ outcome = "none"
  BY DEF AfterStep, Running
<1>2. task' = [t \in Steps |-> IF t \in {s} THEN "joined" ELSE task[t]]
  BY DEF AfterStep, WaveInv, WaveTypeOK
<1>3. /\ Wave = Level(Depth[s])
      /\ \A t \in Steps : Depth[t] < Depth[s] => task[t] = "joined"
      /\ \A t \in Steps \ Wave : task[t] \in {"waiting", "joined"}
  BY <1>1, OnlyTheWave
<1>4. ASSUME NEW t \in Steps, Depth[t] = Depth[s], t < s PROVE task[t] = "joined"
  BY <1>1, <1>3, <1>4 DEF WaveInv, TurnInv
<1>5. ASSUME NEW t \in Steps \ {s} PROVE task[t] \in {"waiting", "joined"}
  <2>1. CASE t \in Wave
    <3>1. Depth[t] = Depth[s]
      BY <2>1, <1>3 DEF Level
    <3>2. CASE t < s
      BY <3>1, <3>2, <1>4
    <3>3. CASE s < t
      <4>1. task[t] \notin {"running", "ended"}
        BY <3>1, <3>3, <1>1, <1>3 DEF WaveInv, TurnInv
      <4> QED BY <4>1 DEF WaveInv, WaveTypeOK
    <3> QED BY <3>2, <3>3, DagAssumption DEF Steps
  <2>2. CASE t \notin Wave
    BY <2>2, <1>3
  <2> QED BY <2>1, <2>2
<1>6. canon \in CanonStates /\ fate[s] \in Fates \ {"none"}
  BY <1>1 DEF WaveInv, WaveTypeOK, FateInv
<1>7. CASE fate[s] \in Failing
  <2>1. outcome' = fate[s] /\ blamed' = s /\ canon' = canon /\ outcome' # "none"
    BY <1>6, <1>7 DEF AfterStep, Ends
  <2>2. \A t \in Steps : Depth[t] = Depth[s] /\ t < s => fate[t] \in {"ok", "return"}
    BY <1>1, <1>4 DEF WaveInv, JoinedInv
  <2>3. ErrorIsTheFirstDeclared'
    BY <1>1, <1>3, <2>1, <2>2, BlameTheFirst
  <2> QED BY <1>1, <1>2, <1>5, <1>6, <2>1, <2>3, JoinsInv
<1>8. CASE fate[s] \notin Failing
  <2> DEFINE c == Store(s, canon)
             v == IF Writes(s) THEN s ELSE c.variable
  <2>1. canon' = [c EXCEPT !.variable = v] /\ outcome' = "none"
    BY <1>1, <1>8 DEF AfterStep, endVars
  <2>2. /\ c \in CanonStates /\ canon.stored \subseteq c.stored
        /\ fate[s] = "return" => c.ret # 0
        /\ canon.ret # 0 => c.ret # 0
        /\ fate[s] = "ok" => s \in c.stored
    BY <1>1, <1>6, StoreFields DEF WaveInv, FitsInv
  <2>3. v \in 0..N
    <3>1. s \in 0..N
      BY DagAssumption DEF Steps
    <3> HIDE DEF c
    <3> QED BY <2>2, <3>1 DEF CanonStates
  <2> HIDE DEF c, v
  <2>4. canon' \in CanonStates /\ canon'.stored = c.stored /\ canon'.ret = c.ret
    BY <2>1, <2>2, <2>3 DEF CanonStates
  <2>5. fate[s] \in {"ok", "return"}
    BY <1>6, <1>8 DEF Fates
  <2>6. ErrorIsTheFirstDeclared'
    BY <2>1 DEF ErrorIsTheFirstDeclared, Failing
  <2> QED BY <1>1, <1>2, <1>5, <2>1, <2>2, <2>4, <2>5, <2>6, JoinsInv
<1> QED BY <1>7, <1>8

LEMMA MergeWaveInv ==
  ASSUME PlanInv, LayerInv, WaveInv, MergeWave
  PROVE  WaveInv'
<1>1. Running /\ Parallel(Wave) /\ AllJoined(Wave) /\ JoinSlots /\ canon' = Merged(Wave)
      /\ UNCHANGED <<planVars, runIn, fate, size>> /\ outcome = "none"
  BY DEF MergeWave, WaveUnderWay, Running
<1>2. PICK u \in Wave : task[u] = "ended"
  <2>1. Cardinality(Wave) > 1
    BY <1>1 DEF Parallel
  <2>2. Wave # {}
    BY <2>1, FS_EmptySet
  <2> QED BY <1>1, <2>2 DEF AllJoined
<1>3. /\ Wave \subseteq Steps
      /\ \A t \in Wave : Depth[t] = Depth[u]
      /\ Wave = Level(Depth[u])
      /\ \A t \in Steps : Depth[t] < Depth[u] => task[t] = "joined"
      /\ \A t \in Steps \ Wave : task[t] \in {"waiting", "joined"}
  BY <1>1, <1>2, OnlyTheWave
<1>4. task' = [t \in Steps |-> IF t \in Wave THEN "joined" ELSE task[t]]
      /\ \A t \in Wave : task[t] = "ended"
  BY <1>1 DEF JoinSlots, AllJoined
<1>5. Leaves(canon', Wave)
  BY <1>1, <1>3, MergedLeaves DEF WaveInv
<1>6. \A t \in Wave : fate[t] \in Fates \ {"none"}
  BY <1>3, <1>4 DEF WaveInv, WaveTypeOK, FateInv
<1> DEFINE failed == {t \in Wave : fate[t] \in Failing}
<1>7. /\ (failed # {} => outcome' = fate[First(failed)] /\ blamed' = First(failed))
      /\ (failed = {} /\ canon'.tripped => outcome' = "violation" /\ blamed' = 0)
      /\ (failed = {} /\ ~canon'.tripped => UNCHANGED endVars)
  <2>1. failed # {} <=> \E t \in Wave : fate[t] \in Failing
    OBVIOUS
  <2> HIDE DEF failed
  <2>2. FirstError(Wave) = First(failed)
    BY DEF FirstError, failed
  <2> QED BY <1>1, <2>1, <2>2 DEF MergeWave, Ends
<1>8. canon' \in CanonStates /\ canon.stored \subseteq canon'.stored
      /\ (canon.ret # 0 => canon'.ret # 0)
  BY <1>5 DEF Leaves
<1>9. CASE failed # {}
  <2> DEFINE e == First(failed)
  <2>1. failed \subseteq Steps
    BY <1>3
  <2>2. e \in failed /\ \A t \in failed : e <= t
    <3> HIDE DEF failed
    <3> QED BY <1>9, <2>1, FirstIn
  <2>3. outcome' = fate[e] /\ blamed' = e
    BY <1>7, <1>9
  <2> HIDE DEF e
  <2>4. e \in Steps /\ e \in Wave /\ Depth[e] = Depth[u] /\ outcome' # "none"
    BY <1>3, <1>6, <2>2, <2>3
  <2>5. \A t \in Steps : Depth[t] = Depth[e] /\ t < e => fate[t] \in {"ok", "return"}
    <3> SUFFICES ASSUME NEW t \in Steps, Depth[t] = Depth[e], t < e
                 PROVE  fate[t] \in {"ok", "return"}
      OBVIOUS
    <3>1. t \in Wave
      BY <1>3, <2>4 DEF Level
    <3>2. t \notin failed
      BY <2>2, <2>4, DagAssumption DEF Steps
    <3> QED BY <1>6, <3>1, <3>2 DEF Fates
  <2>6. ErrorIsTheFirstDeclared'
    BY <1>1, <1>3, <2>3, <2>4, <2>5, BlameTheFirst
  <2> QED BY <1>1, <1>3, <1>4, <1>8, <2>4, <2>6, JoinsInv
<1>10. CASE failed = {} /\ canon'.tripped
  <2>1. outcome' # "none" /\ ErrorIsTheFirstDeclared'
    BY <1>7, <1>10 DEF ErrorIsTheFirstDeclared
  <2> QED BY <1>1, <1>3, <1>4, <1>8, <2>1, JoinsInv
<1>11. CASE failed = {} /\ ~canon'.tripped
  <2>1. outcome' = "none"
    BY <1>1, <1>7, <1>11 DEF endVars
  <2>2. ErrorIsTheFirstDeclared'
    BY <2>1 DEF ErrorIsTheFirstDeclared, Failing
  <2>3. ASSUME NEW t \in Wave
        PROVE  \/ fate[t] = "ok" /\ t \in canon'.stored
               \/ fate[t] = "return" /\ canon'.ret # 0
    <3>1. fate[t] \in {"ok", "return"}
      BY <1>6, <1>11 DEF Fates
    <3> QED BY <1>5, <1>11, <3>1 DEF Leaves
  <2>4. Wave \in SUBSET Steps
    BY <1>3
  <2> HIDE DEF failed
  <2> QED BY <1>1, <1>3, <1>4, <1>8, <2>2, <2>3, <2>4, JoinsInv
<1> QED BY <1>9, <1>10, <1>11

LEMMA WaveStepInv ==
  ASSUME PlanInv, LayerInv, WaveInv, [Next]_vars
  PROVE  WaveInv'
<1>1. ASSUME NEW s \in Steps, TaskPanicked(s) PROVE WaveInv'
  <2>1. Running /\ outcome' = "panic" /\ blamed' = 0 /\ UNCHANGED <<planVars, runIn, taskVars, canon>>
    BY <1>1 DEF TaskPanicked, WaveUnderWay, Ends
  <2> QED BY <2>1, EndsInv DEF ErrorIsTheFirstDeclared
<1>2. CASE Finish
  <2>1. Running /\ outcome' = "ok" /\ UNCHANGED <<planVars, runIn, taskVars, canon>>
    BY <1>2 DEF Finish, Ends
  <2> QED BY <2>1, EndsInv DEF ErrorIsTheFirstDeclared, Failing
<1>3. CASE Cancel \/ UNCHANGED vars
  BY <1>3, WaveIdleInv DEF Cancel, vars
<1>4. ASSUME NEW s \in Steps, NEW bytes \in Sizes, StepEnds(s, "ok", bytes) PROVE WaveInv'
  BY <1>4, StepEndsInv, WaveAssumption
<1>5. ASSUME NEW s \in Steps, NEW how \in {"failed", "return", "cancelled", "panic"},
             StepEnds(s, how, 0)
      PROVE  WaveInv'
  BY <1>5, StepEndsInv
<1> QED
  BY <1>1, <1>2, <1>3, <1>4, <1>5, WavePlanningInv, StartStepInv, AfterStepInv, SpawnWaveInv,
     WaveCancelledInv, MergeWaveInv
  DEF Next, Scheduler

(* No step ever starts on a missing result, in sequential and in parallel  *)
(* waves, for any number of steps, any sizes and any budget.               *)
THEOREM ResultsBeforeStart == Spec => []NoStepOnMissingResult
<1>1. Init => PlanInv /\ LayerInv /\ WaveInv
  BY PlanInitInv, LayerInitInv, WaveInitInv DEF Init
<1>2. PlanInv /\ LayerInv /\ WaveInv /\ [Next]_vars => (PlanInv /\ LayerInv /\ WaveInv)'
  BY PlanStepInv, LayerStepInv, WaveStepInv
<1>3. WaveInv => NoStepOnMissingResult
  BY DEF WaveInv
<1> QED BY <1>1, <1>2, <1>3, PTL DEF Spec

(* The error reported is the first in the order of declaration, however    *)
(* the tasks of a wave interleave.                                         *)
THEOREM FirstErrorReported == Spec => []ErrorIsTheFirstDeclared
<1>1. Init => PlanInv /\ LayerInv /\ WaveInv
  BY PlanInitInv, LayerInitInv, WaveInitInv DEF Init
<1>2. PlanInv /\ LayerInv /\ WaveInv /\ [Next]_vars => (PlanInv /\ LayerInv /\ WaveInv)'
  BY PlanStepInv, LayerStepInv, WaveStepInv
<1>3. WaveInv => ErrorIsTheFirstDeclared
  BY DEF WaveInv
<1> QED BY <1>1, <1>2, <1>3, PTL DEF Spec
=============================================================================
