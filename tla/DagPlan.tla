------------------------------- MODULE DagPlan -------------------------------
(***************************************************************************)
(* build_plan and layer_into_waves (src/kernel/dag.rs): from an action's   *)
(* steps and the step ids each refers to, the dependencies, and the waves  *)
(* they are layered into.                                                  *)
(*                                                                         *)
(* Steps are their places in the manifest, 1..N.  An id is named by the    *)
(* first step that has it, so a step i with id[i] < i repeats an id; 0 is  *)
(* an id no step has.  refs is what extract_step_deps returns, without its *)
(* order: which of several bad references is reported is left open.        *)
(***************************************************************************)
EXTENDS Integers, Sequences, FiniteSets

CONSTANT N

ASSUME DagAssumption == N \in Nat

VARIABLES
  id,         \* each step's id
  refs,       \* the ids each step refers to
  unrooted,   \* the steps whose params hold an unrooted template
  plan        \* build_plan's state: stage, deps, scheduled, waves, error

planIn == <<id, refs, unrooted>>
planVars == <<planIn, plan>>

Steps == 1..N
Ids == 0..N

(* The ways N steps can share ids.                                         *)
Numberings == {f \in [Steps -> Steps] : \A i \in Steps : f[i] <= i /\ f[f[i]] = f[i]}

NoDeps == [i \in Steps |-> {}]
NewPlan == [stage |-> "ids", at |-> 1, deps |-> NoDeps, waves |-> <<>>, error |-> "none"]

PlanInit ==
  /\ id \in Numberings
  /\ refs \in [Steps -> SUBSET Ids]
  /\ unrooted \in {{}} \cup {{i} : i \in Steps}
  /\ plan = NewPlan

Reject(error) == plan' = [plan EXCEPT !.stage = "rejected", !.error = error]

CheckIds ==
  /\ plan.stage = "ids"
  /\ IF \E i \in Steps : id[i] # i
     THEN Reject("duplicate_step_id")
     ELSE plan' = [plan EXCEPT !.stage = "deps"]
  /\ UNCHANGED planIn

(* Mutant: forward references pass.                                        *)
RefErrorButForward(i, r) ==
  CASE r = i -> "self_ref"
    [] r = 0 -> "unknown_step_ref"
    [] OTHER -> "none"

(* The reference r of step i is refused.                                   *)
RefError(i, r) ==
  CASE r = i -> "self_ref"
    [] r = 0 -> "unknown_step_ref"
    [] r > i -> "forward_ref"
    [] OTHER -> "none"

(* One step of the dependency pass.                                        *)
ScanStep ==
  /\ plan.stage = "deps" /\ plan.at <= N
  /\ LET i == plan.at
         bad == {r \in refs[i] : RefError(i, r) # "none"}
     IN \/ /\ i \in unrooted
           /\ Reject("unrooted_steps_reference")
        \/ /\ i \notin unrooted
           /\ \E r \in bad : Reject(RefError(i, r))
        \/ /\ i \notin unrooted /\ bad = {}
           /\ plan' = [plan EXCEPT !.at = i + 1, !.deps[i] = refs[i]]
  /\ UNCHANGED planIn

DepsDone ==
  /\ plan.stage = "deps" /\ plan.at > N
  /\ plan' = [plan EXCEPT !.stage = "layer"]
  /\ UNCHANGED planIn

Scheduled == UNION {plan.waves[k] : k \in 1..Len(plan.waves)}

(* Mutant: a dependency scheduled earlier in the same round counts.        *)
NextWaveGreedy ==
  {i \in Steps \ Scheduled :
     plan.deps[i] \subseteq Scheduled \cup {j \in Steps : j < i /\ plan.deps[j] \subseteq Scheduled}}

(* The steps one round of layer_into_waves schedules: those whose          *)
(* dependencies all lie in earlier waves.                                  *)
NextWave == {i \in Steps \ Scheduled : plan.deps[i] \subseteq Scheduled}

LayerWave ==
  /\ plan.stage = "layer"
  /\ Scheduled # Steps
  /\ IF NextWave = {}
     THEN Reject("cycle")
     ELSE plan' = [plan EXCEPT !.waves = Append(@, NextWave)]
  /\ UNCHANGED planIn

LayersDone ==
  /\ plan.stage = "layer"
  /\ Scheduled = Steps
  /\ plan' = [plan EXCEPT !.stage = "ready"]
  /\ UNCHANGED planIn

PlanNext == CheckIds \/ ScanStep \/ DepsDone \/ LayerWave \/ LayersDone

-----------------------------------------------------------------------------
BadManifest ==
  \/ \E i \in Steps : id[i] # i
  \/ unrooted # {}
  \/ \E i \in Steps : \E r \in refs[i] : r = 0 \/ r >= i

(* A manifest is rejected exactly if an id repeats, a template is unrooted *)
(* or a reference does not lead to an earlier step; the cycle check, kept  *)
(* in case the forward-reference rule is relaxed, never fires.             *)
RejectsExactlyTheBad ==
  /\ plan.stage = "rejected" => BadManifest /\ plan.error # "cycle"
  /\ plan.stage = "ready" => ~BadManifest

(* The reference for the layering: the longest chain of references that    *)
(* ends in a step.                                                         *)
Depth[i \in Steps] ==
  LET below == {Depth[r] : r \in refs[i]}
  IN IF below = {} THEN 1 ELSE 1 + CHOOSE d \in below : \A e \in below : e <= d

(* Wave k holds exactly the steps at depth k: each step once, behind all   *)
(* its dependencies, and no later than it must be.                         *)
WavesAreTheDepths ==
  plan.stage = "ready" =>
    \A i \in Steps : \A k \in 1..Len(plan.waves) : i \in plan.waves[k] <=> Depth[i] = k

-----------------------------------------------------------------------------
(* What the stages have established, as an inductive invariant.            *)

Stages == {"ids", "deps", "layer", "ready", "run", "rejected"}
Errors == {"none", "duplicate_step_id", "unrooted_steps_reference",
           "self_ref", "unknown_step_ref", "forward_ref", "cycle"}

PlanTypeOK ==
  /\ id \in [Steps -> Steps] /\ refs \in [Steps -> SUBSET Ids] /\ unrooted \subseteq Steps
  /\ plan \in [stage : Stages, at : 1..(N + 1), deps : [Steps -> SUBSET Ids],
               waves : Seq(SUBSET Steps), error : Errors]

(* The steps behind `at` are scanned: they refer to earlier steps only,    *)
(* and those are their dependencies.                                       *)
ScannedInv ==
  /\ \A i \in 1..(plan.at - 1) :
       i \notin unrooted /\ refs[i] \subseteq 1..(i - 1) /\ plan.deps[i] = refs[i]
  /\ plan.stage \in {"layer", "ready", "run"} => plan.at = N + 1
  /\ plan.stage \notin {"ids", "rejected"} => \A i \in Steps : id[i] = i

PlanInv == PlanTypeOK /\ ScannedInv /\ RejectsExactlyTheBad
=============================================================================
