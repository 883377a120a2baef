------------------------------- MODULE WaveRun -------------------------------
(***************************************************************************)
(* execute_dag (src/kernel/runtime.rs) without `dataflow`: an action is    *)
(* planned by DagPlan and run wave by wave, each wave one step after the   *)
(* other or, if the action opts in and nothing in the wave forbids it, as  *)
(* one task per step, forked from the canonical state, joined in any order *)
(* and merged in the order of declaration.                                 *)
(*                                                                         *)
(* The canonical state is what steps can see of each other: which results  *)
(* are stored, the bytes they are charged, one variable, the return        *)
(* signal.                                                                 *)
(***************************************************************************)
EXTENDS DagPlan, Folds

CONSTANTS
  Kinds,      \* the kinds of step tried: "plain", "writer" (it has
              \* store_to_variable), "nested" (a try or parallel step with
              \* a writer in one of its bodies)
  Sizes,      \* the sizes a step's result can have
  Limit       \* max_step_results_bytes

ASSUME WaveAssumption ==
  /\ Kinds \subseteq {"plain", "writer", "nested"}
  /\ Sizes \subseteq Nat /\ Limit \in Nat

VARIABLES
  parallelWaves,  \* Action.parallel_waves
  kind,           \* each step's kind
  task,           \* "waiting", "running", "ended", "joined"
  fate,           \* how each step ended
  size,           \* the size of each step's result
  canon,          \* the canonical state
  cancelled,      \* the invocation's token has fired
  midWave,        \* history: it fired while a parallel wave was under way
  outcome,        \* what execute_dag returned
  blamed          \* the step the outcome names, or 0

runIn == <<parallelWaves, kind>>
taskVars == <<task, fate, size>>
endVars == <<outcome, blamed>>
vars == <<planVars, runIn, taskVars, canon, cancelled, midWave, endVars>>

Fresh == [stored |-> {}, bytes |-> 0, tripped |-> FALSE, variable |-> 0, ret |-> 0]

Init ==
  /\ PlanInit
  /\ parallelWaves = FALSE /\ kind = [s \in Steps |-> "plain"]
  /\ task = [s \in Steps |-> "waiting"]
  /\ fate = [s \in Steps |-> "none"]
  /\ size = [s \in Steps |-> 0]
  /\ canon = Fresh
  /\ cancelled = FALSE /\ midWave = FALSE
  /\ outcome = "none" /\ blamed = 0

Planning == PlanNext /\ UNCHANGED <<runIn, taskVars, canon, cancelled, midWave, endVars>>

(* The accepted action is invoked; the planner did not look at these.      *)
Invoke ==
  /\ plan.stage = "ready"
  /\ plan' = [plan EXCEPT !.stage = "run"]
  /\ parallelWaves' \in BOOLEAN
  /\ kind' \in [Steps -> Kinds]
  /\ UNCHANGED <<planIn, taskVars, canon, cancelled, midWave, endVars>>

-----------------------------------------------------------------------------
Running == plan.stage = "run" /\ outcome = "none"

(* The wave being run: the first that is not joined.                       *)
Wave ==
  LET open == {k \in 1..Len(plan.waves) : \E s \in plan.waves[k] : task[s] # "joined"}
  IN IF open = {} THEN {} ELSE plan.waves[CHOOSE k \in open : \A l \in open : k <= l]

First(S) == CHOOSE s \in S : \A t \in S : s <= t
Last(S) == CHOOSE s \in S : \A t \in S : s >= t

RequiresSequential(W) == \E s \in W : kind[s] = "writer"
Parallel(W) == Cardinality(W) > 1 /\ parallelWaves /\ ~RequiresSequential(W)

Failing == {"failed", "violation", "cancelled", "panic"}

Ends(result, s) == outcome' = result /\ blamed' = s

-----------------------------------------------------------------------------
(* A step's body.  run_step raises an over-budget result as an error that  *)
(* no try catches; the budget is that of the state the step runs on.       *)
StepEnds(s, how, bytes) ==
  /\ Running /\ task[s] = "running"
  /\ how = "cancelled" => cancelled
  /\ task' = [task EXCEPT ![s] = "ended"]
  /\ size' = [size EXCEPT ![s] = bytes]
  /\ fate' = [fate EXCEPT ![s] =
                IF how = "ok" /\ canon.bytes + bytes > Limit THEN "violation" ELSE how]
  /\ UNCHANGED <<planVars, runIn, canon, cancelled, midWave, endVars>>

(* The writes of step s arrive in the canonical state: a result that does  *)
(* not fit is refused and marks the state.                                 *)
Store(s, state) ==
  LET has  == fate[s] = "ok"
      fits == state.bytes + size[s] <= Limit
  IN [state EXCEPT
        !.stored = IF has /\ fits THEN @ \cup {s} ELSE @,
        !.bytes = IF has /\ fits THEN @ + size[s] ELSE @,
        !.tripped = @ \/ fate[s] = "violation" \/ (has /\ ~fits),
        !.ret = IF fate[s] = "return" /\ @ = 0 THEN s ELSE @]

Writes(s) == kind[s] # "plain" /\ fate[s] = "ok"

-----------------------------------------------------------------------------
(* The sequential path.                                                    *)

StartStep ==
  /\ Running /\ Wave # {} /\ ~Parallel(Wave)
  /\ canon.ret = 0
  /\ \A s \in Wave : task[s] \in {"waiting", "joined"}
  /\ LET s == First({t \in Wave : task[t] = "waiting"})
     IN IF cancelled
        THEN Ends("cancelled", s) /\ UNCHANGED task
        ELSE task' = [task EXCEPT ![s] = "running"] /\ UNCHANGED endVars
  /\ UNCHANGED <<planVars, runIn, fate, size, canon, cancelled, midWave>>

AfterStep(s) ==
  /\ Running /\ s \in Wave /\ ~Parallel(Wave)
  /\ task[s] = "ended"
  /\ task' = [task EXCEPT ![s] = "joined"]
  /\ IF fate[s] \in Failing
     THEN Ends(fate[s], s) /\ UNCHANGED canon
     ELSE /\ canon' = [Store(s, canon) EXCEPT !.variable = IF Writes(s) THEN s ELSE @]
          /\ UNCHANGED endVars
  /\ UNCHANGED <<planVars, runIn, fate, size, cancelled, midWave>>

-----------------------------------------------------------------------------
(* The parallel path.                                                      *)

SpawnWave ==
  /\ Running /\ Parallel(Wave) /\ canon.ret = 0
  /\ \A s \in Wave : task[s] = "waiting"
  /\ IF cancelled
     THEN Ends("cancelled", First(Wave)) /\ UNCHANGED task
     ELSE /\ task' = [s \in Steps |-> IF s \in Wave THEN "running" ELSE task[s]]
          /\ UNCHANGED endVars
  /\ UNCHANGED <<planVars, runIn, fate, size, canon, cancelled, midWave>>

WaveUnderWay == Running /\ Parallel(Wave) /\ \A s \in Wave : task[s] # "waiting"

(* The join loop's select! looks at the token first, every time round.     *)
WaveCancelled ==
  /\ WaveUnderWay /\ cancelled
  /\ Ends("cancelled", First(Wave))
  /\ UNCHANGED <<planVars, runIn, taskVars, canon, cancelled, midWave>>

(* Joining a task only fills its slot; a panic ends the run at once.       *)
TaskPanicked(s) ==
  /\ WaveUnderWay /\ ~cancelled
  /\ s \in Wave /\ task[s] = "ended" /\ fate[s] = "panic"
  /\ Ends("panic", 0)
  /\ UNCHANGED <<planVars, runIn, taskVars, canon, cancelled, midWave>>

(* merge_task_state, in declaration order: the fold's outermost step is    *)
(* the last.  Only variables the wave did not start with are merged.       *)
Itself(s) == s
Merged(W) ==
  LET new == {s \in W : Writes(s)}
  IN [MapThenFoldSet(Store, canon, Itself, Last, W) EXCEPT
        !.variable = IF canon.variable = 0 /\ new # {} THEN Last(new) ELSE @]

(* Mutant: each error replaces the one before.                             *)
LastError(W) == Last({s \in W : fate[s] \in Failing})

FirstError(W) == First({s \in W : fate[s] \in Failing})
AllJoined(W) == \A s \in W : task[s] = "ended" /\ fate[s] # "panic"
JoinSlots == task' = [s \in Steps |-> IF s \in Wave THEN "joined" ELSE task[s]]

(* Mutants: the token is only looked at before the wave; a budget that the *)
(* merge tripped is left for a later step to find.                         *)
MergeWaveUnpolled ==
  /\ WaveUnderWay /\ AllJoined(Wave)
  /\ JoinSlots
  /\ canon' = Merged(Wave)
  /\ IF \E s \in Wave : fate[s] \in Failing
     THEN Ends(fate[FirstError(Wave)], FirstError(Wave))
     ELSE IF Merged(Wave).tripped THEN Ends("violation", 0) ELSE UNCHANGED endVars
  /\ UNCHANGED <<planVars, runIn, fate, size, cancelled, midWave>>

MergeWaveUnraised ==
  /\ WaveUnderWay /\ ~cancelled /\ AllJoined(Wave)
  /\ JoinSlots
  /\ canon' = Merged(Wave)
  /\ IF \E s \in Wave : fate[s] \in Failing
     THEN Ends(fate[FirstError(Wave)], FirstError(Wave))
     ELSE UNCHANGED endVars
  /\ UNCHANGED <<planVars, runIn, fate, size, cancelled, midWave>>

(* Every slot is filled: merge them all, then the first error in the order *)
(* of declaration, then a budget that the merge itself tripped.            *)
MergeWave ==
  /\ WaveUnderWay /\ ~cancelled /\ AllJoined(Wave)
  /\ JoinSlots
  /\ canon' = Merged(Wave)
  /\ IF \E s \in Wave : fate[s] \in Failing
     THEN Ends(fate[FirstError(Wave)], FirstError(Wave))
     ELSE IF Merged(Wave).tripped THEN Ends("violation", 0) ELSE UNCHANGED endVars
  /\ UNCHANGED <<planVars, runIn, fate, size, cancelled, midWave>>

-----------------------------------------------------------------------------
(* Every wave has run, or a step has returned.                             *)
Finish ==
  /\ Running
  /\ \A s \in Steps : task[s] \in {"waiting", "joined"}
  /\ Wave = {} \/ canon.ret # 0
  /\ Ends("ok", canon.ret)
  /\ UNCHANGED <<planVars, runIn, taskVars, canon, cancelled, midWave>>

Cancel ==
  /\ Running /\ ~cancelled
  /\ cancelled' = TRUE
  /\ midWave' = (Wave # {} /\ WaveUnderWay)
  /\ UNCHANGED <<planVars, runIn, taskVars, canon, endVars>>

Scheduler ==
  \/ Planning \/ Invoke
  \/ StartStep \/ \E s \in Steps : AfterStep(s)
  \/ SpawnWave \/ WaveCancelled \/ MergeWave \/ \E s \in Steps : TaskPanicked(s)
  \/ Finish

Next ==
  \/ Scheduler
  \/ \E s \in Steps :
       \/ \E bytes \in Sizes : StepEnds(s, "ok", bytes)
       \/ \E how \in {"failed", "return", "cancelled", "panic"} : StepEnds(s, how, 0)
  \/ Cancel

Spec == Init /\ [][Next]_vars

-----------------------------------------------------------------------------
(* No step runs on a missing result: when it starts, the result of every   *)
(* step it depends on is in the canonical state, also if a merge refused   *)
(* one that had fitted its own fork.                                       *)
NoStepOnMissingResult ==
  \A s \in Steps : task[s] # "waiting" => plan.deps[s] \subseteq canon.stored

WaveOf(s) == CHOOSE k \in 1..Len(plan.waves) : s \in plan.waves[k]
DeclaredBefore(s, t) == WaveOf(s) < WaveOf(t) \/ (WaveOf(s) = WaveOf(t) /\ s < t)

(* The error reported does not depend on which task ended first: every     *)
(* step of an earlier wave, and every step declared before the blamed one  *)
(* in its own, had succeeded.                                              *)
ErrorIsTheFirstDeclared ==
  outcome \in Failing /\ blamed # 0 =>
    \A s \in Steps : DeclaredBefore(s, blamed) => fate[s] \in {"ok", "return"}

(* A cancel that fires while a parallel wave is under way is what the run  *)
(* reports, whatever its tasks still complete.                             *)
MidWaveCancelIsReported == midWave => outcome \in {"none", "cancelled"}

(* Its inductive form: until the cancel is reported the wave stays the one *)
(* being run, with its tasks running or ended.                             *)
MidWaveInv ==
  /\ task \in [Steps -> {"waiting", "running", "ended", "joined"}]
  /\ midWave => /\ cancelled /\ outcome \in {"none", "cancelled"}
                /\ outcome = "none" => Wave # {} /\ WaveUnderWay

-----------------------------------------------------------------------------
(* A statement of the documentation that the code does not keep.           *)

(* wave_requires_sequential's comment: "the writer always forces its own   *)
(* wave sequential".                                                       *)
WriterRunsAlone ==
  \A s, t \in Steps :
    s # t /\ kind[s] # "plain" /\ task[s] = "running" => task[t] # "running"
=============================================================================
