---------------------------- MODULE DataflowRun -----------------------------
(***************************************************************************)
(* One run of a `dataflow: true` action: the scheduler of                  *)
(* src/kernel/runtime_dataflow.rs under the wallclock wrapper of           *)
(* src/kernel/mod.rs, driven through a handle of                           *)
(* src/kernel/execute_request.rs or without one.                           *)
(*                                                                         *)
(* Every step runs on a task of its own, forked from the canonical state   *)
(* once the values it depends on have merged.  The tasks, the scheduler's  *)
(* join loop, the watchdog, the caller and the reader of the events        *)
(* channel interleave freely.                                              *)
(***************************************************************************)
EXTENDS Integers, Sequences, FiniteSets, Wallclock

CONSTANTS
  Steps,        \* the action's steps
  Deps,         \* DagPlan.deps: the steps each step depends on
  LongRunning,  \* the steps whose output is a stream provisioned up front
  Writers,      \* the steps that store the variable
  EventsCap,    \* dataflow_events_capacity
  Unset         \* the variable has no value

ASSUME DataflowAssumption ==
  /\ IsFiniteSet(Steps)
  /\ Deps \in [Steps -> SUBSET Steps]
  /\ LongRunning \subseteq Steps /\ Writers \subseteq Steps
  /\ EventsCap \in Nat \ {0}
  /\ Unset \notin Steps

(* What build_plan guarantees of a plan it accepts: there is no cycle, so  *)
(* any group of steps has one that depends on none of the group.           *)
ASSUME PlanAssumption ==
  \A S \in SUBSET Steps : S # {} => \E s \in S : Deps[s] \cap S = {}

VARIABLES
  capped,      \* the action runs under a wallclock cap
  hasEvents,   \* it is driven through a handle, with an events channel
  phase,       \* "preflight", "run", "returned" (the scheduler), "resolved"
  awaiting,    \* value dependencies each step still waits for
  task,        \* each step's task: "waiting", "running", "ended", "joined", "gone"
  ending,      \* how each task ended
  seen,        \* history: the steps merged without error when a step forked
  variable,    \* the variable in the canonical state
  forked,      \* its value in each task's fork
  touched,     \* history: the steps whose task stored the variable
  clobbered,   \* history: a merge replaced the variable by an inherited value
  firstError,  \* the scheduler's first_error, or "none"
  token,       \* who fired the pipeline's token, or "none"
  clock,       \* "early", "late" (past the deadline), "grace" (past the grace too)
  expired,     \* the watchdog's flag
  watchdog,    \* the watchdog's task: "armed", "marked" (the flag is set), "done"
  returned,    \* what the scheduler's future resolved to
  result,      \* what the caller gets
  queue,       \* the events channel
  parked,      \* terminators that detached senders hold until there is room
  listening,   \* the events receiver exists
  ends         \* history: terminators the receiver got

planVars  == <<capped, hasEvents>>
taskVars  == <<awaiting, task, ending, seen, variable, forked, touched, clobbered>>
stopVars  == <<token, clock, expired, watchdog>>
eventVars == <<queue, parked, listening, ends>>
vars == <<planVars, phase, taskVars, firstError, stopVars, returned, result, eventVars>>

(* Mutant: a long-running producer is waited for like any other step.      *)
AllDeps(s) == Deps[s]

ValueDeps(s) == Deps[s] \ LongRunning
Consumers(s) == {c \in Steps : s \in Deps[c]}
Cancelled    == token # "none"
Terminators  == {"end_ok", "end_failed"}

Init ==
  /\ capped \in BOOLEAN /\ hasEvents \in BOOLEAN
  /\ phase = "preflight"
  /\ awaiting = [s \in Steps |-> Cardinality(ValueDeps(s))]
  /\ task = [s \in Steps |-> "waiting"]
  /\ ending = [s \in Steps |-> "none"]
  /\ seen = [s \in Steps |-> {}]
  /\ variable = Unset
  /\ forked = [s \in Steps |-> Unset]
  /\ touched = {} /\ clobbered = FALSE
  /\ firstError = "none"
  /\ token = "none" /\ clock = "early" /\ expired = FALSE /\ watchdog = "armed"
  /\ returned = "none" /\ result = "none"
  /\ queue = <<>> /\ parked = <<>> /\ listening = hasEvents /\ ends = <<>>

-----------------------------------------------------------------------------
(* The events channel.                                                     *)

(* emit_event: a try_send per event, so whatever finds no room is dropped. *)
AfterStepEvents(q, n) ==
  IF ~listening THEN q
  ELSE q \o [i \in 1..(IF n < EventsCap - Len(q) THEN n ELSE EventsCap - Len(q)) |-> "step"]

(* Mutant: the terminator is a try_send too.                               *)
EmitTerminalBestEffort(q, e) ==
  /\ queue' = IF listening /\ Len(q) < EventsCap THEN Append(q, e) ELSE q
  /\ parked' = parked

(* emit_terminal_event: a try_send, and on a full channel a detached task  *)
(* that waits for room; the scheduler itself never waits.                  *)
EmitTerminal(q, e) ==
  /\ queue' = IF listening /\ Len(q) < EventsCap THEN Append(q, e) ELSE q
  /\ parked' = IF listening /\ Len(q) = EventsCap THEN Append(parked, e) ELSE parked

DetachedSend ==
  /\ parked # <<>>
  /\ Len(queue) < EventsCap
  /\ queue' = Append(queue, Head(parked))
  /\ parked' = Tail(parked)
  /\ UNCHANGED <<planVars, phase, taskVars, firstError, stopVars, returned, result,
                 listening, ends>>

ReceiveEvent ==
  /\ queue # <<>>
  /\ ends' = IF Head(queue) \in Terminators THEN Append(ends, Head(queue)) ELSE ends
  /\ queue' = Tail(queue)
  /\ UNCHANGED <<planVars, phase, taskVars, firstError, stopVars, returned, result,
                 parked, listening>>

DropEvents ==
  /\ listening
  /\ listening' = FALSE
  /\ queue' = <<>> /\ parked' = <<>>
  /\ UNCHANGED <<planVars, phase, taskVars, firstError, stopVars, returned, result, ends>>

-----------------------------------------------------------------------------
(* Pre-flight and spawn.                                                   *)

(* fail_dataflow_preflight: the action vanished, or its secrets could not  *)
(* be pulled; the scheduler's future is never created.                     *)
PreflightFails ==
  /\ phase = "preflight" /\ hasEvents
  /\ phase' = "resolved"
  /\ result' = "failed"
  /\ EmitTerminal(queue, "end_failed")
  /\ UNCHANGED <<planVars, taskVars, firstError, stopVars, returned, listening, ends>>

(* provision_dataflow_streams or the linker set-up fails.                  *)
ProvisionFails ==
  /\ phase = "preflight"
  /\ phase' = "returned"
  /\ returned' = "failed"
  /\ EmitTerminal(queue, "end_failed")
  /\ UNCHANGED <<planVars, taskVars, firstError, stopVars, result, listening, ends>>

(* spawn_dataflow_step for every step in S: fork the canonical state.      *)
Spawn(tasks, S, merged, x) ==
  /\ task' = [s \in Steps |-> IF s \in S THEN "running" ELSE tasks[s]]
  /\ seen' = [s \in Steps |-> IF s \in S THEN merged ELSE seen[s]]
  /\ forked' = [s \in Steps |-> IF s \in S THEN x ELSE forked[s]]

(* Mutant: every step is spawned at once, as if all dependencies were      *)
(* streams.                                                                *)
StartEager ==
  /\ phase = "preflight"
  /\ phase' = "run"
  /\ Spawn(task, Steps, {}, variable)
  /\ queue' = AfterStepEvents(queue, Cardinality(Steps))
  /\ UNCHANGED <<planVars, awaiting, ending, variable, touched, clobbered, firstError,
                 stopVars, returned, result, parked, listening, ends>>

Start ==
  /\ phase = "preflight"
  /\ phase' = "run"
  /\ LET ready == {s \in Steps : awaiting[s] = 0}
     IN /\ Spawn(task, ready, {}, variable)
        /\ queue' = AfterStepEvents(queue, Cardinality(ready))
  /\ UNCHANGED <<planVars, awaiting, ending, variable, touched, clobbered, firstError,
                 stopVars, returned, result, parked, listening, ends>>

-----------------------------------------------------------------------------
(* The step tasks.                                                         *)

TaskStores(s) ==
  /\ task[s] = "running" /\ s \in Writers
  /\ forked' = [forked EXCEPT ![s] = s]
  /\ touched' = touched \cup {s}
  /\ UNCHANGED <<planVars, phase, awaiting, task, ending, seen, variable, clobbered,
                 firstError, stopVars, returned, result, eventVars>>

(* A body answers the token with StepError::Cancelled, or does not answer  *)
(* it at all and ends as it would have.                                    *)
TaskEnds(s, how) ==
  /\ task[s] = "running"
  /\ how = "cancelled" => Cancelled
  /\ task' = [task EXCEPT ![s] = "ended"]
  /\ ending' = [ending EXCEPT ![s] = how]
  /\ UNCHANGED <<planVars, phase, awaiting, seen, variable, forked, touched, clobbered,
                 firstError, stopVars, returned, result, eventVars>>

-----------------------------------------------------------------------------
(* The join loop of execute_dag_dataflow.                                  *)

(* A step that stopped on the pipeline's own cancel is winding down, but   *)
(* only a handle has that contract.                                        *)
WindingDown == Cancelled /\ hasEvents

(* The error a joined task contributes.  `trips` says that merging its     *)
(* result trips the step-results budget of the canonical state.            *)
CandidateError(s, trips) ==
  CASE ending[s] = "failed"                      -> "failed"
    [] ending[s] = "cancelled" /\ ~WindingDown   -> "cancelled"
    [] OTHER -> IF firstError = "none" /\ trips THEN "budget" ELSE "none"

(* merge_task_state: every variable of the fork that the baseline, taken   *)
(* before the first spawn, does not have.                                  *)
MergedVariable(s) == IF forked[s] # Unset THEN forked[s] ELSE variable

MergedOk(s) == {d \in Steps : task[d] = "joined" /\ ending[d] = "ok"} \cup {s}

(* Whether the join of s releases the steps that wait for its value.       *)
Releases(s, err, stopped) == s \notin LongRunning /\ err = "none" /\ ~stopped

Join(s, trips) ==
  /\ phase = "run"
  /\ task[s] = "ended" /\ ending[s] # "panic"
  /\ LET cand  == CandidateError(s, trips)
         fires == firstError = "none" /\ cand # "none"
         err   == IF fires THEN cand ELSE firstError
         freed == IF Releases(s, err, fires \/ Cancelled) THEN Consumers(s) ELSE {}
         left  == [c \in Steps |-> IF c \in freed /\ awaiting[c] > 0
                                   THEN awaiting[c] - 1 ELSE awaiting[c]]
         ready == {c \in freed : left[c] = 0 /\ task[c] = "waiting"}
     IN /\ firstError' = err
        /\ token' = IF fires /\ ~Cancelled THEN "scheduler" ELSE token
        /\ awaiting' = left
        /\ variable' = MergedVariable(s)
        /\ clobbered' = (clobbered \/ (s \notin touched /\ MergedVariable(s) # variable))
        /\ Spawn([task EXCEPT ![s] = "joined"], ready, MergedOk(s), MergedVariable(s))
        /\ queue' = AfterStepEvents(queue, 1 + Cardinality(ready))
  /\ UNCHANGED <<planVars, phase, ending, touched, clock, expired, watchdog, returned,
                 result, parked, listening, ends>>

(* The scheduler's future returns; the JoinSet it drops aborts the tasks   *)
(* that are left.                                                          *)
Return(outcome, end) ==
  /\ phase' = "returned"
  /\ returned' = outcome
  /\ task' = [s \in Steps |-> IF task[s] \in {"running", "ended"} THEN "gone" ELSE task[s]]
  /\ EmitTerminal(queue, end)
  /\ UNCHANGED <<planVars, awaiting, ending, seen, variable, forked, touched, clobbered,
                 firstError, stopVars, result, listening, ends>>

JoinPanicked(s) ==
  /\ phase = "run"
  /\ task[s] = "ended" /\ ending[s] = "panic"
  /\ Return("failed", "end_failed")

JoinsetEmpty == \A s \in Steps : task[s] \in {"waiting", "joined"}

FinishFailed ==
  /\ phase = "run" /\ JoinsetEmpty
  /\ firstError # "none"
  /\ Return(firstError, "end_failed")

(* No error.  A step that never became runnable, with nothing failed or    *)
(* cancelled, is the "Dataflow scheduler bug" exit.                        *)
FinishOk ==
  /\ phase = "run" /\ JoinsetEmpty
  /\ firstError = "none"
  /\ LET neverRan == ~Cancelled /\ \E s \in Steps : task[s] = "waiting"
     IN Return(IF neverRan THEN "bug" ELSE "ok",
               IF neverRan \/ Cancelled THEN "end_failed" ELSE "end_ok")

-----------------------------------------------------------------------------
(* The caller's cancel, the clock and run_with_wallclock_timeout.          *)

CallerCancels ==
  /\ phase # "resolved" /\ ~Cancelled
  /\ token' = IF clock = "early" THEN "caller" ELSE "late_caller"
  /\ UNCHANGED <<planVars, phase, taskVars, firstError, clock, expired, watchdog, returned,
                 result, eventVars>>

Tick ==
  /\ capped /\ phase \in {"run", "returned"} /\ clock # "grace"
  /\ clock' = IF clock = "early" THEN "late" ELSE "grace"
  /\ UNCHANGED <<planVars, phase, taskVars, firstError, token, expired, watchdog, returned,
                 result, eventVars>>

(* Mutant: the watchdog claims a stop that a caller asked for.             *)
WatchdogClaimsAll ==
  /\ capped /\ phase \in {"run", "returned"} /\ clock # "early"
  /\ watchdog = "armed"
  /\ watchdog' = "marked"
  /\ expired' = TRUE
  /\ UNCHANGED <<planVars, phase, taskVars, firstError, token, clock, returned, result,
                 eventVars>>

(* At the deadline: a token somebody fired first is left to them.          *)
WatchdogWakes ==
  /\ capped /\ phase \in {"run", "returned"} /\ clock # "early"
  /\ watchdog = "armed"
  /\ watchdog' = IF Cancelled THEN "done" ELSE "marked"
  /\ expired' = ~Cancelled
  /\ UNCHANGED <<planVars, phase, taskVars, firstError, token, clock, returned, result,
                 eventVars>>

WatchdogFires ==
  /\ phase \in {"run", "returned"} /\ watchdog = "marked"
  /\ watchdog' = "done"
  /\ token' = IF Cancelled THEN token ELSE "watchdog"
  /\ UNCHANGED <<planVars, phase, taskVars, firstError, clock, expired, returned, result,
                 eventVars>>

(* The future resolved: the watchdog is aborted and the outcome reported.  *)
Resolve ==
  /\ phase = "returned"
  /\ phase' = "resolved"
  /\ result' = IF capped THEN Report(returned, expired, Cancelled, clock # "early") ELSE returned
  /\ UNCHANGED <<planVars, taskVars, firstError, stopVars, returned, eventVars>>

(* Mutants: nobody stands in for the terminator of a dropped scheduler; a  *)
(* cancelled run is left to stop by itself.                                *)
BackstopSilent ==
  /\ phase = "run" /\ clock = "grace"
  /\ phase' = "resolved"
  /\ result' = "timeout"
  /\ token' = IF Cancelled THEN token ELSE "backstop"
  /\ task' = [s \in Steps |-> IF task[s] \in {"running", "ended"} THEN "gone" ELSE task[s]]
  /\ UNCHANGED <<planVars, awaiting, ending, seen, variable, forked, touched, clobbered,
                 firstError, clock, expired, watchdog, returned, eventVars>>

BackstopUnlessCancelled ==
  /\ phase = "run" /\ clock = "grace" /\ ~Cancelled
  /\ phase' = "resolved"
  /\ result' = "timeout"
  /\ token' = "backstop"
  /\ task' = [s \in Steps |-> IF task[s] \in {"running", "ended"} THEN "gone" ELSE task[s]]
  /\ EmitTerminal(queue, "end_failed")
  /\ UNCHANGED <<planVars, awaiting, ending, seen, variable, forked, touched, clobbered,
                 firstError, clock, expired, watchdog, returned, listening, ends>>

(* The future ignored the token for the whole grace and is dropped; its    *)
(* own terminator was never sent, so run_dataflow_under_wallclock does.    *)
Backstop ==
  /\ phase = "run" /\ clock = "grace"
  /\ phase' = "resolved"
  /\ result' = "timeout"
  /\ token' = IF Cancelled THEN token ELSE "backstop"
  /\ task' = [s \in Steps |-> IF task[s] \in {"running", "ended"} THEN "gone" ELSE task[s]]
  /\ EmitTerminal(queue, "end_failed")
  /\ UNCHANGED <<planVars, awaiting, ending, seen, variable, forked, touched, clobbered,
                 firstError, clock, expired, watchdog, returned, listening, ends>>

-----------------------------------------------------------------------------
Scheduler ==
  \/ Start
  \/ \E s \in Steps : \/ \E trips \in BOOLEAN : Join(s, trips)
                      \/ JoinPanicked(s)
  \/ FinishFailed \/ FinishOk

Deadline == Tick \/ WatchdogWakes \/ WatchdogFires \/ Backstop

Next ==
  \/ PreflightFails \/ ProvisionFails
  \/ Scheduler
  \/ \E s \in Steps : \/ TaskStores(s)
                      \/ \E how \in {"ok", "failed", "cancelled", "panic"} : TaskEnds(s, how)
  \/ CallerCancels
  \/ Deadline \/ Resolve
  \/ DetachedSend \/ ReceiveEvent \/ DropEvents

(* The executor polls the scheduler, the wrapper and the detached senders, *)
(* and time passes.  Nothing is assumed of step bodies, of the caller, or  *)
(* of whoever reads the events.                                            *)
Fairness ==
  /\ WF_vars(Scheduler)
  /\ WF_vars(Tick) /\ WF_vars(Backstop)
  /\ WF_vars(Resolve)
  /\ WF_vars(DetachedSend)

Safety == Init /\ [][Next]_vars
Spec == Safety /\ Fairness
-----------------------------------------------------------------------------
Outcomes == {"none", "ok", "failed", "cancelled", "budget", "bug", "timeout"}
Events   == {"step"} \cup Terminators

(* Every variable has the type the scheduler and the wrapper give it.      *)
TypeOK ==
  /\ capped \in BOOLEAN /\ hasEvents \in BOOLEAN
  /\ phase \in {"preflight", "run", "returned", "resolved"}
  /\ awaiting \in [Steps -> Nat]
  /\ task \in [Steps -> {"waiting", "running", "ended", "joined", "gone"}]
  /\ ending \in [Steps -> {"none", "ok", "failed", "cancelled", "panic"}]
  /\ seen \in [Steps -> SUBSET Steps]
  /\ variable \in Steps \cup {Unset} /\ forked \in [Steps -> Steps \cup {Unset}]
  /\ touched \subseteq Steps /\ clobbered \in BOOLEAN
  /\ firstError \in {"none", "failed", "cancelled", "budget"}
  /\ token \in {"none", "caller", "late_caller", "scheduler", "watchdog", "backstop"}
  /\ clock \in {"early", "late", "grace"}
  /\ expired \in BOOLEAN /\ watchdog \in {"armed", "marked", "done"}
  /\ returned \in Outcomes /\ result \in Outcomes
  /\ queue \in Seq(Events) /\ Len(queue) <= EventsCap
  /\ parked \in Seq(Terminators) /\ ends \in Seq(Terminators)
  /\ listening \in BOOLEAN

(* A step that started saw, in the state it was forked from, the merged    *)
(* results of all its value dependencies, and all of them had succeeded.   *)
ValuesBeforeStart == \A s \in Steps : task[s] # "waiting" => ValueDeps(s) \subseteq seen[s]

(* The "Dataflow scheduler bug" exit is unreachable: a run that neither    *)
(* failed nor was cancelled has started every step, whatever cancel or     *)
(* failure raced the last release.                                         *)
NothingLeftBehind == returned # "bug"

QueuedTerminators == {i \in 1..Len(queue) : queue[i] \in Terminators}
TerminatorsSent == Cardinality(QueuedTerminators) + Len(parked) + Len(ends)

(* A handle gets exactly one PipelineCompleted by the time its result      *)
(* resolves, on every path: pre-flight failure, panic, step failure,       *)
(* cancel, deadline, backstop, full channel.                               *)
OneTerminator ==
  /\ TerminatorsSent <= 1
  /\ phase = "resolved" /\ listening => TerminatorsSent = 1

(* The right party is blamed.  Once the watchdog has claimed the deadline  *)
(* no run resolves Ok or Cancelled; no run that resolved before the        *)
(* deadline is a timeout; and a stop the caller asked for before it is     *)
(* theirs, unless the scheduler ignored the token through the grace.       *)
BlameIsRight ==
  /\ expired => result \notin {"ok", "cancelled"}
  /\ result = "timeout" => clock # "early"
  /\ token = "caller" /\ returned # "none" => result # "timeout"

(* Every run resolves: under a wallclock cap even if no step body ever     *)
(* ends or looks at the token, without one if the step bodies end.  A full *)
(* or abandoned events channel never holds it up.                          *)
RunResolves ==
  capped \/ (\A s \in Steps : []<>(task[s] # "running")) => <>(phase = "resolved")

(* A subscriber that keeps reading gets the terminator, even if the        *)
(* channel was full when it was sent.                                      *)
TerminatorArrives ==
  []<>(queue = <<>>) => [](phase = "resolved" /\ listening => <>(ends # <<>> \/ ~listening))

-----------------------------------------------------------------------------
(* A statement of the documentation that the code does not keep.           *)

(* merge_task_state's comment: the baseline tells "which variable entries  *)
(* the task added vs. inherited", so a merge never writes an inherited     *)
(* value over a newer one.                                                 *)
InheritedNeverMerged == ~clobbered
=============================================================================
