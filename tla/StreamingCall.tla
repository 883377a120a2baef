---------------------------- MODULE StreamingCall ----------------------------
(***************************************************************************)
(* io.invoke_streaming (execute_action_invoked_streaming of                *)
(* src/kernel/mod.rs): a callee runs on a background task and writes into  *)
(* a writable of its own table; the caller reads the other end.            *)
(*                                                                         *)
(* A supervisor joins the callee, records a failure beside the channel and *)
(* only then drops the sender the kernel holds, so that the end of the     *)
(* channel is also the end of the callee.  The channel and the writers are *)
(* StreamWrite's.                                                          *)
(***************************************************************************)
EXTENDS StreamWrite

VARIABLES
  callee,     \* "running", then how its task ended
  alive,      \* the callee's step tasks that still exist
  supervisor, \* "joining", "recorded", "done"
  outcome,    \* the failure slot beside the channel: "none" or "failure"
  errorItem   \* the caller's readable yielded the failure

callVars == <<callee, alive, supervisor, outcome, errorItem>>
allVars == <<vars, callVars>>

Failures == {"failed", "timeout", "panicked"}

CallInit ==
  /\ Init /\ held
  /\ callee = "running" /\ alive = Writers
  /\ supervisor = "joining" /\ outcome = "none" /\ errorItem = FALSE

-----------------------------------------------------------------------------
(* The callee.                                                             *)

CalleeWrites(t) ==
  /\ t \in alive
  /\ WriteRefused(t) \/ WriteCall(t) \/ Send(t)
  /\ UNCHANGED callVars

CalleeCloses ==
  /\ alive # {}
  /\ Close
  /\ UNCHANGED callVars

(* The scheduler joined every step task before its future resolved; the    *)
(* wallclock wrapper may report that as the deadline.                      *)
CalleeReturns(how) ==
  /\ callee = "running"
  /\ \A t \in Writers : ~InFlight(t)
  /\ how = "cancelled" => cancelled
  /\ callee' = how
  /\ alive' = {}
  /\ UNCHANGED <<vars, supervisor, outcome, errorItem>>

(* The callee's future is dropped or unwinds with step tasks still there:  *)
(* the wallclock backstop, a panic.  They are aborted, each at its next    *)
(* suspension point.                                                       *)
CalleeAbandoned(how) ==
  /\ callee = "running"
  /\ callee' = how
  /\ UNCHANGED <<vars, alive, supervisor, outcome, errorItem>>

StepTaskDies(t) ==
  /\ callee # "running" /\ t \in alive
  /\ \/ WriteAborted(t)
     \/ pc[t] = "idle" /\ UNCHANGED vars
  /\ alive' = alive \ {t}
  /\ UNCHANGED <<callee, supervisor, outcome, errorItem>>

(* The callee's table goes with the last task that shares it.              *)
TableDropped ==
  /\ callee # "running" /\ alive = {}
  /\ Drain
  /\ UNCHANGED callVars

-----------------------------------------------------------------------------
(* The supervisor.                                                         *)

(* Mutant: a panic of the callee's own orchestration is not a failure.     *)
RecordsAllButPanics ==
  /\ supervisor = "joining" /\ callee # "running"
  /\ supervisor' = "recorded"
  /\ outcome' = IF callee \in Failures \ {"panicked"} THEN "failure" ELSE outcome
  /\ UNCHANGED <<vars, callee, alive, errorItem>>

SupervisorRecords ==
  /\ supervisor = "joining" /\ callee # "running"
  /\ supervisor' = "recorded"
  /\ outcome' = IF callee \in Failures THEN "failure" ELSE outcome
  /\ UNCHANGED <<vars, callee, alive, errorItem>>

(* Mutant: the held sender does not wait for the outcome.                  *)
DropsBeforeRecording ==
  /\ DropHeld
  /\ callee # "running"
  /\ UNCHANGED callVars

SupervisorDrops ==
  /\ supervisor = "recorded"
  /\ DropHeld
  /\ supervisor' = "done"
  /\ UNCHANGED <<callee, alive, outcome, errorItem>>

-----------------------------------------------------------------------------
(* The caller.                                                             *)

CallerReads ==
  /\ Receive
  /\ UNCHANGED callVars

(* The channel is exhausted: the failure is yielded once, then EOF.        *)
CallerReadsEnd ==
  /\ receiver = "open" /\ channel = <<>> /\ ~SenderLeft
  /\ IF outcome = "failure"
     THEN /\ errorItem' = TRUE
          /\ outcome' = "none"
          /\ UNCHANGED <<vars, callee, alive, supervisor>>
     ELSE ReceiveEof /\ UNCHANGED callVars

CallerDropsReadable ==
  /\ DropReceiver
  /\ UNCHANGED callVars

(* The caller's token: the callee runs under a child of it.                *)
CallerCancels ==
  /\ Cancel
  /\ UNCHANGED callVars

-----------------------------------------------------------------------------
CallNext ==
  \/ \E t \in Writers : CalleeWrites(t) \/ StepTaskDies(t)
  \/ CalleeCloses \/ TableDropped
  \/ \E how \in {"ok", "failed", "timeout", "cancelled"} : CalleeReturns(how)
  \/ \E how \in Failures : CalleeAbandoned(how)
  \/ SupervisorRecords \/ SupervisorDrops
  \/ CallerReads \/ CallerReadsEnd \/ CallerDropsReadable \/ CallerCancels

(* The executor polls the supervisor and the sends and carries out aborts. *)
(* Nothing is assumed of the caller.                                       *)
CallFairness ==
  /\ WF_allVars(SupervisorRecords) /\ WF_allVars(SupervisorDrops)
  /\ \A t \in Writers : WF_allVars(t \in alive /\ Send(t) /\ UNCHANGED callVars)
  /\ \A t \in Writers : WF_allVars(StepTaskDies(t))
  /\ WF_allVars(TableDropped)

CallSafety == CallInit /\ [][CallNext]_allVars
CallSpec == CallSafety /\ CallFairness

-----------------------------------------------------------------------------
(* The callee's state has its type.                                        *)
CallTypeOK ==
  /\ TypeOK
  /\ callee \in {"running", "ok", "cancelled"} \cup Failures
  /\ alive \subseteq Writers
  /\ supervisor \in {"joining", "recorded", "done"}
  /\ outcome \in {"none", "failure"} /\ errorItem \in BOOLEAN

(* How the stream ends tells how the callee did.  A plain EOF came from a  *)
(* callee that ended cleanly or was cancelled by its caller: a failure, a  *)
(* deadline or a panic is never mistaken for the end of the data.  A       *)
(* failure comes after every byte the callee did write.                    *)
EndTellsTheOutcome ==
  /\ receiver = "eof" /\ ~errorItem => callee \in {"ok", "cancelled"}
  /\ errorItem => received = acked /\ callee \in Failures

(* However full the channel, a failed callee's failure reaches a caller    *)
(* that keeps reading.                                                     *)
FailureReachesCaller ==
  WF_allVars(CallerReads) /\ WF_allVars(CallerReadsEnd)
    => ((callee \in Failures) ~> (errorItem \/ receiver = "dropped"))
=============================================================================
