------------------------------ MODULE Wallclock ------------------------------
(***************************************************************************)
(* How run_with_wallclock_timeout (src/kernel/mod.rs) reports an action    *)
(* future that resolved under a cap: as itself, or as the deadline.        *)
(*                                                                         *)
(* An outcome is "ok", "cancelled" (KernelError::Cancelled), "timeout"     *)
(* (ExecutionTimeout), "callee_stopped" (CalleeFailed whose root cause is  *)
(* one of those two) or any other error, by whatever name.                 *)
(***************************************************************************)

StoppedByCancellation(err) == err \in {"cancelled", "timeout", "callee_stopped"}

(* The deadline has passed for this invocation: its watchdog says so, or   *)
(* nobody fired the token and the clock is past the deadline.              *)
DeadlineReached(expired, tokenFired, late) == expired \/ (~tokenFired /\ late)

Report(outcome, expired, tokenFired, late) ==
  IF \/ outcome = "ok" /\ expired
     \/ StoppedByCancellation(outcome) /\ DeadlineReached(expired, tokenFired, late)
  THEN "timeout"
  ELSE outcome
=============================================================================
