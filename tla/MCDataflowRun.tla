---------------------------- MODULE MCDataflowRun ----------------------------
(* TLC instances of DataflowRun: a producer p feeds b by stream; b waits   *)
(* for the value of a, and c for the values of a and b.                    *)
EXTENDS DataflowRun, TLC

CONSTANTS a, b, c, p

DepsFork    == (a :> {}) @@ (b :> {a, p}) @@ (c :> {a, b}) @@ (p :> {})
DepsLine    == (a :> {}) @@ (b :> {a, p}) @@ (p :> {})
=============================================================================
