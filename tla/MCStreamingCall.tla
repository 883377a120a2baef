--------------------------- MODULE MCStreamingCall ---------------------------
(* TLC instance of StreamingCall; the cfg names the callee's two writers.  *)
EXTENDS StreamingCall
=============================================================================
