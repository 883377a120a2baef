---------------------------- MODULE MCStreamRead ----------------------------
(* TLC instance of StreamRead; the cfg names the two tasks t1 and t2.      *)
EXTENDS StreamRead
=============================================================================
