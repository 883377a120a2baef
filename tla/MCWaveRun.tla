------------------------------ MODULE MCWaveRun ------------------------------
(* TLC instance of WaveRun: every manifest of N steps.                     *)
EXTENDS WaveRun
=============================================================================
