-------------------------- MODULE MCBenchmarkSetup --------------------------
(***************************************************************************)
(* BenchmarkSetup for TLC: two events stand for the four default ones.     *)
(***************************************************************************)
EXTENDS BenchmarkSetup, TLC

CONSTANTS e1, e2

MCEvents == {e1, e2}
MCDefault == (0 :> e1) @@ (1 :> e2) @@ (2 :> e2) @@ (3 :> e2)
=============================================================================
