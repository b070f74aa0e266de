------------------------ MODULE MCMultithreadedBench ------------------------
(***************************************************************************)
(* MultithreadedBench for TLC: workers are interchangeable in the runs     *)
(* that check no liveness property.                                        *)
(***************************************************************************)
EXTENDS MultithreadedBench, TLC

WorkerSymmetry == Permutations(Workers)
=============================================================================
