------------------------------ MODULE SampleLog ------------------------------
(***************************************************************************)
(* What a store of measurements promises its client: a log of at most      *)
(* Capacity whole samples in the order they were handed over, that loses,  *)
(* mixes and invents none.  Handing over one sample more is reported as an *)
(* error, never ignored; from then on nothing is promised.                 *)
(***************************************************************************)
EXTENDS Naturals, Sequences

CONSTANTS Capacity, Samples

VARIABLES
  log,     \* the samples kept
  overrun  \* an overrun has been reported

vars == <<log, overrun>>

Init == log = <<>> /\ overrun = FALSE

Record ==
  /\ ~overrun
  /\ Len(log) < Capacity
  /\ \E s \in Samples : log' = Append(log, s)
  /\ UNCHANGED overrun

Clear ==
  /\ ~overrun
  /\ log' = <<>>
  /\ UNCHANGED overrun

Overrun == ~overrun /\ Len(log) = Capacity /\ overrun'

AfterOverrun == overrun /\ overrun'

Next == Record \/ Clear \/ Overrun \/ AfterOverrun

Spec == Init /\ [][Next]_vars
=============================================================================
