---------------------------- MODULE MCPcmContext ----------------------------
(***************************************************************************)
(* PcmContext for TLC: the four default events and one more, x.            *)
(***************************************************************************)
EXTENDS PcmContext, TLC

CONSTANTS L1, L2, L3, Walk, x

MCNames == {L1, L2, L3, Walk, x}
MCDefault == (0 :> L1) @@ (1 :> L2) @@ (2 :> L3) @@ (3 :> Walk)
=============================================================================
