----------------------------- MODULE MCBridgeDial ----------------------------
(***************************************************************************)
(* Instances of BridgeDial for TLC.                                        *)
(***************************************************************************)
EXTENDS BridgeDial
=============================================================================
