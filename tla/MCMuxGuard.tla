----------------------------- MODULE MCMuxGuard -----------------------------
(* Instances of MuxGuard: one stream of each type, whatever the output's format. *)
EXTENDS MuxGuard

AllFormats == SUBSET Flags
TypeOf == [s \in Streams |-> s]
=============================================================================
