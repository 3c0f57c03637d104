--------------------------- MODULE MCBridgeSession ---------------------------
(***************************************************************************)
(* Instances of BridgeSession for TLC.                                     *)
(***************************************************************************)
EXTENDS BridgeSession

Sound == [closeAfterReads |-> 0, failReadsAfter |-> 0, overstateReadBy |-> 0, understateWriteBy |-> 0]

\* A sound host, and one with each fault of ipchost.Host switched on.
EachFault ==
  { Sound,
    [Sound EXCEPT !.closeAfterReads = 1],
    [Sound EXCEPT !.failReadsAfter = 1],
    [Sound EXCEPT !.overstateReadBy = 1],
    [Sound EXCEPT !.understateWriteBy = 1] }

TwoByteFile == {<<7, 8>>}
SmallOffsets == {-1, 0, 1}
=============================================================================
