--------------------------- MODULE MCNativeBridge ---------------------------
(* Small instances of NativeBridge for TLC.                                *)
EXTENDS NativeBridge, TLC

\* Server processes are interchangeable.
PeerSymmetry == Permutations(Peers)
=============================================================================
