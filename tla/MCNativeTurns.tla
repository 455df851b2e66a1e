--------------------------- MODULE MCNativeTurns ---------------------------
(* A small instance of NativeTurns.                                            *)
EXTENDS NativeTurns
=============================================================================
