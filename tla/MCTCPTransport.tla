--------------------------- MODULE MCTCPTransport --------------------------
(* Two workers, two sessions, one break.                            *)
EXTENDS TCPTransport, TLC

CONSTANTS k1, k2

\* The two sessions have buffers of their own when they are sticky.
MCHash == k1 :> 0 @@ k2 :> 1
=============================================================================
