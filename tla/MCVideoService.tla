--------------------------- MODULE MCVideoService ---------------------------
(* One monitor and two connections: one that acknowledges its frames over  *)
(* the network and one that does not, or two that do.                      *)
EXTENDS VideoService

CONSTANTS c1, c2, monitor

MCConn == {c1, c2}
MCService == {monitor}
MCNone == {}
MCMixed == {c1}
=============================================================================
