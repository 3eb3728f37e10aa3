------------------------------ MODULE MCServer ------------------------------
(* Two connections; the primary monitor and the primary camera are video   *)
(* services with a snapshot, the window focus service has none.            *)
EXTENDS Server, TLC

CONSTANTS c1, c2, monitor, camera, focus

MCConn == {c1, c2}
MCService == {monitor, camera, focus}
MCVideo == {monitor, camera}
MCPrimaryVideo == {monitor}
MCPrimaryCamera == {camera}
MCSymmetry == Permutations(MCConn)
=============================================================================
