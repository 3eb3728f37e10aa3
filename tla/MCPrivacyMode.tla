--------------------------- MODULE MCPrivacyMode ---------------------------
(* Two connections, virtual displays that are slow to plug in, and one     *)
(* message to the hook thread that fails.                                  *)
EXTENDS PrivacyMode

CONSTANTS c1, c2

MCConn == {c1, c2}
=============================================================================
