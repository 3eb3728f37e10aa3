-------------------------- MODULE MCTerminalService --------------------------
(* Two connections of one client, the second of which may come before the  *)
(* first is gone, and two terminals.                                        *)
EXTENDS TerminalService, TLC
CONSTANTS c1, c2
MCConn == {c1, c2}
MCTid == {1, 2}
MCSymmetry == Permutations(MCConn)
=============================================================================
