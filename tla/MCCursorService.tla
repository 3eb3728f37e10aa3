-------------------------- MODULE MCCursorService --------------------------
(* Two connections and the mouse cursor service.                           *)
EXTENDS CursorService

CONSTANTS c1, c2, cursor

MCConn == {c1, c2}
MCCursor == {cursor}
MCNone == {}
=============================================================================
