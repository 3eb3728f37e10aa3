--------------------------- MODULE MCRegistration ---------------------------
(* Two servers, at one of which the first id belongs to another device.    *)
EXTENDS Registration

CONSTANTS h1, h2, w1

MCHosts == {h1, h2}
MCWriter == {w1}
MCNoWriter == {}
MCTaken == [h \in Host |-> IF h = h1 THEN {1} ELSE {}]
=============================================================================
