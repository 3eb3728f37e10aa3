-------------------------- MODULE MCConnectionSetup --------------------------
(***************************************************************************)
(* Two attempts, one of them with UDP, in two worlds: one where a datagram *)
(* arrives twice, one where nothing goes wrong.  A single attempt in six   *)
(* worlds, each with a fault or with a datagram that arrives twice, and    *)
(* one with both.  Every request may be repeated once.                     *)
(***************************************************************************)
EXTENDS ConnectionSetup

MCAttempt == {1, 2}
MCUdp == {1}
W(force, udp, lan, v6, pk, f, d) ==
    [force |-> force, udp |-> udp, lan |-> lan, v6 |-> v6, pk |-> pk,
     faults |-> f, dups |-> d]
MCWorld ==
    {W(FALSE, TRUE, FALSE, FALSE, "good", 0, 1), W(FALSE, TRUE, TRUE, FALSE, "none", 0, 0)} \cup
    {W(FALSE, FALSE, FALSE, FALSE, "stale", 1, 1), W(FALSE, FALSE, TRUE, FALSE, "bad", 0, 1),
     W(FALSE, FALSE, FALSE, TRUE, "good", 1, 0), W(TRUE, FALSE, FALSE, FALSE, "renamed", 1, 0),
     W(TRUE, FALSE, TRUE, TRUE, "good", 1, 0), W(TRUE, FALSE, FALSE, TRUE, "none", 0, 1)}
=============================================================================
