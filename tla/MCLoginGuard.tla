---------------------------- MODULE MCLoginGuard ----------------------------
(* Two connections from two IPv6 addresses of one /64 prefix; they belong  *)
(* to the same peer, share a session and are asked for a second factor.    *)
EXTENDS LoginGuard, TLC

CONSTANTS c1, c2, ip1, ip2, net, peer

MCConn == {c1, c2}
MCKey == {ip1, ip2, net}
MCIp == c1 :> ip1 @@ c2 :> ip2
MCPrefixes == [c \in MCConn |-> <<net>>]
MCLimit == ip1 :> 1 @@ ip2 :> 1 @@ net :> 1
MCSessionKey == {peer}
MCSession == [c \in MCConn |-> peer]

(* A connection changes places with the other one, and so do their addresses. *)
MCSymmetry == {c1 :> c2 @@ c2 :> c1 @@ ip1 :> ip2 @@ ip2 :> ip1}
=============================================================================
