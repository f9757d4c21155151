------------------------------ MODULE MCUdpRw ------------------------------
(* Two clients, each with its own socket; two registers. *)
EXTENDS UdpRw, TLC

CONSTANTS c1, c2, s1, s2, r1, r2

MCClients == {c1, c2}
MCSockets == {s1, s2}
MCOwnSocket == (c1 :> s1) @@ (c2 :> s2)
MCAddrs == {r1, r2}
=============================================================================
