---------------------------- MODULE MCAwgControl ----------------------------
(* Two clients, two AWGs; calls on one AWG, the other, and both. *)
EXTENDS AwgControl, TLC

CONSTANTS c1, c2, a1, a2

MCClients == {c1, c2}
MCAWGs == {a1, a2}
MCArgLists == {<<a1>>, <<a1, a2>>}
MCBoth == {<<a1, a2>>}

(* One client starts AWGs, the other one does anything meanwhile. *)
MCStartOps == c1 :> {"start"} @@
  c2 :> {"start", "terminate", "initialize", "reset", "clear"}
MCWaitOps == c1 :> {"start", "wait"} @@ c2 :> {"start", "terminate", "wait", "clear"}
=============================================================================
