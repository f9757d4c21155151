-------------------------- MODULE MCCaptureControl --------------------------
(* Two clients, two units in two modules, one AWG that can trigger them. *)
EXTENDS CaptureControl, TLC

CONSTANTS c1, c2, u1, u2, m1, m2, a1

MCClients == {c1, c2}
MCUnits == {u1, u2}
MCModules == {m1, m2}
MCAWGs == {a1}
MCAllUnits == <<u1, u2>>
MCUnitToModule == u1 :> m1 @@ u2 :> m2
OnUnits(op, units) == [op |-> op, units |-> units, module |-> None, awg |-> None]
OnModule(op, m, units, a) == [op |-> op, units |-> units, module |-> m, awg |-> a]

(* One client starts both units, has them in one module and enables one;   *)
(* the other one initializes, clears or moves the other unit, sets the     *)
(* trigger of its first module and reads the modules meanwhile.            *)
MCCalls ==
  c1 :> {OnUnits("start", <<u1, u2>>), OnUnits("enable", <<u2>>),
         OnModule("construct", m1, <<u1, u2>>, None)} @@
  c2 :> {OnUnits("initialize", <<u1>>), OnUnits("clear", <<u1>>),
         OnModule("trigger", m1, <<>>, a1), OnModule("construct", m2, <<u1>>, None),
         OnModule("modules", None, <<>>, None)}
=============================================================================
