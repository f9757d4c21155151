----------------------------- MODULE AwgDevice -----------------------------
(***************************************************************************)
(* The AWGs of an e7awg device and their control registers, as the         *)
(* emulator defines them: emulator/awg.py (the state machine of one AWG),  *)
(* emulator/awgcontroller.py (what a write to a control register does) and *)
(* emulator/register.py (handlers run on the bits that changed).  A        *)
(* register is the set of its bits that are 1.                             *)
(*                                                                         *)
(* The end of a wave is a step of its own: Awg.generate_wave gives up its  *)
(* lock between GEN_WAVE and COMPLETE, and on the FPGA the wave lasts as   *)
(* long as its samples say.                                                *)
(***************************************************************************)
EXTENDS Naturals

CONSTANT AWGs

VARIABLES
  targetSel,   (* master CTRL_TARGET_SEL: the AWGs the master CTRL acts on *)
  masterCtrl,  (* master CTRL                                              *)
  ctrl,        (* individual CTRL of each AWG                              *)
  state        (* state of each AWG                                        *)

deviceVars == <<targetSel, masterCtrl, ctrl, state>>

CtrlBits == {"RESET", "PREPARE", "START", "TERMINATE", "DONE_CLR"}

AwgStates == {"RESET", "IDLE", "READY", "GEN_WAVE", "COMPLETE"}

DeviceTypeOK ==
  /\ targetSel \subseteq AWGs
  /\ masterCtrl \subseteq CtrlBits
  /\ ctrl \in [AWGs -> SUBSET CtrlBits]
  /\ state \in [AWGs -> AwgStates]

DeviceInit ==
  /\ targetSel = {}
  /\ masterCtrl = {}
  /\ ctrl = [a \in AWGs |-> {}]
  /\ state = [a \in AWGs |-> "IDLE"]

-----------------------------------------------------------------------------
(* What each CTRL bit does to an AWG in state s when the register goes from *)
(* old to new.  RESET is a level, the other bits act on their rising edge.  *)

Rises(bit, old, new) == bit \notin old /\ bit \in new

Reset(old, new, s) ==
  IF Rises("RESET", old, new) THEN "RESET"
  ELSE IF Rises("RESET", new, old) /\ s = "RESET" THEN "IDLE"
  ELSE s

Prepare(old, new, s) ==
  IF Rises("PREPARE", old, new) /\ s \in {"IDLE", "COMPLETE"} THEN "READY" ELSE s

Start(old, new, s) ==
  IF Rises("START", old, new) /\ s = "READY" THEN "GEN_WAVE" ELSE s

Terminate(old, new, s) ==
  IF Rises("TERMINATE", old, new) /\ s \in {"READY", "GEN_WAVE"} THEN "COMPLETE" ELSE s

DoneClr(old, new, s) ==
  IF Rises("DONE_CLR", old, new) /\ s = "COMPLETE" THEN "IDLE" ELSE s

(* Handlers run in the order in which they were registered: the master's   *)
(* START before the other bits, an AWG's own after RESET and TERMINATE.    *)
OnMasterCtrl(old, new, s) ==
  DoneClr(old, new, Prepare(old, new, Terminate(old, new, Reset(old, new,
    Start(old, new, s)))))

OnOwnCtrl(old, new, s) ==
  DoneClr(old, new, Prepare(old, new, Start(old, new, Terminate(old, new,
    Reset(old, new, s)))))

-----------------------------------------------------------------------------
(* Register writes, and the end of a wave. *)

WriteTargetSel(value) ==
  /\ targetSel' = value
  /\ UNCHANGED <<masterCtrl, ctrl, state>>

WriteMasterCtrl(value) ==
  /\ masterCtrl' = value
  /\ state' = [a \in AWGs |->
                IF a \in targetSel THEN OnMasterCtrl(masterCtrl, value, state[a])
                                   ELSE state[a]]
  /\ UNCHANGED <<targetSel, ctrl>>

WriteCtrl(a, value) ==
  /\ ctrl' = [ctrl EXCEPT ![a] = value]
  /\ state' = [state EXCEPT ![a] = OnOwnCtrl(ctrl[a], value, @)]
  /\ UNCHANGED <<targetSel, masterCtrl>>

EndWave(a) ==
  /\ state[a] = "GEN_WAVE"
  /\ state' = [state EXCEPT ![a] = "COMPLETE"]
  /\ UNCHANGED <<targetSel, masterCtrl, ctrl>>

(* The bits of an AWG's STATUS register. *)
Status(a, bit) ==
  CASE bit = "READY" -> state[a] = "READY"
    [] bit = "DONE"  -> state[a] = "COMPLETE"
    [] bit = "BUSY"  -> state[a] \in {"READY", "GEN_WAVE"}
=============================================================================
