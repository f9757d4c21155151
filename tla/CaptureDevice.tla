--------------------------- MODULE CaptureDevice ---------------------------
(***************************************************************************)
(* The capture units of an e7awg device and the registers that control     *)
(* them, as emulator/capturecontroller.py defines them: what a write to a  *)
(* control register does to the units (emulator/capture.py has their       *)
(* states), how units are grouped into capture modules, and which units    *)
(* the wave of an AWG starts.  A register is the set of its bits that are  *)
(* 1, or the module or AWG it selects.                                     *)
(*                                                                         *)
(* CaptureUnit has what happens inside a capture; here it is only seen to  *)
(* end, at any time or never.                                              *)
(***************************************************************************)
CONSTANTS Units, Modules, AWGs,
  None         (* the value 0 of a select register                         *)

VARIABLES
  targetSel,   (* master CTRL_TARGET_SEL                                   *)
  masterCtrl,  (* master CTRL                                              *)
  ctrl,        (* individual CTRL of each unit                             *)
  trigMask,    (* AWG_TRIG_MASK: units that start with the wave of an AWG  *)
  trigSel,     (* CAP_MOD_TRIG_SEL: the AWG that starts each module        *)
  modSel,      (* CAP_MOD_SEL: the module of each unit                     *)
  state        (* state of each unit                                       *)

deviceVars == <<targetSel, masterCtrl, ctrl, trigMask, trigSel, modSel, state>>

CtrlBits == {"RESET", "START", "TERMINATE", "DONE_CLR"}

States == {"RESET", "IDLE", "CAPTURE_WAVE", "COMPLETE"}

DeviceTypeOK ==
  /\ targetSel \subseteq Units /\ trigMask \subseteq Units
  /\ masterCtrl \subseteq CtrlBits
  /\ ctrl \in [Units -> SUBSET CtrlBits]
  /\ trigSel \in [Modules -> AWGs \cup {None}]
  /\ modSel \in [Units -> Modules \cup {None}]
  /\ state \in [Units -> States]

(* __gen_cap_mod_reg: each unit is in some module from the start. *)
DeviceInit(unitToModule) ==
  /\ targetSel = {} /\ trigMask = {}
  /\ masterCtrl = {}
  /\ ctrl = [u \in Units |-> {}]
  /\ trigSel = [m \in Modules |-> None]
  /\ modSel = unitToModule
  /\ state = [u \in Units |-> "IDLE"]

-----------------------------------------------------------------------------
(* What the bits of CTRL do to a unit in state s when the register goes    *)
(* from old to new.                                                        *)

Rises(bit, old, new) == bit \notin old /\ bit \in new

Reset(old, new, s) ==
  IF Rises("RESET", old, new) THEN "RESET"
  ELSE IF Rises("RESET", new, old) /\ s = "RESET" THEN "IDLE"
  ELSE s

Terminate(old, new, s) ==
  IF Rises("TERMINATE", old, new) /\ s = "CAPTURE_WAVE" THEN "COMPLETE" ELSE s

CanStart(s) == s \in {"IDLE", "COMPLETE"}

Start(old, new, s) ==
  IF Rises("START", old, new) /\ CanStart(s) THEN "CAPTURE_WAVE" ELSE s

DoneClr(old, new, s) ==
  IF Rises("DONE_CLR", old, new) /\ s = "COMPLETE" THEN "IDLE" ELSE s

OnCtrl(old, new, s) ==
  DoneClr(old, new, Start(old, new, Terminate(old, new, Reset(old, new, s))))

WriteMasterCtrl(value) ==
  /\ masterCtrl' = value
  /\ state' = [u \in Units |->
       IF u \in targetSel THEN OnCtrl(masterCtrl, value, state[u]) ELSE state[u]]
  /\ UNCHANGED <<targetSel, ctrl, trigMask, trigSel, modSel>>

WriteCtrl(u, value) ==
  /\ ctrl' = [ctrl EXCEPT ![u] = value]
  /\ state' = [state EXCEPT ![u] = OnCtrl(ctrl[u], value, @)]
  /\ UNCHANGED <<targetSel, masterCtrl, trigMask, trigSel, modSel>>

(* The other registers are read when something is started. *)
WriteTargetSel(value) ==
  /\ targetSel' = value
  /\ UNCHANGED <<masterCtrl, ctrl, trigMask, trigSel, modSel, state>>

WriteTrigMask(value) ==
  /\ trigMask' = value
  /\ UNCHANGED <<targetSel, masterCtrl, ctrl, trigSel, modSel, state>>

WriteTrigSel(m, a) ==
  /\ trigSel' = [trigSel EXCEPT ![m] = a]
  /\ UNCHANGED <<targetSel, masterCtrl, ctrl, trigMask, modSel, state>>

WriteModSel(u, m) ==
  /\ modSel' = [modSel EXCEPT ![u] = m]
  /\ UNCHANGED <<targetSel, masterCtrl, ctrl, trigMask, trigSel, state>>

-----------------------------------------------------------------------------
(* Mutant: the mask is not looked at. *)
TriggeredUnmasked(awgs) ==
  {u \in Units : modSel[u] # None /\ trigSel[modSel[u]] \in awgs}

(* The units that the waves of awgs start: those that are not masked, in   *)
(* the modules that have one of awgs for trigger.                          *)
Triggered(awgs) ==
  {u \in trigMask : modSel[u] # None /\ trigSel[modSel[u]] \in awgs}

(* AWGs that START has set going together have generated their waves. *)
OnWaveGenerated(awgs) ==
  /\ state' = [u \in Units |->
       IF u \in Triggered(awgs) /\ CanStart(state[u]) THEN "CAPTURE_WAVE" ELSE state[u]]
  /\ UNCHANGED <<targetSel, masterCtrl, ctrl, trigMask, trigSel, modSel>>

EndCapture(u) ==
  /\ state[u] = "CAPTURE_WAVE"
  /\ state' = [state EXCEPT ![u] = "COMPLETE"]
  /\ UNCHANGED <<targetSel, masterCtrl, ctrl, trigMask, trigSel, modSel>>
=============================================================================
