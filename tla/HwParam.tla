------------------------------ MODULE HwParam ------------------------------
(***************************************************************************)
(* Limits and sizes of the device (hwparam.py) that several modules share. *)
(***************************************************************************)
EXTENDS Naturals

CONSTANTS
  NUM_SAMPLES_IN_WAVE_BLOCK,     \* a part of a wave is a multiple of it
  MAX_CAPTURE_SIZE,              \* bytes in the area of a capture unit
  CAPTURE_RAM_WORD_SIZE,         \* bytes
  CAPTURE_DATA_ALIGNMENT_SIZE    \* bytes

ASSUME HwParamConstants ==
  /\ NUM_SAMPLES_IN_WAVE_BLOCK \in Nat \ {0}
  /\ MAX_CAPTURE_SIZE \in Nat \ {0}
  /\ CAPTURE_RAM_WORD_SIZE \in Nat \ {0} /\ CAPTURE_DATA_ALIGNMENT_SIZE \in Nat \ {0}
  /\ MAX_CAPTURE_SIZE % CAPTURE_DATA_ALIGNMENT_SIZE = 0
=============================================================================
