------------------------------- MODULE HwDefs -------------------------------
(***************************************************************************)
(* Identifiers of the device's parts (hwdefs.py) and the numbers without   *)
(* their bits that commands and reports are made of.                       *)
(*                                                                         *)
(* An enumeration of hwdefs.py is the set of its values; its method        *)
(* includes() is \subseteq, and of(v) is v itself if v is a member.  A     *)
(* number that is only shifted, masked and or-ed is the set of the         *)
(* positions of its one bits, which has no width limit, like a Python int. *)
(***************************************************************************)
EXTENDS Integers

AWG == 0 .. 15
CaptureUnit == 0 .. 9
CaptureParamElem == 0 .. 10
FeedbackChannel == 0 .. 9
FourClassifierChannel == 0 .. 9
DspUnit == {"COMPLEX_FIR", "DECIMATION", "REAL_FIR", "COMPLEX_WINDOW", "SUM",
            "INTEGRATION", "CLASSIFICATION"}

(***************************************************************************)
(* Bit sets.                                                               *)
(***************************************************************************)
\* the one bits of a natural number below 2^31
BitsOf(n) == {i \in 0 .. 30 : (n \div (2 ^ i)) % 2 = 1}

\* bits << k
At(k, bits) == {k + b : b \in bits}

\* (bits >> at) & ((1 << width) - 1)
Slice(bits, at, width) == {b - at : b \in bits \cap (at .. at + width - 1)}

Flag(b) == IF b THEN {0} ELSE {}
=============================================================================
