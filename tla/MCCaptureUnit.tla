--------------------------- MODULE MCCaptureUnit ---------------------------
(* The two workers of the code, and parameters that are accepted or not. *)
EXTENDS CaptureUnit

CONSTANTS w1, w2, p1, p2, bad

MCWorkers == {w1, w2}
MCParams == {p1, p2, bad}
MCValid == {p1, p2}
=============================================================================
