--------------------------- MODULE MCTimingWheel ---------------------------
(* Small instances of TimingWheel. *)
EXTENDS TimingWheel

CONSTANTS t1, t2, t3

=============================================================================
