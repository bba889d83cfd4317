------------------------------- MODULE Clock -------------------------------
(***************************************************************************)
(* The arithmetic of the tick counter `ticks' (lib/ff_glue.c), a C int     *)
(* that ff_hardclock() increments for ever: values are kept modulo Wrap    *)
(* (2^32 in the program), so that nothing depends on the counter being     *)
(* small.  Signed() reads a value as the C int it stands for.              *)
(***************************************************************************)
EXTENDS Integers

CONSTANT Half   \* half the range of an int: 2^31 in the program

ASSUME HalfAssumption == Half \in Nat /\ Half > 1

Wrap == 2 * Half

Ticks == 0 .. Wrap - 1

Plus(a, b) == IF a + b < Wrap THEN a + b ELSE a + b - Wrap

Minus(a, b) == IF b <= a THEN a - b ELSE a - b + Wrap

Signed(a) == IF a < Half THEN a ELSE a - Wrap

=============================================================================
