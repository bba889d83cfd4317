----------------------------- MODULE MCCallout -----------------------------
(* Small instances of Callout. *)
EXTENDS Callout

CONSTANTS c1, c2, f

NoLocals == <<>>

OneLocal == <<"l1">>

\* A timeout that is not positive, which callout_reset_tick_on() makes 1, and
\* the longest that an int can hold.  With two buckets the first is for the
\* bucket softclock() is walking, the second (Half is 3) for the other one.
FewTicks == {-1, Half - 1}

=============================================================================
