---------------------------- MODULE TimerService ----------------------------
(***************************************************************************)
(* What the callout facility of the stack promises its clients: a timer    *)
(* armed at tick `now' for n ticks runs once, in the tick that follows     *)
(* now + n, unless it is disarmed or armed again before.  The clock is the *)
(* wrapping counter `ticks' of the kernel; it does not advance while a     *)
(* timer is overdue or running, which is how the single-threaded loop of   *)
(* the program behaves: one call of ff_hardclock() runs everything that    *)
(* has expired.                                                            *)
(***************************************************************************)
EXTENDS Clock

CONSTANTS Timers,    \* the timers of the system
          MaxTicks,  \* longest timeout a client asks for
          Nobody     \* no timer

VARIABLES now,       \* the current tick
          deadline,  \* the last tick a timer waits for, or None
          running    \* the timer whose function runs, or Nobody

vars == <<now, deadline, running>>

None == -1

Init == /\ now = 0
        /\ deadline = [t \in Timers |-> None]
        /\ running = Nobody

\* The tick a timer was waiting for is over.
Overdue(t) == deadline[t] # None /\ Plus(deadline[t], 1) = now

\* Arm and Disarm may be called by anyone, the running function included.
Arm(t) == /\ \E n \in 1 .. MaxTicks :
                deadline' = [deadline EXCEPT ![t] = Plus(now, n)]
          /\ UNCHANGED <<now, running>>

Disarm(t) == /\ deadline' = [deadline EXCEPT ![t] = None]
             /\ UNCHANGED <<now, running>>

Run(t) == /\ running = Nobody
          /\ Overdue(t)
          /\ deadline' = [deadline EXCEPT ![t] = None]
          /\ running' = t
          /\ UNCHANGED now

Return == /\ running' = Nobody
          /\ UNCHANGED <<now, deadline>>

Tick == /\ running = Nobody
        /\ \A t \in Timers : ~ Overdue(t)
        /\ now' = Plus(now, 1)
        /\ UNCHANGED <<deadline, running>>

Next == \/ Tick
        \/ Return
        \/ \E t \in Timers : Arm(t) \/ Disarm(t) \/ Run(t)

Spec == Init /\ [][Next]_vars

=============================================================================
