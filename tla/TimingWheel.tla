---------------------------- MODULE TimingWheel ----------------------------
(***************************************************************************)
(* The timing wheel of the client example/fstack0 (timingwheel.c): a ring  *)
(* of lists of timers, one slot for 10 ms.  tw_trigger(), which the loop   *)
(* of the program calls every 10 ms, advances the wheel by a slot and      *)
(* walks its list with list_for_each_safe() while the functions it calls   *)
(* add and delete timers.  The lists of list.h are sequences; NULL is the  *)
(* head of the list, where a walk ends.                                    *)
(*                                                                         *)
(* A function may delete any timer but its own, which it closes with       *)
(* TW_CLOSE, and the one the walk has already read as the next.            *)
(***************************************************************************)
EXTENDS Queue, FiniteSets

CONSTANTS Timers,  \* the timers that can be allocated
          Ms,      \* periods that are asked for, in ms
          SizeMs   \* the argument of tw_open(), in ms

\* A period of less than 10 ms would put a timer on the slot that is walked.
ASSUME WheelAssumption ==
  /\ NULL \notin Timers
  /\ Ms \subseteq Nat /\ Ms # {} /\ \A ms \in Ms : ms >= 10
  /\ SizeMs \in Nat \ {0}

VARIABLES
  pc,     \* "idle", "visit", "func" or "closed"
  p,      \* the current slot
  slot,   \* the timers of each slot
  period, \* the period of a timer, in ms
  level,  \* rounds of the wheel a timer still has to wait
  list,   \* tw_trigger(): the timer that is visited
  temp,   \* and the one after it, read before
  due     \* triggers until a timer is to be visited by its period (not in the
          \* program)

vars == <<pc, p, slot, period, level, list, temp, due>>

\* tw_open() rounds up to whole slots.
size == IF SizeMs % 10 = 0 THEN SizeMs \div 10 ELSE SizeMs \div 10 + 1

Slots == 0 .. size - 1

Live == {t \in Timers : \E s \in Slots : Contains(slot[s], t)}

InTicks(ms) == ms \div 10

\* More triggers too late than any timer may be, so that due stays bounded.
MinDue == -(size + 1)

\* Slip: the rounds are counted from one too few.
SlipRoundLess(ms) == (InTicks(ms) \div size) - 1

Level(ms) == InTicks(ms) \div size

\* Slip: counted from the slot after the current one.
SlipOneLate(ms) == (p + InTicks(ms) + 1) % size

SlotOf(ms) == (p + InTicks(ms)) % size

Without(t) == [s \in Slots |-> IF Contains(slot[s], t) THEN LIST_REMOVE(slot[s], t) ELSE slot[s]]

list_add_tail(w, s, t) == [w EXCEPT ![s] = Append(@, t)]

-----------------------------------------------------------------------------
Init ==
  /\ pc = "idle" /\ p = 0
  /\ slot = [s \in Slots |-> <<>>]
  /\ period = [t \in Timers |-> 0] /\ level = [t \in Timers |-> 0]
  /\ list = NULL /\ temp = NULL
  /\ due = [t \in Timers |-> 0]

InClient == pc \in {"idle", "func"}

tw_add_timer(t, ms) ==
  /\ InClient /\ t \notin Live
  /\ period' = [period EXCEPT ![t] = ms]
  /\ level' = [level EXCEPT ![t] = Level(ms)]
  /\ slot' = list_add_tail(slot, SlotOf(ms), t)
  /\ due' = [due EXCEPT ![t] = InTicks(ms)]
  /\ UNCHANGED <<pc, p, list, temp>>

tw_del_timer(t) ==
  /\ InClient /\ t \in Live /\ t \notin {list, temp}
  /\ slot' = Without(t)
  /\ UNCHANGED <<pc, p, period, level, list, temp, due>>

\* The timers are freed with the wheel.
tw_close ==
  /\ pc = "idle" /\ pc' = "closed"
  /\ slot' = [s \in Slots |-> <<>>]
  /\ UNCHANGED <<p, period, level, list, temp, due>>

-----------------------------------------------------------------------------
(* tw_trigger()                                                            *)

\* Slip: the last slot is skipped.
SlipShortRing == IF p + 2 >= size THEN 0 ELSE p + 1

NextSlot == IF p + 1 = size THEN 0 ELSE p + 1

\* list_for_each_safe() comes to timer t (or to the head) of list l.
Come(l, t) ==
  /\ list' = t
  /\ temp' = IF t = NULL THEN NULL ELSE LIST_NEXT(l, t)
  /\ pc' = IF t = NULL THEN "idle" ELSE "visit"

tw_trigger ==
  /\ pc = "idle"
  /\ p' = NextSlot
  /\ Come(slot[NextSlot], LIST_FIRST(slot[NextSlot]))
  /\ due' = [t \in Timers |-> IF t \in Live /\ due[t] > MinDue THEN due[t] - 1 ELSE due[t]]
  /\ UNCHANGED <<slot, period, level>>

\* The timer fires, or it waits for another round.
visit ==
  /\ pc = "visit"
  /\ IF level[list] = 0
     THEN pc' = "func" /\ UNCHANGED <<level, list, temp>>
     ELSE level' = [level EXCEPT ![list] = @ - 1] /\ Come(slot[p], temp)
  /\ UNCHANGED <<p, slot, period, due>>

\* Slip: the timer stays on its slot as well.
SlipNotUnlinked ==
  /\ pc = "func"
  /\ level' = [level EXCEPT ![list] = Level(period[list])]
  /\ slot' = list_add_tail(slot, SlotOf(period[list]), list)
  /\ due' = [due EXCEPT ![list] = InTicks(period[list])]
  /\ Come(slot'[p], temp)
  /\ UNCHANGED <<p, period>>

\* The function returns TW_SUCCESS: the timer is armed again.
func_success ==
  /\ pc = "func"
  /\ level' = [level EXCEPT ![list] = Level(period[list])]
  /\ slot' = list_add_tail(Without(list), SlotOf(period[list]), list)
  /\ due' = [due EXCEPT ![list] = InTicks(period[list])]
  /\ Come(slot'[p], temp)
  /\ UNCHANGED <<p, period>>

\* It returns TW_CLOSE: the timer is freed.
func_close ==
  /\ pc = "func"
  /\ slot' = Without(list)
  /\ Come(slot'[p], temp)
  /\ UNCHANGED <<p, period, level, due>>

\* It returns something else, or there is none: the timer stays where it is.
func_other ==
  /\ pc = "func"
  /\ due' = [due EXCEPT ![list] = size]
  /\ Come(slot[p], temp)
  /\ UNCHANGED <<p, slot, period, level>>

closed == pc = "closed" /\ UNCHANGED vars

-----------------------------------------------------------------------------
Client ==
  \/ \E t \in Timers : tw_del_timer(t) \/ \E ms \in Ms : tw_add_timer(t, ms)
  \/ tw_close

Trigger == tw_trigger \/ visit \/ func_success \/ func_close \/ func_other

Next == Client \/ Trigger \/ closed

Spec == Init /\ [][Next]_vars

\* The loop of the program calls tw_trigger() every 10 ms, and the functions of
\* timers return.
FairSpec == Spec /\ WF_vars(Trigger)

-----------------------------------------------------------------------------
(* Properties.                                                             *)

\* Type invariant: p stays within the slots tw_open() allocated.
TypeOK ==
  /\ pc \in {"idle", "visit", "func", "closed"}
  /\ p \in Slots
  /\ slot \in [Slots -> Seq(Timers)]
  /\ period \in [Timers -> Ms \cup {0}] /\ level \in [Timers -> Nat]
  /\ list \in Timers \cup {NULL} /\ temp \in Timers \cup {NULL}
  /\ due \in [Timers -> Int]

\* tw_trigger() never touches a freed timer: the one it visits, and the one it
\* has read as the next, are on the slot it walks, in this order, whatever the
\* function it called has added, deleted or closed; no timer is on two lists or
\* twice on one, where tw_del_timer() would leave a pointer to it behind.
WalkSafe ==
  /\ pc \in {"visit", "func"} =>
       /\ Contains(slot[p], list)
       /\ temp # NULL => /\ Contains(slot[p], temp)
                         /\ IndexOf(slot[p], list) < IndexOf(slot[p], temp)
  /\ \A s \in Slots : IsInjective(slot[s])
  /\ \A s, r \in Slots, t \in Timers : Contains(slot[s], t) /\ Contains(slot[r], t) => s = r

\* The walk has still to come to timer t: the visited one included, until its
\* function returns.
Ahead(t) ==
  /\ pc \in {"visit", "func"} /\ Contains(slot[p], t)
  /\ \/ t = list
     \/ temp # NULL /\ IndexOf(slot[p], temp) <= IndexOf(slot[p], t)

\* Triggers until timer t fires.
Remaining(t) ==
  LET s == CHOOSE s \in Slots : Contains(slot[s], t)
  IN level[t] * size + IF Ahead(t) THEN 0 ELSE ((s - p - 1) % size) + 1

\* Every timer is on time: from its slot and level it will fire as many triggers
\* after it was added, or fired, as its period has tenths, and one round after its
\* function returned neither TW_SUCCESS nor TW_CLOSE.  If the period is a multiple of
\* the round it may be a round later: the walk does not always come to the timer
\* again in the trigger that armed it.
OnTime ==
  \A t \in Live :
    \/ Remaining(t) = due[t]
    \/ InTicks(period[t]) % size = 0 /\ Remaining(t) = due[t] + size

\* Every timer fires again and again until it is deleted or closed, although timer
\* functions put timers on the slot tw_trigger() is walking.
Fires == \A t \in Timers : t \in Live ~> t \notin Live \/ (pc = "func" /\ list = t)

=============================================================================
