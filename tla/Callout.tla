------------------------------- MODULE Callout -------------------------------
(***************************************************************************)
(* The callout facility of the stack, lib/ff_kern_timeout.c: a wheel of    *)
(* lists of pending callouts, ff_hardclock() that advances the clock and   *)
(* runs what has expired, and the calls of its clients, which are made     *)
(* between two clock ticks or from inside the function of a callout.       *)
(*                                                                         *)
(* The program is one thread; locks, sleep and wakeup do nothing.  What is *)
(* interleaved here is softclock()'s walk over a bucket with the calls the *)
(* callout functions make on that bucket.  The fields cc_cancel and        *)
(* cc_waiting of an execution entity matter only between threads, or for a *)
(* callout with C_DIRECT_EXEC and a lock, which the KASSERT of             *)
(* callout_reset_tick_on() rules out; cc_expireq and migration are never   *)
(* used.  They are left out.                                               *)
(***************************************************************************)
EXTENDS Clock, Queue

CONSTANTS Clients,        \* callouts that live in the structures of clients
          cc_callout,     \* the preallocated callouts of timeout(9), an array
          Funcs,          \* functions passed to timeout(9)
          callwheelsize,  \* number of buckets, a power of two
          ToTicks,        \* values of the argument to_ticks
          DirectFlags,    \* values of flags & C_DIRECT_EXEC, as booleans
          Folded          \* the compiler turned (a - b) < 0 into a < b

Locals == {cc_callout[i] : i \in DOMAIN cc_callout}

Callouts == Clients \cup Locals

ASSUME CalloutAssumption ==
  /\ cc_callout \in Seq(Locals)
  /\ \A i, j \in DOMAIN cc_callout : cc_callout[i] = cc_callout[j] => i = j
  /\ Clients \cap Locals = {}
  /\ NULL \notin Callouts /\ NULL \notin Funcs
  /\ callwheelsize \in Nat \ {0} /\ Wrap % callwheelsize = 0
  /\ ToTicks \subseteq -Half .. Half - 1
  /\ DirectFlags \subseteq BOOLEAN
  /\ Folded \in BOOLEAN

VARIABLES
  pc,         \* where the thread is
  ticks,      \* the clock
  softticks,  \* cc_softticks: the next tick to process
  curticks,   \* softclock(): the tick being processed
  cur,        \* softclock(): the callout looked at or running
  cc_next,    \* the callout softclock() looks at next
  cc_bucket,  \* the bucket softclock() worked on last
  wheel,      \* cc_callwheel: a list of callouts for each bucket
  cc_curr,    \* the running callout of each of the two execution entities
  cc_drain,   \* whether a drain function waits for it to finish
  pending,    \* c_iflags & CALLOUT_PENDING
  active,     \* c_flags & CALLOUT_ACTIVE
  direct,     \* c_iflags & CALLOUT_DIRECT
  c_time,     \* the tick a callout waits for
  callfree,   \* cc_callfree: the free callouts of timeout(9)
  c_func      \* the function of a callout of timeout(9)

clock == <<ticks, softticks>>
walk  == <<pc, curticks, cur>>
exec  == <<cc_curr, cc_drain>>
local == <<callfree, c_func>>
vars  == <<pc, ticks, softticks, curticks, cur, cc_next, cc_bucket, wheel,
           cc_curr, cc_drain, pending, active, direct, c_time, callfree, c_func>>

-----------------------------------------------------------------------------
callout_get_bucket(t) == t % callwheelsize

BucketOf(c) == callout_get_bucket(c_time[c])

-----------------------------------------------------------------------------
Init ==
  /\ pc = "loop"
  /\ ticks = 0 /\ softticks = 0 /\ curticks = 0
  /\ cur = NULL /\ cc_next = NULL /\ cc_bucket = 0
  /\ wheel = [b \in 0 .. callwheelsize - 1 |-> <<>>]
  /\ cc_curr = [d \in {0, 1} |-> NULL]
  /\ cc_drain = [d \in {0, 1} |-> FALSE]
  /\ pending = [c \in Callouts |-> FALSE]
  /\ active = [c \in Callouts |-> FALSE]
  /\ direct = [c \in Callouts |-> FALSE]
  /\ c_time = [c \in Callouts |-> 0]
  /\ callfree = Reverse(cc_callout)
  /\ c_func = [c \in Locals |-> NULL]

-----------------------------------------------------------------------------
(* The calls of the clients.                                               *)

\* Code of the stack runs: the loop of the program, a callout function, or
\* the drain function of a callout that has finished.
InClient == pc \in {"loop", "function", "drain"}

\* Slip: the callout stays on its list.
SlipNotUnlinked(c) == wheel

\* A pending callout leaves its list: softclock() must not find it there.
Unlinked(c) == [wheel EXCEPT ![BucketOf(c)] = LIST_REMOVE(@, c)]

\* Slip: cc_exec_next() is left pointing to the callout.
SlipStaleNext(c) == cc_next

NextWithout(c) ==
  IF cc_next = c THEN LIST_NEXT(wheel[BucketOf(c)], c) ELSE cc_next

callout_cc_add(c, w, next, to_ticks, dir) ==
  LET t == Plus(ticks, to_ticks)
      b == callout_get_bucket(t)
  IN /\ pending' = [pending EXCEPT ![c] = TRUE]
     /\ active' = [active EXCEPT ![c] = TRUE]
     /\ direct' = [direct EXCEPT ![c] = @ \/ dir]
     /\ c_time' = [c_time EXCEPT ![c] = t]
     /\ wheel' = [w EXCEPT ![b] = LIST_INSERT_HEAD(@, c)]
     /\ cc_next' = IF cc_bucket = b THEN c ELSE next

\* Slip: the function of a freed callout is not cleared.
SlipKeepsFunction(c) ==
  /\ callfree' = IF c \in Locals THEN LIST_INSERT_HEAD(callfree, c) ELSE callfree
  /\ UNCHANGED c_func

callout_cc_del(c) ==
  IF c \in Locals
  THEN /\ callfree' = LIST_INSERT_HEAD(callfree, c)
       /\ c_func' = [c_func EXCEPT ![c] = NULL]
  ELSE UNCHANGED local

\* Slip: a timeout that is not positive is taken as it is.
SlipNotClamped(to_ticks) == to_ticks

AtLeastOne(to_ticks) == IF to_ticks <= 0 THEN 1 ELSE to_ticks

\* A pending callout is taken off its list first.
callout_reset_tick_on(c, to_ticks, dir) ==
  /\ IF pending[c]
     THEN callout_cc_add(c, Unlinked(c), NextWithout(c), AtLeastOne(to_ticks), dir)
     ELSE callout_cc_add(c, wheel, cc_next, AtLeastOne(to_ticks), dir)
  /\ UNCHANGED <<clock, curticks, cur, cc_bucket, exec>>

callout_reset(c, to_ticks, dir) ==
  /\ InClient /\ c \in Clients
  /\ callout_reset_tick_on(c, to_ticks, dir)
  /\ UNCHANGED <<pc, local>>

\* The execution entity in which a call looks for a running callout.
Entity(c) == IF direct[c] THEN 1 ELSE 0

IsCurr(c) == cc_curr[Entity(c)] = c

\* Whether _callout_stop_safe() leaves CALLOUT_ACTIVE set.
ActiveAfterStop(c) == active[c] /\ ~ IsCurr(c) /\ ~ pending[c]

\* callout_stop(), callout_async_drain() when drain is true, and
\* callout_drain() of a callout that is not the running one.
_callout_stop_safe(c, drain) ==
  /\ active' = [active EXCEPT ![c] = ActiveAfterStop(c)]
  /\ cc_drain' = [cc_drain EXCEPT ![Entity(c)] = @ \/ (IsCurr(c) /\ drain)]
  /\ IF pending[c]
     THEN /\ pending' = [pending EXCEPT ![c] = FALSE]
          /\ wheel' = Unlinked(c)
          /\ cc_next' = NextWithout(c)
          /\ callout_cc_del(c)
     ELSE UNCHANGED <<pending, wheel, cc_next, local>>
  /\ UNCHANGED <<clock, walk, cc_bucket, cc_curr, direct, c_time>>

callout_stop(c, drain) ==
  InClient /\ c \in Clients /\ _callout_stop_safe(c, drain)

\* A client initializes a callout that is neither pending nor running.
callout_init(c) ==
  /\ InClient /\ c \in Clients /\ ~ pending[c] /\ c # cc_curr[1]
  /\ active' = [active EXCEPT ![c] = FALSE]
  /\ direct' = [direct EXCEPT ![c] = FALSE]
  /\ c_time' = [c_time EXCEPT ![c] = 0]
  /\ UNCHANGED <<clock, walk, cc_next, cc_bucket, wheel, exec, pending, local>>

\* Clients deactivate a callout from its function, if it is not pending again.
callout_deactivate(c) ==
  /\ InClient /\ c \in Clients /\ ~ pending[c]
  /\ active' = [active EXCEPT ![c] = FALSE]
  /\ UNCHANGED <<clock, walk, cc_next, cc_bucket, wheel, exec, pending, direct,
                 c_time, local>>

timeout(ftn, to_ticks) ==
  /\ InClient /\ callfree # <<>>
  /\ callfree' = Tail(callfree)
  /\ c_func' = [c_func EXCEPT ![Head(callfree)] = ftn]
  /\ callout_reset_tick_on(Head(callfree), to_ticks, FALSE)
  /\ UNCHANGED pc

\* The table of timeout(9) is full: panic() aborts the process.
timeout_panic ==
  /\ InClient /\ callfree = <<>> /\ Funcs # {}
  /\ pc' = "panic"
  /\ UNCHANGED <<clock, curticks, cur, cc_next, cc_bucket, wheel, exec, pending,
                 active, direct, c_time, local>>

untimeout(ftn, c) ==
  /\ InClient /\ c \in Locals
  /\ c_func[c] = ftn
  /\ _callout_stop_safe(c, FALSE)

-----------------------------------------------------------------------------
(* The clock.                                                              *)

ff_hardclock ==
  /\ pc = "loop"
  /\ ticks' = Plus(ticks, 1)
  /\ pc' = "callout_tick"
  /\ UNCHANGED <<softticks, curticks, cur, cc_next, cc_bucket, wheel, exec, pending,
                 active, direct, c_time, local>>

\* (cc_softticks - ticks) < 0.  The subtraction overflows when the clock has
\* wrapped and cc_softticks has not: -O0, the default of the Makefile, wraps,
\* while -O2 compares the two values.
SoftBehind == IF Folded THEN Signed(softticks) < Signed(ticks)
              ELSE Minus(softticks, ticks) >= Half

\* Slip: the bucket of the current tick is looked at, not of the one processed.
SlipWrongBucket ==
  /\ pc = "callout_tick"
  /\ IF SoftBehind
     THEN IF wheel[callout_get_bucket(ticks)] = <<>>
          THEN softticks' = Plus(softticks, 1) /\ UNCHANGED pc
          ELSE pc' = "softclock" /\ UNCHANGED softticks
     ELSE pc' = "loop" /\ UNCHANGED softticks
  /\ UNCHANGED <<ticks, curticks, cur, cc_next, cc_bucket, wheel, exec, pending, active,
                 direct, c_time, local>>

\* The loop of callout_tick(): skip the empty buckets.
callout_tick ==
  /\ pc = "callout_tick"
  /\ IF SoftBehind
     THEN IF wheel[callout_get_bucket(softticks)] = <<>>
          THEN softticks' = Plus(softticks, 1) /\ UNCHANGED pc
          ELSE pc' = "softclock" /\ UNCHANGED softticks
     ELSE pc' = "loop" /\ UNCHANGED softticks
  /\ UNCHANGED <<ticks, curticks, cur, cc_next, cc_bucket, wheel, exec, pending, active,
                 direct, c_time, local>>

\* The outer loop of softclock().
softclock ==
  /\ pc = "softclock"
  /\ IF softticks = ticks
     THEN pc' = "loop" /\ UNCHANGED <<softticks, curticks, cur>>
     ELSE /\ pc' = "bucket"
          /\ curticks' = softticks
          /\ softticks' = Plus(softticks, 1)
          /\ cur' = LIST_FIRST(wheel[callout_get_bucket(softticks)])
  /\ UNCHANGED <<ticks, cc_next, cc_bucket, wheel, exec, pending, active, direct,
                 c_time, local>>

Bucket == callout_get_bucket(curticks)

\* Slip: a callout for a later round ends the walk.
SlipStopsAtLater ==
  /\ pc = "bucket"
  /\ IF cur = NULL
     THEN pc' = "softclock" /\ UNCHANGED cur
     ELSE c_time[cur] # curticks /\ cur' = NULL /\ UNCHANGED pc
  /\ UNCHANGED <<clock, curticks, cc_next, cc_bucket, wheel, exec, pending, active,
                 direct, c_time, local>>

\* The inner loop: the bucket is done, or the callout is for a later round.
softclock_skip ==
  /\ pc = "bucket"
  /\ IF cur = NULL
     THEN pc' = "softclock" /\ UNCHANGED cur
     ELSE /\ c_time[cur] # curticks
          /\ cur' = LIST_NEXT(wheel[Bucket], cur)
          /\ UNCHANGED pc
  /\ UNCHANGED <<clock, curticks, cc_next, cc_bucket, wheel, exec, pending, active,
                 direct, c_time, local>>

\* Slip: callouts for a later round are run too.
SlipRunsEarly ==
  /\ pc = "bucket" /\ cur # NULL
  /\ cc_next' = LIST_NEXT(wheel[Bucket], cur)
  /\ cc_bucket' = Bucket
  /\ wheel' = [wheel EXCEPT ![Bucket] = LIST_REMOVE(@, cur)]
  /\ pending' = [pending EXCEPT ![cur] = FALSE]
  /\ cc_curr' = [cc_curr EXCEPT ![1] = cur]
  /\ cc_drain' = [cc_drain EXCEPT ![1] = FALSE]
  /\ pc' = "function"
  /\ UNCHANGED <<clock, curticks, cur, active, direct, c_time, local>>

\* The callout has expired: up to the call of c_func in softclock_call_cc().
softclock_run ==
  /\ pc = "bucket" /\ cur # NULL /\ c_time[cur] = curticks
  /\ cc_next' = LIST_NEXT(wheel[Bucket], cur)
  /\ cc_bucket' = Bucket
  /\ wheel' = [wheel EXCEPT ![Bucket] = LIST_REMOVE(@, cur)]
  /\ pending' = [pending EXCEPT ![cur] = FALSE]
  /\ direct' = [direct EXCEPT ![cur] = @ /\ cur \notin Locals]
  /\ cc_curr' = [cc_curr EXCEPT ![1] = cur]
  /\ cc_drain' = [cc_drain EXCEPT ![1] = FALSE]
  /\ pc' = "function"
  /\ UNCHANGED <<clock, curticks, cur, active, c_time, local>>

\* The end of softclock_call_cc(), and of the turn of the inner loop.
Finish ==
  /\ callout_cc_del(cur)
  /\ cur' = cc_next
  /\ cc_next' = NULL
  /\ pc' = "bucket"

\* c_func has returned; if there is a drain function it is called first.
function_returns ==
  /\ pc = "function"
  /\ cc_curr' = [cc_curr EXCEPT ![1] = NULL]
  /\ cc_drain' = [cc_drain EXCEPT ![1] = FALSE]
  /\ IF cc_drain[1] THEN pc' = "drain" /\ UNCHANGED <<cur, cc_next, local>>
                    ELSE Finish
  /\ UNCHANGED <<clock, curticks, cc_bucket, wheel, pending, active, direct, c_time>>

drain_returns ==
  /\ pc = "drain"
  /\ Finish
  /\ UNCHANGED <<clock, curticks, cc_bucket, wheel, exec, pending, active, direct,
                 c_time>>

aborted == pc = "panic" /\ UNCHANGED vars

-----------------------------------------------------------------------------
Client ==
  \/ \E c \in Clients :
       \/ \E n \in ToTicks, d \in DirectFlags : callout_reset(c, n, d)
       \/ \E drain \in BOOLEAN : callout_stop(c, drain)
       \/ callout_init(c)
       \/ callout_deactivate(c)
  \/ \E f \in Funcs, n \in ToTicks : timeout(f, n)
  \/ \E f \in Funcs, c \in Locals : untimeout(f, c)
  \/ timeout_panic

System ==
  \/ ff_hardclock \/ callout_tick \/ softclock \/ softclock_skip \/ softclock_run
  \/ function_returns \/ drain_returns

Next == Client \/ System \/ aborted

Spec == Init /\ [][Next]_vars

\* The loop of the program calls ff_hardclock() every 10 ms, softclock() runs
\* to its end, and the functions of callouts return.
FairSpec == Spec /\ WF_vars(System)

-----------------------------------------------------------------------------
(* Properties.                                                             *)

PcValues == {"loop", "callout_tick", "softclock", "bucket", "function", "drain", "panic"}

\* Type invariant: every field of struct callout_cpu and of the callouts keeps
\* to its type, the times to the range of an int.
TypeOK ==
  /\ pc \in PcValues
  /\ ticks \in Ticks /\ softticks \in Ticks /\ curticks \in Ticks
  /\ cur \in Callouts \cup {NULL} /\ cc_next \in Callouts \cup {NULL}
  /\ cc_bucket \in 0 .. callwheelsize - 1
  /\ wheel \in [0 .. callwheelsize - 1 -> Seq(Callouts)]
  /\ cc_curr \in [{0, 1} -> Callouts \cup {NULL}]
  /\ cc_drain \in [{0, 1} -> BOOLEAN]
  /\ pending \in [Callouts -> BOOLEAN]
  /\ active \in [Callouts -> BOOLEAN]
  /\ direct \in [Callouts -> BOOLEAN]
  /\ c_time \in [Callouts -> Ticks]
  /\ callfree \in Seq(Locals)
  /\ c_func \in [Locals -> Funcs \cup {NULL}]

\* The wheel and CALLOUT_PENDING agree: a callout is on the list of the bucket
\* of its c_time exactly when it is pending, on no other list, and once,
\* whatever callout functions reset or stop while softclock() walks a list.
\* With the KASSERTs of softclock_call_cc(), what is on a list is active.
WheelOK ==
  /\ \A b \in DOMAIN wheel, c \in Callouts :
       Contains(wheel[b], c) <=> pending[c] /\ BucketOf(c) = b
  /\ \A b \in DOMAIN wheel : IsInjective(wheel[b])
  /\ \A c \in Callouts : pending[c] => active[c]

InFunction == pc \in {"function", "drain"}

\* No stale pointer: softclock() goes on with a callout that is still on the
\* list it walks, even if the function that ran has stopped, moved or added
\* callouts there; and cc_exec_next(), which callout_cc_add() also sets when
\* softclock() is not running, never points to a callout that is on no list.
WalkOK ==
  /\ cc_next # NULL => Contains(wheel[cc_bucket], cc_next)
  /\ InFunction => cc_bucket = Bucket
  /\ pc = "bucket" /\ cur # NULL => Contains(wheel[Bucket], cur)

\* The clock and softclock() move in step: code of the stack never runs while a
\* tick is still to be processed, and softclock() works on the last tick only.
Lockstep ==
  /\ pc \notin {"callout_tick", "softclock"} => softticks = ticks
  /\ softticks \in {ticks, Minus(ticks, 1)}
  /\ InFunction \/ pc = "bucket" => curticks = Minus(ticks, 1)

\* softclock() is processing the tick of callout c and has still to come to it.
Ahead(c) ==
  LET cursor == IF InFunction THEN cc_next ELSE cur
  IN /\ InFunction \/ pc = "bucket"
     /\ c_time[c] = curticks /\ cursor # NULL
     /\ IndexOf(wheel[Bucket], cursor) <= IndexOf(wheel[Bucket], c)

\* No callout is missed: the tick a pending callout waits for has not been
\* processed, or softclock() is processing it and has the callout ahead.
NothingMissed ==
  \A c \in Callouts :
    pending[c] /\ pc # "panic" => Minus(c_time[c], softticks) < Half \/ Ahead(c)

\* cc_exec_curr() names the callout whose function runs and nothing else, and
\* cc_exec_drain() waits for that one; a callout of timeout(9) is never drained,
\* and not pending again while its function runs ("corrupted callout").
RunningOK ==
  /\ pc # "panic" => cc_curr[1] = IF pc = "function" THEN cur ELSE NULL
  /\ pc = "function" => cur # NULL
  /\ cc_drain[1] => cc_curr[1] # NULL /\ direct[cc_curr[1]]
  /\ pc = "drain" => cur \notin Locals
  /\ \A c \in Locals : ~ direct[c] /\ (cc_curr[1] = c => ~ pending[c])

\* timeout(9) loses no callout and hands out none twice: a preallocated callout
\* is on the free list, once, exactly when it is neither pending nor running,
\* and then it has no function, so that a stale handle does not match it.
LocalsOK ==
  /\ IsInjective(callfree)
  /\ \A c \in Locals : Contains(callfree, c) <=> ~ pending[c] /\ cc_curr[1] # c
  /\ \A c \in Locals : Contains(callfree, c) => c_func[c] = NULL

Timer == INSTANCE TimerService
           WITH Timers <- Callouts, MaxTicks <- Half - 1, Nobody <- NULL,
                now <- ticks, running <- cc_curr[1],
                deadline <- [c \in Callouts |-> IF pending[c] THEN c_time[c] ELSE -1]

\* The callout facility is a timer service: a callout runs only when it is
\* pending and only in the tick after the one it was reset for, and the clock
\* never leaves an expired callout behind.
TimerServiceSpec == Timer!Spec

\* Every pending callout is run, stopped or reset.
Served ==
  \A c \in Callouts, t \in Ticks :
    pending[c] /\ c_time[c] = t ~> ~ pending[c] \/ c_time[c] # t \/ pc = "panic"

\* ff_hardclock() returns to the loop of the program, although the functions it
\* calls may put callouts at the head of the list it walks.
LoopResumes == []<>(pc \in {"loop", "panic"})

\* The comment in _callout_stop_safe() on a running callout, "Succeed we to
\* stop it or not, we must clear the active flag": a call made now for the
\* callout whose function runs would clear it.
StopClearsActive == \A c \in Clients : cc_curr[1] = c => ~ ActiveAfterStop(c)

=============================================================================
