------------------------ MODULE CalloutTimingProofs ------------------------
(***************************************************************************)
(* Callouts run in time: with the comparison of callout_tick() wrapping,   *)
(* as the default build compiles it, no pending callout is ever missed,    *)
(* and the facility implements TimerService.                               *)
(***************************************************************************)
EXTENDS CalloutProofs

\* The wrapping arithmetic of the tick counter, ticks + n and a - ticks.
LEMMA ClockArithmetic ==
  ASSUME NEW a \in Ticks, NEW x \in Ticks
  PROVE  /\ Plus(a, 1) \in Ticks /\ Minus(a, 1) \in Ticks
         /\ Minus(a, a) = 0 /\ 0 < Half
         /\ Minus(Plus(a, 1), 1) = a /\ Plus(Minus(a, 1), 1) = a
         /\ Minus(Minus(a, 1), a) >= Half /\ Minus(a, 1) # a
         /\ x # a => Minus(x, Plus(a, 1)) = Minus(x, a) - 1
         /\ Minus(x, a) \in Int /\ Half \in Int
         /\ \A n \in 1 .. Half - 1 : Minus(Plus(a, n), a) = n
BY HalfAssumption DEF Plus, Minus, Ticks, Wrap

\* The inductive invariant: that no callout is missed rests on softclock() being
\* in step with the clock.
TInv == Inv /\ Lockstep /\ NothingMissed

\* A callout that waits for the tick being processed is on the walked list.
LEMMA DueOnList ==
  ASSUME Inv, NEW d \in Callouts, pending[d], c_time[d] = curticks
  PROVE  /\ Contains(wheel[Bucket], d) /\ Bucket \in Buckets
         /\ wheel[Bucket] \in Seq(Callouts) /\ IsInjective(wheel[Bucket])
<1>1. OnWheel(wheel, pending, c_time)
  BY WheelOKMeansOnWheel DEF Inv
<1>2. Bucket \in Buckets
  BY BucketType DEF Inv, TypeOK, Bucket
<1>. QED  BY <1>1, <1>2 DEF OnWheel, Bucket

\* Unlinking a callout moves cc_exec_next() no further than to the next one: what
\* softclock() has ahead of it stays ahead.
LEMMA UnlinkKeepsAhead ==
  ASSUME Inv, InFunction, NEW c \in Callouts, pending[c],
         NEW d \in Callouts, pending[d], d # c, Ahead(d)
  PROVE  /\ NextWithout(c) # NULL
         /\ IndexOf(Unlinked(c)[Bucket], NextWithout(c)) <= IndexOf(Unlinked(c)[Bucket], d)
         /\ Contains(Unlinked(c)[Bucket], d)
<1>. DEFINE l == wheel[Bucket]
            r == Unlinked(c)[Bucket]
            x == LIST_NEXT(wheel[BucketOf(c)], c)
<1>1. /\ c_time[d] = curticks /\ cc_next # NULL
      /\ IndexOf(l, cc_next) <= IndexOf(l, d)
  BY DEF Ahead
<1>2. Contains(l, d) /\ Bucket \in Buckets /\ l \in Seq(Callouts) /\ IsInjective(l)
  BY <1>1, DueOnList
<1>3. Contains(l, cc_next)
  BY <1>1 DEF Inv, WalkOK
<1>4. /\ Unlinked(c)[BucketOf(c)] = LIST_REMOVE(wheel[BucketOf(c)], c)
      /\ \A a \in Buckets \ {BucketOf(c)} : Unlinked(c)[a] = wheel[a]
      /\ Contains(wheel[BucketOf(c)], c) /\ BucketOf(c) \in Buckets
  BY Zenon, UnlinkedProperties
<1>5. NextWithout(c) = IF cc_next = c THEN x ELSE cc_next
  BY DEF NextWithout
<1>6. CASE BucketOf(c) # Bucket
  <2>1. r = l
    BY <1>2, <1>4, <1>6
  <2>2. cc_next # c
    BY <1>2, <1>3, <1>6 DEF Inv, TypeOK, WheelOK, Buckets
  <2>. QED  BY <1>1, <1>2, <1>5, <2>1, <2>2
<1>7. CASE BucketOf(c) = Bucket
  <2>1. r = LIST_REMOVE(l, c) /\ Contains(l, c) /\ x = LIST_NEXT(l, c)
    BY <1>4, <1>7
  <2>. HIDE DEF l, r, x
  <2>2. ASSUME NEW e, e # c, Contains(l, e), IndexOf(l, e) <= IndexOf(l, d)
        PROVE  IndexOf(r, e) <= IndexOf(r, d) /\ Contains(r, d)
    BY <1>2, <2>1, <2>2, ListRemoveProperties
  <2>3. CASE cc_next = c
    <3>1. x # NULL /\ IndexOf(l, x) <= IndexOf(l, d) /\ Contains(l, x) /\ x # c
      BY <1>1, <1>2, <2>1, <2>3, ListNextProperties, CalloutAssumption DEF l
    <3>. QED  BY <1>5, <2>2, <2>3, <3>1 DEF r
  <2>4. CASE cc_next # c
    BY <1>1, <1>3, <1>5, <2>2, <2>4 DEF l, r
  <2>. QED  BY <2>3, <2>4
<1>. QED  BY <1>6, <1>7

\* callout_reset_tick_on() of another callout, called by a callout function,
\* leaves ahead what was ahead: softclock() goes back to the head of the list,
\* or goes on where it would have.
LEMMA ResetKeepsAhead ==
  ASSUME Inv, InFunction, NEW c \in Callouts, NEW n \in ToTicks, NEW dir \in BOOLEAN,
         callout_reset_tick_on(c, n, dir), UNCHANGED pc,
         NEW d \in Callouts, pending[d], d # c, Ahead(d)
  PROVE  Ahead(d)'
<1>. DEFINE w == IF pending[c] THEN Unlinked(c) ELSE wheel
            x == IF pending[c] THEN NextWithout(c) ELSE cc_next
            t == Plus(ticks, AtLeastOne(n))
            b == callout_get_bucket(t)
            p == [pending EXCEPT ![c] = FALSE]
<1>1. OnWheel(wheel, pending, c_time) /\ pending \in [Callouts -> BOOLEAN]
  BY WheelOKMeansOnWheel DEF Inv, TypeOK
<1>2. OnWheel(w, p, c_time)
  <2>1. CASE pending[c]
    BY <2>1, UnlinkedProperties
  <2>2. CASE ~ pending[c]
    BY Zenon, <2>2, <1>1
  <2>. QED  BY <2>1, <2>2
<1>3. c_time[d] = curticks
  BY DEF Ahead
<1>4. /\ x # NULL /\ IndexOf(w[Bucket], x) <= IndexOf(w[Bucket], d)
      /\ Contains(w[Bucket], d)
  <2>1. CASE pending[c]
    BY <2>1, UnlinkKeepsAhead
  <2>2. CASE ~ pending[c]
    BY <2>2, <1>3, DueOnList DEF Ahead
  <2>. QED  BY <2>1, <2>2
<1>5. ~ p[c] /\ t \in Ticks /\ b \in Buckets
  BY <1>1, AtLeastOneType, PlusType, BucketType DEF Inv, TypeOK
<1>6. callout_cc_add(c, w, x, AtLeastOne(n), dir)
  BY DEF callout_reset_tick_on
<1>. HIDE DEF w, x, p, t
<1>7. /\ c_time' = [c_time EXCEPT ![c] = t]
      /\ wheel' = [w EXCEPT ![b] = LIST_INSERT_HEAD(@, c)]
      /\ cc_next' = IF cc_bucket = b THEN c ELSE x
  BY <1>6 DEF callout_cc_add, t
<1>. HIDE DEF b
<1>8. curticks' = curticks /\ Bucket' = Bucket /\ InFunction' /\ cc_bucket = Bucket
  BY DEF callout_reset_tick_on, Inv, WalkOK, InFunction, Bucket
<1>9. c_time'[d] = curticks
  BY <1>3, <1>7 DEF Inv, TypeOK
<1>10. CASE b = Bucket
  <2>1. w[b] \in Seq(Callouts) /\ IsInjective(w[b]) /\ ~ Contains(w[b], c) /\ w \in [Buckets -> Seq(Callouts)]
    BY <1>2, <1>5 DEF OnWheel
  <2>2. /\ IndexOf(LIST_INSERT_HEAD(w[b], c), c) = 1
        /\ IndexOf(LIST_INSERT_HEAD(w[b], c), d) = IndexOf(w[b], d) + 1
    BY <1>4, <1>10, <2>1, ListInsertProperties
  <2>3. IndexOf(w[b], d) \in Nat
    BY <1>4, <1>10, <2>1, IndexOfProperties
  <2>4. wheel'[Bucket] = LIST_INSERT_HEAD(w[b], c) /\ cc_next' = c /\ c # NULL
    BY <1>5, <1>7, <1>8, <1>10, <2>1, CalloutAssumption
  <2>5. IndexOf(wheel'[Bucket], c) <= IndexOf(wheel'[Bucket], d)
    BY <2>2, <2>3, <2>4
  <2>. QED  BY <1>8, <1>9, <2>4, <2>5 DEF Ahead
<1>11. CASE b # Bucket
  <2>1. wheel'[Bucket] = w[Bucket] /\ cc_next' = x
    BY <1>2, <1>4, <1>7, <1>8, <1>11 DEF OnWheel
  <2>. QED  BY <1>4, <1>8, <1>9, <2>1 DEF Ahead
<1>. QED  BY <1>10, <1>11

\* Lockstep and NothingMissed survive a reset, by a client or by timeout().
LEMMA ResetKeepsTiming ==
  ASSUME TInv, InClient, NEW c \in Callouts, NEW n \in ToTicks, NEW dir \in BOOLEAN,
         callout_reset_tick_on(c, n, dir), UNCHANGED pc
  PROVE  Lockstep' /\ NothingMissed'
<1>1. UNCHANGED <<ticks, softticks, curticks, pc>>
  BY DEF callout_reset_tick_on, clock
<1>2. Lockstep' /\ softticks = ticks /\ pc # "bucket" /\ pc # "panic"
  BY <1>1 DEF TInv, Lockstep, InFunction, InClient
<1>3. /\ pending' = [pending EXCEPT ![c] = TRUE]
      /\ c_time' = [c_time EXCEPT ![c] = Plus(ticks, AtLeastOne(n))]
  BY ResetProperties DEF TInv
<1>4. ASSUME NEW d \in Callouts, pending'[d]
      PROVE  Minus(c_time'[d], softticks') < Half \/ Ahead(d)'
  <2>1. CASE d = c
    <3>1. c_time'[d] = Plus(ticks, AtLeastOne(n))
      BY <1>3, <2>1 DEF TInv, Inv, TypeOK
    <3>2. AtLeastOne(n) \in 1 .. Half - 1 /\ ticks \in Ticks
      BY AtLeastOneType DEF TInv, Inv, TypeOK
    <3>3. Minus(Plus(ticks, AtLeastOne(n)), ticks) = AtLeastOne(n)
      BY <3>2, ClockArithmetic
    <3>. QED  BY <1>1, <1>2, <3>1, <3>2, <3>3, HalfAssumption
  <2>2. CASE d # c
    <3>1. pending[d] /\ c_time'[d] = c_time[d]
      BY <1>3, <1>4, <2>2 DEF TInv, Inv, TypeOK
    <3>2. Minus(c_time[d], softticks) < Half \/ Ahead(d)
      BY <1>2, <3>1 DEF TInv, NothingMissed
    <3>3. Ahead(d) => InFunction
      BY <1>2 DEF Ahead
    <3>4. Ahead(d) => Ahead(d)'
      BY <1>1, <2>2, <3>1, <3>3, ResetKeepsAhead DEF TInv
    <3>. QED  BY <1>1, <3>1, <3>2, <3>4
  <2>. QED  BY <2>1, <2>2
<1>. QED  BY <1>2, <1>4 DEF NothingMissed

\* The same for _callout_stop_safe(), called for a client or by untimeout().
LEMMA StopKeepsTiming ==
  ASSUME TInv, InClient, NEW c \in Callouts, NEW drain \in BOOLEAN, _callout_stop_safe(c, drain)
  PROVE  Lockstep' /\ NothingMissed'
<1>1. UNCHANGED <<ticks, softticks, curticks, pc, c_time>>
  BY DEF _callout_stop_safe, clock, walk
<1>2. Lockstep' /\ pc # "bucket" /\ pc # "panic"
  BY <1>1 DEF TInv, Lockstep, InFunction, InClient
<1>3. ASSUME NEW d \in Callouts, pending'[d]
      PROVE  Minus(c_time'[d], softticks') < Half \/ Ahead(d)'
  <2>1. pending[d] /\ (pending[c] => d # c)
    BY <1>3 DEF _callout_stop_safe, TInv, Inv, TypeOK
  <2>2. Minus(c_time[d], softticks) < Half \/ Ahead(d)
    BY <1>2, <2>1 DEF TInv, NothingMissed
  <2>3. ASSUME Ahead(d) PROVE Ahead(d)'
    <3>1. InFunction /\ InFunction' /\ Bucket' = Bucket /\ c_time'[d] = curticks'
      BY <1>1, <1>2, <2>3 DEF Ahead, InFunction, Bucket
    <3>2. CASE pending[c]
      <4>1. wheel' = Unlinked(c) /\ cc_next' = NextWithout(c)
        BY <3>2 DEF _callout_stop_safe
      <4>2. /\ NextWithout(c) # NULL
            /\ IndexOf(Unlinked(c)[Bucket], NextWithout(c)) <= IndexOf(Unlinked(c)[Bucket], d)
        BY <2>1, <2>3, <3>1, <3>2, UnlinkKeepsAhead DEF TInv
      <4>. QED  BY <3>1, <4>1, <4>2 DEF Ahead
    <3>3. CASE ~ pending[c]
      <4>1. UNCHANGED <<wheel, cc_next>>
        BY <3>3 DEF _callout_stop_safe
      <4>. QED  BY <2>3, <3>1, <4>1 DEF Ahead
    <3>. QED  BY <3>2, <3>3
  <2>. QED  BY <1>1, <2>2, <2>3
<1>. QED  BY <1>2, <1>3 DEF NothingMissed

\* softclock() starting the function of a callout, or stepping over one that is
\* for a later round, has ahead of it what it had, but for that callout.
LEMMA StepKeepsAhead ==
  ASSUME Inv, pc = "bucket", cur # NULL, NEW d \in Callouts, pending[d], d # cur, Ahead(d)
  PROVE  LET x == LIST_NEXT(wheel[Bucket], cur)
         IN /\ x # NULL /\ IndexOf(wheel[Bucket], x) <= IndexOf(wheel[Bucket], d)
            /\ IndexOf(LIST_REMOVE(wheel[Bucket], cur), x)
                 <= IndexOf(LIST_REMOVE(wheel[Bucket], cur), d)
<1>. DEFINE l == wheel[Bucket]
            x == LIST_NEXT(l, cur)
<1>1. c_time[d] = curticks /\ IndexOf(l, cur) <= IndexOf(l, d)
  BY DEF Ahead, InFunction
<1>2. Contains(l, d) /\ l \in Seq(Callouts) /\ IsInjective(l)
  BY <1>1, DueOnList
<1>3. Contains(l, cur)
  BY DEF Inv, WalkOK
<1>. HIDE DEF l
<1>4. x # NULL /\ IndexOf(l, x) <= IndexOf(l, d) /\ Contains(l, x) /\ x # cur
  BY <1>1, <1>2, <1>3, ListNextProperties, CalloutAssumption
<1>. HIDE DEF x
<1>5. IndexOf(LIST_REMOVE(l, cur), x) <= IndexOf(LIST_REMOVE(l, cur), d)
  BY <1>2, <1>3, <1>4, ListRemoveProperties
<1>. QED  BY <1>4, <1>5 DEF l, x

\* NothingMissed survives a step that leaves the callouts, the wheel and
\* cc_softticks alone, if the walk keeps its place.
LEMMA StillWheelKeepsTiming ==
  ASSUME NothingMissed, pc # "panic",
         UNCHANGED <<wheel, pending, c_time, softticks>>,
         \A d \in Callouts : pending[d] /\ Ahead(d) => Ahead(d)'
  PROVE  NothingMissed'
BY DEF NothingMissed

\* Every call of a client and every step of the clock keeps TInv, if callout_tick()
\* compares cc_softticks with ticks by their wrapping difference.
LEMMA TInvNext ==
  ASSUME Folded = FALSE
  PROVE  TInv /\ [Next]_vars => TInv'
<1>. SUFFICES ASSUME TInv, [Next]_vars PROVE Lockstep' /\ NothingMissed'
  BY InvNext DEF TInv
<1>. USE DEF TInv
<1>1. ASSUME NEW c \in Clients, NEW n \in ToTicks, NEW d \in DirectFlags, callout_reset(c, n, d)
      PROVE  Lockstep' /\ NothingMissed'
  <2>1. c \in Callouts /\ d \in BOOLEAN
    BY CalloutAssumption DEF Callouts
  <2>. QED  BY <1>1, <2>1, ResetKeepsTiming DEF callout_reset
<1>2. ASSUME NEW c \in Clients, NEW drain \in BOOLEAN, callout_stop(c, drain)
      PROVE  Lockstep' /\ NothingMissed'
  BY <1>2, StopKeepsTiming DEF callout_stop, Callouts
<1>3. ASSUME NEW c \in Clients, callout_init(c) \/ callout_deactivate(c)
      PROVE  Lockstep' /\ NothingMissed'
  <2>1. /\ c \in Callouts /\ ~ pending[c] /\ pc # "panic"
        /\ UNCHANGED <<pc, ticks, softticks, curticks, cur, cc_next, wheel, pending>>
        /\ c_time' \in {c_time, [c_time EXCEPT ![c] = 0]}
    BY <1>3 DEF Callouts, callout_init, callout_deactivate, InClient, clock, walk
  <2>2. \A d \in Callouts : pending[d] => c_time'[d] = c_time[d]
    BY <2>1 DEF Inv, TypeOK
  <2>3. \A d \in Callouts : pending[d] /\ Ahead(d) => Ahead(d)'
    BY <2>1, <2>2 DEF Ahead, InFunction, Bucket
  <2>. QED  BY <2>1, <2>2, <2>3 DEF Lockstep, NothingMissed, InFunction
<1>4. ASSUME NEW f \in Funcs, NEW n \in ToTicks, timeout(f, n)
      PROVE  Lockstep' /\ NothingMissed'
  <2>1. Head(callfree) \in Callouts
    BY <1>4, HeadTailProperties DEF timeout, Inv, TypeOK, Callouts
  <2>. QED  BY Zenon, <1>4, <2>1, ResetKeepsTiming DEF timeout
<1>5. ASSUME NEW f \in Funcs, NEW c \in Locals, untimeout(f, c)
      PROVE  Lockstep' /\ NothingMissed'
  BY Zenon, <1>5, StopKeepsTiming DEF untimeout, Callouts
<1>6. CASE timeout_panic
  BY <1>6 DEF timeout_panic, Lockstep, NothingMissed, InFunction, InClient, clock
<1>7. CASE ff_hardclock
  <2>1. softticks = ticks /\ ~ InFunction /\ pc # "bucket"
    BY <1>7 DEF ff_hardclock, Lockstep, InFunction
  <2>2. ticks \in Ticks
    BY DEF Inv, TypeOK
  <2>3. Lockstep'
    BY SMTT(30), <1>7, <2>1, <2>2, ClockArithmetic DEF ff_hardclock, Lockstep, InFunction
  <2>4. NothingMissed'
    BY <1>7, <2>1, StillWheelKeepsTiming DEF ff_hardclock, Ahead
  <2>. QED  BY <2>3, <2>4
<1>8. CASE callout_tick
  <2>1. ticks \in Ticks /\ softticks \in Ticks /\ softticks \in {ticks, Minus(ticks, 1)}
    BY DEF Inv, TypeOK, Lockstep
  <2>2. SoftBehind <=> softticks # ticks
    BY <2>1, ClockArithmetic, HalfAssumption DEF SoftBehind
  <2>3. pc = "callout_tick" /\ UNCHANGED <<ticks, curticks, cur, cc_next, wheel, pending, c_time>>
    BY <1>8 DEF callout_tick
  <2>4. CASE SoftBehind /\ wheel[callout_get_bucket(softticks)] = <<>>
    <3>1. softticks' = Plus(softticks, 1) /\ pc' = "callout_tick" /\ softticks' = ticks
      BY <1>8, <2>1, <2>2, <2>4, ClockArithmetic DEF callout_tick
    <3>2. Lockstep'
      BY <2>3, <3>1 DEF Lockstep, InFunction
    <3>3. ASSUME NEW d \in Callouts, pending[d]
          PROVE  Minus(c_time[d], softticks') < Half
      <4>1. Minus(c_time[d], softticks) < Half /\ c_time[d] \in Ticks
        BY <2>3, <3>3 DEF NothingMissed, Ahead, InFunction, Inv, TypeOK
      <4>2. c_time[d] # softticks
        <5>1. callout_get_bucket(softticks) \in DOMAIN wheel
          BY <2>1, BucketType DEF Inv, TypeOK, Buckets
        <5>2. ~ Contains(wheel[callout_get_bucket(softticks)], d)
          BY <2>4 DEF Contains
        <5>. QED  BY <3>3, <5>1, <5>2 DEF Inv, WheelOK, BucketOf
      <4>3. Minus(c_time[d], Plus(softticks, 1)) = Minus(c_time[d], softticks) - 1
        BY <2>1, <4>1, <4>2, ClockArithmetic
      <4>4. Minus(c_time[d], softticks) \in Int /\ Half \in Int
        BY SMTT(30), <2>1, <4>1, ClockArithmetic
      <4>. QED  BY <3>1, <4>1, <4>3, <4>4
    <3>. QED  BY <2>3, <3>2, <3>3 DEF NothingMissed
  <2>5. CASE ~ (SoftBehind /\ wheel[callout_get_bucket(softticks)] = <<>>)
    <3>1. /\ UNCHANGED softticks /\ pc' \in {"softclock", "loop"}
          /\ pc' = "loop" => softticks = ticks
      BY <1>8, <2>2, <2>5 DEF callout_tick
    <3>2. Lockstep'
      BY <2>3, <3>1 DEF Lockstep, InFunction
    <3>3. NothingMissed'
      BY <2>3, <3>1, StillWheelKeepsTiming DEF Ahead, InFunction
    <3>. QED  BY <3>2, <3>3
  <2>. QED  BY <2>4, <2>5
<1>9. CASE softclock
  <2>1. ticks \in Ticks /\ softticks \in Ticks /\ softticks \in {ticks, Minus(ticks, 1)}
    BY DEF Inv, TypeOK, Lockstep
  <2>2. pc = "softclock" /\ UNCHANGED <<ticks, cc_next, wheel, pending, c_time>>
    BY <1>9 DEF softclock
  <2>3. CASE softticks = ticks
    <3>1. UNCHANGED <<softticks, curticks, cur>> /\ pc' = "loop"
      BY <1>9, <2>3 DEF softclock
    <3>2. Lockstep'
      BY <2>2, <2>3, <3>1 DEF Lockstep, InFunction
    <3>3. NothingMissed'
      BY <2>2, <3>1, StillWheelKeepsTiming DEF Ahead, InFunction
    <3>. QED  BY <3>2, <3>3
  <2>4. CASE softticks # ticks
    <3>1. /\ pc' = "bucket" /\ curticks' = softticks /\ softticks' = Plus(softticks, 1)
          /\ cur' = LIST_FIRST(wheel[callout_get_bucket(softticks)])
      BY <1>9, <2>4 DEF softclock
    <3>2. Plus(softticks, 1) = ticks /\ softticks = Minus(ticks, 1)
      BY <2>1, <2>4, ClockArithmetic
    <3>3. Lockstep'
      BY <2>2, <3>1, <3>2 DEF Lockstep, InFunction
    <3>4. ASSUME NEW d \in Callouts, pending[d]
          PROVE  Minus(c_time[d], softticks') < Half \/ Ahead(d)'
      <4>1. Minus(c_time[d], softticks) < Half /\ c_time[d] \in Ticks
        BY <2>2, <3>4 DEF NothingMissed, Ahead, InFunction, Inv, TypeOK
      <4>2. CASE c_time[d] # softticks
        <5>1. Minus(c_time[d], Plus(softticks, 1)) = Minus(c_time[d], softticks) - 1
          BY <2>1, <4>1, <4>2, ClockArithmetic
        <5>2. Minus(c_time[d], softticks) \in Int /\ Half \in Int
          BY <2>1, <4>1, ClockArithmetic
        <5>. QED  BY <3>1, <4>1, <5>1, <5>2
      <4>3. CASE c_time[d] = softticks
        <5>. DEFINE l == wheel[callout_get_bucket(softticks)]
        <5>1. callout_get_bucket(softticks) \in DOMAIN wheel /\ l \in Seq(Callouts)
          BY <2>1, BucketType DEF Inv, TypeOK, Buckets
        <5>2. Contains(l, d) /\ IsInjective(l)
          BY <3>4, <4>3, <5>1 DEF Inv, WheelOK, BucketOf
        <5>3. LIST_FIRST(l) # NULL /\ IndexOf(l, LIST_FIRST(l)) <= IndexOf(l, d)
          BY <5>1, <5>2, ListFirstProperties, CalloutAssumption
        <5>. QED  BY <2>2, <3>1, <4>3, <5>3 DEF Ahead, InFunction, Bucket
      <4>. QED  BY <4>2, <4>3
    <3>. QED  BY <2>2, <3>3, <3>4 DEF NothingMissed
  <2>. QED  BY <2>3, <2>4
<1>10. CASE softclock_skip
  <2>1. pc = "bucket" /\ UNCHANGED <<ticks, softticks, curticks, cc_next, wheel, pending, c_time>>
    BY <1>10 DEF softclock_skip, clock
  <2>2. Lockstep'
    BY <1>10, <2>1 DEF softclock_skip, Lockstep, InFunction
  <2>3. ASSUME NEW d \in Callouts, pending[d], Ahead(d)
        PROVE  Ahead(d)'
    <3>1. cur # NULL /\ c_time[d] = curticks
      BY <2>1, <2>3 DEF Ahead, InFunction
    <3>2. c_time[cur] # curticks /\ cur' = LIST_NEXT(wheel[Bucket], cur) /\ pc' = "bucket"
      BY <1>10, <3>1 DEF softclock_skip
    <3>3. cur' # NULL /\ IndexOf(wheel[Bucket], cur') <= IndexOf(wheel[Bucket], d)
      BY <2>1, <2>3, <3>1, <3>2, StepKeepsAhead
    <3>. QED  BY <2>1, <3>1, <3>2, <3>3 DEF Ahead, InFunction, Bucket
  <2>4. NothingMissed'
    BY <2>1, <2>3, StillWheelKeepsTiming
  <2>. QED  BY <2>2, <2>4
<1>11. CASE softclock_run
  <2>1. /\ pc = "bucket" /\ cur # NULL /\ pc' = "function"
        /\ UNCHANGED <<ticks, softticks, curticks, cur, c_time>>
        /\ wheel' = [wheel EXCEPT ![Bucket] = LIST_REMOVE(@, cur)]
        /\ pending' = [pending EXCEPT ![cur] = FALSE]
        /\ cc_next' = LIST_NEXT(wheel[Bucket], cur)
    BY <1>11 DEF softclock_run, clock
  <2>2. Lockstep'
    BY <2>1 DEF Lockstep, InFunction
  <2>3. ASSUME NEW d \in Callouts, pending'[d]
        PROVE  Minus(c_time'[d], softticks') < Half \/ Ahead(d)'
    <3>1. pending[d] /\ d # cur
      BY <2>1, <2>3 DEF Inv, TypeOK
    <3>2. Minus(c_time[d], softticks) < Half \/ Ahead(d)
      BY <2>1, <3>1 DEF NothingMissed
    <3>3. ASSUME Ahead(d) PROVE Ahead(d)'
      <4>1. c_time[d] = curticks
        BY <3>3 DEF Ahead
      <4>2. wheel'[Bucket] = LIST_REMOVE(wheel[Bucket], cur)
        BY <2>1, BucketType DEF Inv, TypeOK, Bucket, Buckets
      <4>3. /\ cc_next' # NULL
            /\ IndexOf(wheel'[Bucket], cc_next') <= IndexOf(wheel'[Bucket], d)
        BY <2>1, <3>1, <3>3, <4>2, StepKeepsAhead
      <4>. QED  BY <2>1, <4>1, <4>3 DEF Ahead, InFunction, Bucket
    <3>. QED  BY <2>1, <3>2, <3>3
  <2>. QED  BY <2>2, <2>3 DEF NothingMissed
<1>12. CASE function_returns \/ drain_returns
  <2>1. /\ InFunction /\ UNCHANGED <<ticks, softticks, curticks, wheel, pending, c_time>>
        /\ \/ pc' = "drain" /\ cc_next' = cc_next
           \/ pc' = "bucket" /\ cur' = cc_next
    BY <1>12 DEF function_returns, drain_returns, Finish, InFunction, clock
  <2>2. Lockstep'
    BY <2>1 DEF Lockstep, InFunction
  <2>3. \A d \in Callouts : Ahead(d) => Ahead(d)'
    BY <2>1 DEF Ahead, InFunction, Bucket
  <2>4. NothingMissed'
    BY SMTT(30), <2>1, <2>3, StillWheelKeepsTiming DEF InFunction
  <2>. QED  BY <2>2, <2>4
<1>13. CASE UNCHANGED vars
  BY <1>13 DEF vars, Lockstep, NothingMissed, Ahead, InFunction, Bucket
<1>. QED
  BY <1>1, <1>2, <1>3, <1>4, <1>5, <1>6, <1>7, <1>8, <1>9, <1>10, <1>11, <1>12, <1>13
     DEF Next, Client, System, aborted

\* No callout is ever missed, whatever callout functions do to the wheel and
\* although the clock wraps: the promise of softclock() and callout_tick() in a
\* build whose arithmetic on ticks wraps.
THEOREM CalloutTiming ==
  ASSUME Folded = FALSE
  PROVE  Spec => [](Lockstep /\ NothingMissed)
<1>1. Init => TInv
  <2>1. Init => Lockstep /\ NothingMissed
    BY DEF Init, Lockstep, NothingMissed, InFunction
  <2>. QED  BY <2>1, InvInit DEF TInv
<1>2. TInv => Lockstep /\ NothingMissed
  BY DEF TInv
<1>. QED  BY <1>1, <1>2, TInvNext, PTL DEF Spec

-----------------------------------------------------------------------------
(* The callout facility implements TimerService.                           *)

SInv == TInv /\ RunningOK

\* What a callout waits for, as TimerService sees it.
Deadline == [c \in Callouts |-> IF pending[c] THEN c_time[c] ELSE -1]

\* A reset is an Arm, a stop a Disarm; other changes leave the deadlines alone.
LEMMA DeadlineProperties ==
  ASSUME TypeOK, TypeOK'
  PROVE  /\ \A c \in Callouts, t \in Ticks :
              /\ pending' = [pending EXCEPT ![c] = TRUE]
              /\ c_time' = [c_time EXCEPT ![c] = t]
              => Deadline' = [Deadline EXCEPT ![c] = t]
         /\ \A c \in Callouts :
              /\ pending' = [pending EXCEPT ![c] = FALSE]
              /\ c_time' = c_time
              => Deadline' = [Deadline EXCEPT ![c] = -1]
         /\ (\A c \in Callouts : pending'[c] = pending[c] /\ (pending[c] => c_time'[c] = c_time[c]))
              => Deadline' = Deadline
BY ZenonT(60) DEF TypeOK, Deadline

\* At the call of ff_hardclock() no pending callout waits for a tick that is over.
LEMMA NothingOverdue ==
  ASSUME SInv, pc = "loop", NEW c \in Callouts, pending[c]
  PROVE  Plus(c_time[c], 1) # ticks
<1>1. softticks = ticks /\ ticks \in Ticks /\ c_time[c] \in Ticks
  BY DEF SInv, TInv, Inv, TypeOK, Lockstep
<1>2. Minus(c_time[c], ticks) < Half
  BY <1>1 DEF SInv, TInv, NothingMissed, Ahead, InFunction
<1>3. Minus(Plus(c_time[c], 1), 1) = c_time[c] /\ Minus(Minus(ticks, 1), ticks) >= Half
      /\ Minus(c_time[c], ticks) \in Int /\ Half \in Int
  BY <1>1, ClockArithmetic
<1>. QED  BY <1>2, <1>3

\* softclock() looks only at pending callouts.
LEMMA WalkedIsPending ==
  ASSUME Inv, pc = "bucket", cur # NULL
  PROVE  cur \in Callouts /\ pending[cur]
<1>1. cur \in Callouts /\ Contains(wheel[Bucket], cur) /\ Bucket \in DOMAIN wheel
  BY BucketType DEF Inv, TypeOK, WalkOK, Bucket, Buckets
<1>. QED  BY <1>1 DEF Inv, WheelOK

\* The clock of the timer service is the clock of the callout facility.
LEMMA TimerPlus ==
  ASSUME NEW a, NEW b
  PROVE  Timer!Plus(a, b) = Plus(a, b)
BY DEF Timer!Plus, Timer!Wrap, Plus, Wrap

\* callout_reset_tick_on() arms a timer for 1 to Half - 1 ticks from now.
LEMMA ResetArms ==
  ASSUME SInv, SInv', NEW c \in Callouts, NEW n \in ToTicks, NEW dir \in BOOLEAN,
         callout_reset_tick_on(c, n, dir)
  PROVE  Timer!Arm(c)
<1>1. /\ pending' = [pending EXCEPT ![c] = TRUE]
      /\ c_time' = [c_time EXCEPT ![c] = Plus(ticks, AtLeastOne(n))]
  BY ResetProperties DEF SInv, TInv
<1>2. AtLeastOne(n) \in 1 .. Half - 1 /\ Plus(ticks, AtLeastOne(n)) \in Ticks
  BY AtLeastOneType, PlusType DEF SInv, TInv, Inv, TypeOK
<1>3. Deadline' = [Deadline EXCEPT ![c] = Plus(ticks, AtLeastOne(n))]
  BY ZenonT(60), <1>1, <1>2, DeadlineProperties DEF SInv, TInv, Inv
<1>4. UNCHANGED <<ticks, cc_curr>>
  BY DEF callout_reset_tick_on, clock, exec
<1>. QED  BY Zenon, <1>2, <1>3, <1>4, TimerPlus DEF Timer!Arm, Deadline

\* _callout_stop_safe() disarms a timer, or changes nothing the service shows.
LEMMA StopDisarms ==
  ASSUME SInv, SInv', NEW c \in Callouts, NEW drain \in BOOLEAN, _callout_stop_safe(c, drain)
  PROVE  Timer!Disarm(c)
<1>1. UNCHANGED <<ticks, cc_curr, c_time>>
  BY DEF _callout_stop_safe, clock
<1>2. pending' = [pending EXCEPT ![c] = FALSE]
  BY DEF _callout_stop_safe, SInv, TInv, Inv, TypeOK
<1>3. Deadline' = [Deadline EXCEPT ![c] = -1]
  BY ZenonT(60), <1>1, <1>2, DeadlineProperties DEF SInv, TInv, Inv
<1>. QED  BY <1>1, <1>3 DEF Timer!Disarm, Timer!None, Deadline

\* Every step of the facility is a step of the timer service, or a stutter.
LEMMA StepRefines ==
  ASSUME SInv, SInv', [Next]_vars
  PROVE  [Timer!Next]_(Timer!vars)
<1>. DEFINE Stutter == UNCHANGED <<ticks, cc_curr>> /\ Deadline' = Deadline
<1>0. Stutter => UNCHANGED Timer!vars
  BY DEF Timer!vars, Deadline
<1>1. ASSUME NEW c \in Clients, NEW n \in ToTicks, NEW d \in DirectFlags, callout_reset(c, n, d)
      PROVE  Timer!Next
  <2>1. c \in Callouts /\ d \in BOOLEAN /\ callout_reset_tick_on(c, n, d)
    BY <1>1, CalloutAssumption DEF Callouts, callout_reset
  <2>. QED  BY <2>1, ResetArms DEF Timer!Next
<1>2. ASSUME NEW c \in Clients, NEW drain \in BOOLEAN, callout_stop(c, drain)
      PROVE  Timer!Next
  BY <1>2, StopDisarms DEF callout_stop, Callouts, Timer!Next
<1>3. ASSUME NEW c \in Clients, callout_init(c) \/ callout_deactivate(c)
      PROVE  Stutter
  <2>1. /\ c \in Callouts /\ ~ pending[c] /\ UNCHANGED <<ticks, cc_curr, pending>>
        /\ c_time' \in {c_time, [c_time EXCEPT ![c] = 0]}
    BY <1>3 DEF Callouts, callout_init, callout_deactivate, clock, exec
  <2>2. \A d \in Callouts : pending[d] => c_time'[d] = c_time[d]
    BY <2>1 DEF SInv, TInv, Inv, TypeOK
  <2>. QED  BY SMTT(30), <2>1, <2>2, DeadlineProperties DEF SInv, TInv, Inv
<1>4. ASSUME NEW f \in Funcs, NEW n \in ToTicks, timeout(f, n)
      PROVE  Timer!Next
  <2>1. Head(callfree) \in Callouts /\ callout_reset_tick_on(Head(callfree), n, FALSE)
    BY Zenon, <1>4, HeadTailProperties DEF timeout, SInv, TInv, Inv, TypeOK, Callouts
  <2>. QED  BY Zenon, <2>1, ResetArms DEF Timer!Next
<1>5. ASSUME NEW f \in Funcs, NEW c \in Locals, untimeout(f, c)
      PROVE  Timer!Next
  BY ZenonT(60), <1>5, StopDisarms DEF untimeout, Callouts, Timer!Next
<1>6. CASE ff_hardclock
  <2>1. /\ pc = "loop" /\ ticks' = Plus(ticks, 1) /\ UNCHANGED <<pending, c_time, cc_curr>>
    BY <1>6 DEF ff_hardclock, exec
  <2>2. cc_curr[1] = NULL
    BY <2>1 DEF SInv, RunningOK
  <2>3. \A c \in Callouts : ~ Timer!Overdue(c)
    BY <2>1, NothingOverdue, TimerPlus DEF Timer!Overdue, Timer!None
  <2>4. Deadline' = Deadline
    BY <2>1 DEF Deadline
  <2>. QED  BY <2>1, <2>2, <2>3, <2>4, TimerPlus DEF Timer!Next, Timer!Tick, Deadline
<1>7. CASE softclock_run
  <2>1. /\ pc = "bucket" /\ cur # NULL /\ c_time[cur] = curticks
        /\ pending' = [pending EXCEPT ![cur] = FALSE]
        /\ cc_curr' = [cc_curr EXCEPT ![1] = cur]
        /\ UNCHANGED <<ticks, c_time>>
    BY <1>7 DEF softclock_run, clock
  <2>2. PICK c \in Callouts : c = cur /\ pending[c]
    BY SMTT(30), <2>1, WalkedIsPending DEF SInv, TInv
  <2>3. /\ cc_curr[1] = NULL /\ cc_curr'[1] = c
        /\ curticks = Minus(ticks, 1) /\ ticks \in Ticks /\ curticks \in Ticks
    BY <2>1, <2>2 DEF SInv, TInv, Inv, TypeOK, RunningOK, Lockstep
  <2>4. Plus(curticks, 1) = ticks /\ curticks # -1
    BY <2>3, ClockArithmetic DEF Ticks
  <2>5. Deadline' = [Deadline EXCEPT ![c] = -1]
    BY ZenonT(60), <2>1, <2>2, DeadlineProperties DEF SInv, TInv, Inv
  <2>6. Deadline[c] = curticks
    BY <2>1, <2>2 DEF Deadline
  <2>7. Timer!Run(c)
    BY <2>1, <2>3, <2>4, <2>5, <2>6, TimerPlus DEF Timer!Run, Timer!Overdue, Timer!None, Deadline
  <2>. QED  BY <2>7 DEF Timer!Next
<1>8. CASE function_returns
  <2>1. UNCHANGED <<ticks, pending, c_time>> /\ cc_curr'[1] = NULL
    BY <1>8 DEF function_returns, clock, SInv, TInv, Inv, TypeOK
  <2>2. Deadline' = Deadline
    BY <2>1 DEF Deadline
  <2>. QED  BY <2>1, <2>2 DEF Timer!Next, Timer!Return, Deadline
<1>9. CASE \/ timeout_panic \/ callout_tick \/ softclock \/ softclock_skip \/ drain_returns
           \/ UNCHANGED vars
  <2>1. UNCHANGED <<ticks, cc_curr, pending, c_time>>
    BY <1>9 DEF timeout_panic, callout_tick, softclock, softclock_skip, drain_returns, vars, clock, exec
  <2>. QED  BY SMTT(30), <1>0, <2>1 DEF Deadline
<1>. QED
  BY <1>0, <1>1, <1>2, <1>3, <1>4, <1>5, <1>6, <1>7, <1>8, <1>9 DEF Next, Client, System, aborted

\* The callout facility implements the timer service: a function runs only in
\* the tick after the one its callout was last reset for, and the clock never
\* leaves an expired callout behind.
THEOREM CalloutImplementsTimerService ==
  ASSUME Folded = FALSE
  PROVE  Spec => TimerServiceSpec
<1>1. Init => Timer!Init
  BY DEF Init, Timer!Init, Timer!None
<1>2. Init => TInv
  <2>1. Init => Lockstep /\ NothingMissed
    BY DEF Init, Lockstep, NothingMissed, InFunction
  <2>. QED  BY <2>1, InvInit DEF TInv
<1>3. LInv => RunningOK
  BY DEF LInv
<1>4. SInv /\ SInv' /\ [Next]_vars => [Timer!Next]_(Timer!vars)
  BY StepRefines
<1>5. TInv /\ RunningOK => SInv
  BY DEF SInv
<1>. QED  BY <1>1, <1>2, <1>3, <1>4, <1>5, TInvNext, LInvInit, LInvNext, PTL
          DEF Spec, TimerServiceSpec, Timer!Spec

=============================================================================
