--------------------------- MODULE CalloutProofs ---------------------------
(***************************************************************************)
(* Proofs of the invariants of Callout, for any set of callouts, any size  *)
(* of the wheel that divides the range of the clock and any timeouts.      *)
(***************************************************************************)
EXTENDS Callout, QueueProofs

Buckets == 0 .. callwheelsize - 1

\* The lists of wheel w hold the callouts of p, each in the bucket of its time t.
OnWheel(w, p, t) ==
  /\ w \in [Buckets -> Seq(Callouts)]
  /\ p \in [Callouts -> BOOLEAN] /\ t \in [Callouts -> Ticks]
  /\ \A b \in Buckets : IsInjective(w[b])
  /\ \A b \in Buckets, c \in Callouts :
       Contains(w[b], c) <=> p[c] /\ callout_get_bucket(t[c]) = b

\* Every tick has a bucket (callout_get_bucket()).
LEMMA BucketType ==
  ASSUME NEW t \in Ticks
  PROVE  callout_get_bucket(t) \in Buckets
BY CalloutAssumption, HalfAssumption DEF callout_get_bucket, Buckets, Ticks, Wrap

\* Tick arithmetic stays in the range of an int.
LEMMA PlusType ==
  ASSUME NEW a \in Ticks, NEW n \in 1 .. Half - 1
  PROVE  Plus(a, n) \in Ticks
BY HalfAssumption DEF Plus, Ticks, Wrap

\* callout_reset_tick_on() makes every timeout a positive int.
LEMMA AtLeastOneType ==
  ASSUME NEW n \in ToTicks
  PROVE  AtLeastOne(n) \in 1 .. Half - 1
BY CalloutAssumption, HalfAssumption DEF AtLeastOne

\* The inductive invariant: types, wheel and walk need each other, for a callout
\* can be unlinked only from a list it is on.
Inv == TypeOK /\ WheelOK /\ WalkOK

\* WheelOK in the form the other lemmas use: a pending callout is on the list of
\* the bucket callout_cc_add() chose for it, and there only.
LEMMA WheelOKMeansOnWheel ==
  ASSUME TypeOK
  PROVE  WheelOK <=> /\ OnWheel(wheel, pending, c_time)
                     /\ \A c \in Callouts : pending[c] => active[c]
<1>1. DOMAIN wheel = Buckets /\ wheel \in [Buckets -> Seq(Callouts)]
  BY DEF TypeOK, Buckets
<1>2. pending \in [Callouts -> BOOLEAN] /\ c_time \in [Callouts -> Ticks]
  BY DEF TypeOK
<1>. QED  BY <1>1, <1>2 DEF WheelOK, OnWheel, BucketOf

\* Unlinked() and NextWithout(), the unlinking in callout_reset_tick_on(), in
\* _callout_stop_safe() and in softclock(): the wheel loses the callout, and
\* nothing points to it.
LEMMA UnlinkedProperties ==
  ASSUME Inv, NEW c \in Callouts, pending[c]
  PROVE  /\ OnWheel(Unlinked(c), [pending EXCEPT ![c] = FALSE], c_time)
         /\ BucketOf(c) \in Buckets /\ Contains(wheel[BucketOf(c)], c)
         /\ LIST_NEXT(wheel[BucketOf(c)], c) \in Callouts \cup {NULL}
         /\ LIST_NEXT(wheel[BucketOf(c)], c) # NULL =>
              Contains(Unlinked(c)[BucketOf(c)], LIST_NEXT(wheel[BucketOf(c)], c))
         /\ Unlinked(c)[BucketOf(c)] = LIST_REMOVE(wheel[BucketOf(c)], c)
         /\ \A a \in Buckets \ {BucketOf(c)} : Unlinked(c)[a] = wheel[a]
         /\ NextWithout(c) \in Callouts \cup {NULL}
         /\ NextWithout(c) # NULL => Contains(Unlinked(c)[cc_bucket], NextWithout(c))
<1>. DEFINE b == BucketOf(c)
            r == Unlinked(c)
            q == [pending EXCEPT ![c] = FALSE]
            x == LIST_NEXT(wheel[b], c)
<1>1. OnWheel(wheel, pending, c_time)
  BY WheelOKMeansOnWheel DEF Inv
<1>2. /\ cc_bucket \in Buckets /\ cc_next \in Callouts \cup {NULL} /\ NULL \notin Callouts
      /\ cc_next # NULL => Contains(wheel[cc_bucket], cc_next)
  BY CalloutAssumption DEF Inv, TypeOK, WalkOK, Buckets
<1>3. b \in Buckets /\ b = callout_get_bucket(c_time[c])
  BY <1>1, BucketType DEF OnWheel, BucketOf
<1>4. wheel[b] \in Seq(Callouts) /\ IsInjective(wheel[b]) /\ Contains(wheel[b], c)
  BY <1>1, <1>3 DEF OnWheel
<1>5. /\ LIST_REMOVE(wheel[b], c) \in Seq(Callouts) /\ IsInjective(LIST_REMOVE(wheel[b], c))
      /\ \A d : Contains(LIST_REMOVE(wheel[b], c), d) <=> Contains(wheel[b], d) /\ d # c
  BY <1>4, ListRemoveProperties
<1>6. x \in Callouts \cup {NULL} /\ (x # NULL => Contains(wheel[b], x) /\ x # c)
  BY <1>2, <1>4, ListNextProperties
<1>7. NextWithout(c) = IF cc_next = c THEN x ELSE cc_next
  BY DEF NextWithout
<1>. HIDE DEF b, x
<1>8. /\ r \in [Buckets -> Seq(Callouts)] /\ r[b] = LIST_REMOVE(wheel[b], c)
      /\ \A a \in Buckets \ {b} : r[a] = wheel[a]
  BY <1>1, <1>3, <1>5 DEF OnWheel, Unlinked, b
<1>. HIDE DEF r
<1>9. \A a \in Buckets, d \in Callouts : Contains(r[a], d) <=> Contains(wheel[a], d) /\ d # c
  <2>. SUFFICES ASSUME NEW a \in Buckets, NEW d \in Callouts
                PROVE  Contains(r[a], d) <=> Contains(wheel[a], d) /\ d # c
    OBVIOUS
  <2>1. CASE a = b
    BY <2>1, <1>5, <1>8
  <2>2. CASE a # b
    <3>1. ~ Contains(wheel[a], c)
      BY <2>2, <1>1, <1>3 DEF OnWheel
    <3>. QED  BY <2>2, <3>1, <1>8
  <2>. QED  BY <2>1, <2>2
<1>10. OnWheel(r, q, c_time)
  <2>1. \A a \in Buckets : IsInjective(r[a])
    BY Zenon, <1>1, <1>5, <1>8 DEF OnWheel
  <2>2. \A a \in Buckets, d \in Callouts :
          Contains(r[a], d) <=> q[d] /\ callout_get_bucket(c_time[d]) = a
    BY <1>1, <1>9 DEF OnWheel
  <2>3. q \in [Callouts -> BOOLEAN] /\ c_time \in [Callouts -> Ticks]
    BY <1>1 DEF OnWheel
  <2>. HIDE DEF q
  <2>. QED  BY <1>8, <2>1, <2>2, <2>3 DEF OnWheel
<1>11. NextWithout(c) \in Callouts \cup {NULL}
       /\ (NextWithout(c) # NULL => Contains(r[cc_bucket], NextWithout(c)))
  <2>1. CASE cc_next = c
    <3>1. cc_bucket = b
      BY <2>1, <1>1, <1>2, <1>3 DEF OnWheel
    <3>. QED  BY <2>1, <3>1, <1>2, <1>3, <1>6, <1>7, <1>9
  <2>2. CASE cc_next # c
    BY <2>2, <1>2, <1>7, <1>9
  <2>. QED  BY <2>1, <2>2
<1>12. x # NULL => Contains(r[b], x)
  BY <1>3, <1>6, <1>9
<1>. QED  BY <1>3, <1>4, <1>6, <1>8, <1>10, <1>11, <1>12 DEF r, b, x

\* callout_reset_tick_on() keeps the wheel, and cc_exec_next() on a list.
LEMMA ResetProperties ==
  ASSUME Inv, NEW c \in Callouts, NEW n \in ToTicks, NEW dir \in BOOLEAN,
         callout_reset_tick_on(c, n, dir)
  PROVE  /\ pending' = [pending EXCEPT ![c] = TRUE]
         /\ active' = [active EXCEPT ![c] = TRUE]
         /\ direct' \in [Callouts -> BOOLEAN]
         /\ c_time' = [c_time EXCEPT ![c] = Plus(ticks, AtLeastOne(n))]
         /\ OnWheel(wheel', pending', c_time')
         /\ cc_next' \in Callouts \cup {NULL}
         /\ cc_next' # NULL => Contains(wheel'[cc_bucket], cc_next')
<1>. DEFINE w == IF pending[c] THEN Unlinked(c) ELSE wheel
            x == IF pending[c] THEN NextWithout(c) ELSE cc_next
            t == Plus(ticks, AtLeastOne(n))
            b == callout_get_bucket(t)
            p == [pending EXCEPT ![c] = FALSE]
<1>1. OnWheel(wheel, pending, c_time)
  BY WheelOKMeansOnWheel DEF Inv
<1>2. /\ cc_bucket \in Buckets /\ cc_next \in Callouts \cup {NULL} /\ NULL \notin Callouts
      /\ cc_next # NULL => Contains(wheel[cc_bucket], cc_next)
      /\ ticks \in Ticks /\ direct \in [Callouts -> BOOLEAN]
      /\ pending \in [Callouts -> BOOLEAN] /\ c_time \in [Callouts -> Ticks]
  BY CalloutAssumption DEF Inv, TypeOK, WalkOK, Buckets
<1>3. /\ OnWheel(w, p, c_time) /\ x \in Callouts \cup {NULL}
      /\ x # NULL => Contains(w[cc_bucket], x)
  <2>1. CASE pending[c]
    BY <2>1, UnlinkedProperties
  <2>2. CASE ~ pending[c]
    <3>1. p = pending
      BY <2>2, <1>2
    <3>. QED  BY Zenon, <2>2, <3>1, <1>1, <1>2
  <2>. QED  BY <2>1, <2>2
<1>4. callout_cc_add(c, w, x, AtLeastOne(n), dir)
  BY DEF callout_reset_tick_on
<1>5. t \in Ticks /\ b \in Buckets
  BY <1>2, AtLeastOneType, PlusType, BucketType
<1>6. ~ p[c] /\ pending' = [pending EXCEPT ![c] = TRUE]
      /\ \A d \in Callouts \ {c} : p[d] = pending'[d]
  BY <1>2, <1>4 DEF callout_cc_add
<1>. HIDE DEF w, x, p, t
<1>7. /\ c_time' = [c_time EXCEPT ![c] = t]
      /\ wheel' = [w EXCEPT ![b] = LIST_INSERT_HEAD(@, c)]
      /\ cc_next' = IF cc_bucket = b THEN c ELSE x
      /\ active' = [active EXCEPT ![c] = TRUE]
      /\ direct' = [direct EXCEPT ![c] = @ \/ dir]
  BY <1>4 DEF callout_cc_add, t
<1>. HIDE DEF b
<1>8. \A a \in Buckets : ~ Contains(w[a], c)
  BY <1>3, <1>6 DEF OnWheel
<1>9. /\ LIST_INSERT_HEAD(w[b], c) \in Seq(Callouts) /\ IsInjective(LIST_INSERT_HEAD(w[b], c))
      /\ \A d : Contains(LIST_INSERT_HEAD(w[b], c), d) <=> Contains(w[b], d) \/ d = c
  <2>1. w[b] \in Seq(Callouts) /\ IsInjective(w[b]) /\ ~ Contains(w[b], c)
    BY <1>3, <1>5, <1>8 DEF OnWheel
  <2>. QED  BY <2>1, ListInsertProperties
<1>10. /\ wheel' \in [Buckets -> Seq(Callouts)] /\ wheel'[b] = LIST_INSERT_HEAD(w[b], c)
       /\ \A a \in Buckets \ {b} : wheel'[a] = w[a]
  BY <1>3, <1>5, <1>7, <1>9 DEF OnWheel
<1>11. \A a \in Buckets, d \in Callouts :
         Contains(wheel'[a], d) <=> Contains(w[a], d) \/ (d = c /\ a = b)
  BY <1>8, <1>9, <1>10
<1>12. pending' \in [Callouts -> BOOLEAN] /\ pending'[c]
       /\ c_time' \in [Callouts -> Ticks] /\ c_time'[c] = t
       /\ \A d \in Callouts \ {c} : c_time'[d] = c_time[d]
  BY <1>2, <1>5, <1>6, <1>7
<1>13. OnWheel(wheel', pending', c_time')
  <2>1. \A a \in Buckets : IsInjective(wheel'[a])
    BY Zenon, <1>3, <1>9, <1>10 DEF OnWheel
  <2>2. ASSUME NEW a \in Buckets, NEW d \in Callouts
        PROVE  Contains(wheel'[a], d) <=> pending'[d] /\ callout_get_bucket(c_time'[d]) = a
    <3>1. CASE d = c
      BY <3>1, <1>8, <1>11, <1>12 DEF b
    <3>2. CASE d # c
      BY <3>2, <1>3, <1>6, <1>11, <1>12 DEF OnWheel
    <3>. QED  BY <3>1, <3>2
  <2>. QED  BY <1>10, <1>12, <2>1, <2>2 DEF OnWheel
<1>14. cc_next' \in Callouts \cup {NULL} /\ (cc_next' # NULL => Contains(wheel'[cc_bucket], cc_next'))
  <2>1. CASE cc_bucket = b
    BY <2>1, <1>2, <1>7, <1>11
  <2>2. CASE cc_bucket # b
    BY <2>2, <1>2, <1>3, <1>7, <1>11
  <2>. QED  BY <2>1, <2>2
<1>15. direct' \in [Callouts -> BOOLEAN]
  BY <1>2, <1>7
<1>. QED  BY <1>6, <1>7, <1>13, <1>14, <1>15 DEF t

\* callout_cc_del() keeps the types of the free list and of its functions.
LEMMA DelType ==
  ASSUME TypeOK, NEW c, callout_cc_del(c)
  PROVE  callfree' \in Seq(Locals) /\ c_func' \in [Locals -> Funcs \cup {NULL}]
<1>1. callfree \in Seq(Locals) /\ c_func \in [Locals -> Funcs \cup {NULL}]
  BY DEF TypeOK
<1>2. CASE c \in Locals
  <2>1. callfree' = <<c>> \o callfree /\ c_func' = [c_func EXCEPT ![c] = NULL]
    BY <1>2 DEF callout_cc_del, LIST_INSERT_HEAD
  <2>2. <<c>> \in Seq(Locals)
    BY <1>2
  <2>3. <<c>> \o callfree \in Seq(Locals)
    BY <1>1, <2>2, ConcatProperties
  <2>. QED  BY <1>1, <2>1, <2>3
<1>3. CASE c \notin Locals
  BY <1>1, <1>3 DEF callout_cc_del, local
<1>. QED  BY <1>2, <1>3

\* Inv survives callout_reset_tick_on(), called by callout_reset() for a client
\* or by timeout(), which also takes the callout from the free list.
LEMMA ResetKeepsInv ==
  ASSUME Inv, NEW c \in Callouts, NEW n \in ToTicks, NEW dir \in BOOLEAN,
         callout_reset_tick_on(c, n, dir), InClient, UNCHANGED pc,
         callfree' \in Seq(Locals), c_func' \in [Locals -> Funcs \cup {NULL}]
  PROVE  Inv'
<1>1. /\ pending' = [pending EXCEPT ![c] = TRUE]
      /\ active' = [active EXCEPT ![c] = TRUE]
      /\ direct' \in [Callouts -> BOOLEAN]
      /\ OnWheel(wheel', pending', c_time')
      /\ cc_next' \in Callouts \cup {NULL}
      /\ cc_next' # NULL => Contains(wheel'[cc_bucket], cc_next')
  BY ResetProperties
<1>2. UNCHANGED <<ticks, softticks, curticks, cur, cc_bucket, cc_curr, cc_drain>>
  BY DEF callout_reset_tick_on, clock, exec
<1>3. /\ wheel' \in [Buckets -> Seq(Callouts)] /\ pending' \in [Callouts -> BOOLEAN]
      /\ c_time' \in [Callouts -> Ticks]
  BY <1>1 DEF OnWheel
<1>4. active' \in [Callouts -> BOOLEAN]
  BY <1>1 DEF Inv, TypeOK
<1>5. TypeOK'
  BY <1>1, <1>2, <1>3, <1>4 DEF Inv, TypeOK, Buckets
<1>6. WheelOK'
  <2>1. \A d \in Callouts : pending'[d] => active'[d]
    BY <1>1 DEF Inv, TypeOK, WheelOK
  <2>. QED  BY <1>1, <1>3, <2>1 DEF WheelOK, OnWheel, BucketOf
<1>7. WalkOK'
  <2>1. pc # "bucket"
    BY DEF InClient
  <2>. QED  BY <1>1, <1>2, <2>1 DEF Inv, WalkOK, InFunction, Bucket
<1>. QED  BY <1>5, <1>6, <1>7 DEF Inv

\* Inv survives _callout_stop_safe(), called for a client or by untimeout().
LEMMA StopKeepsInv ==
  ASSUME Inv, NEW c \in Callouts, NEW drain \in BOOLEAN,
         _callout_stop_safe(c, drain), InClient
  PROVE  Inv'
<1>1. /\ TypeOK /\ OnWheel(wheel, pending, c_time)
      /\ \A d \in Callouts : pending[d] => active[d]
  BY WheelOKMeansOnWheel DEF Inv
<1>2. UNCHANGED <<ticks, softticks, pc, curticks, cur, cc_bucket, cc_curr, direct, c_time>>
  BY DEF _callout_stop_safe, clock, walk
<1>3. active' = [active EXCEPT ![c] = ActiveAfterStop(c)]
      /\ cc_drain' = [cc_drain EXCEPT ![Entity(c)] = @ \/ (IsCurr(c) /\ drain)]
  BY DEF _callout_stop_safe
<1>4. active' \in [Callouts -> BOOLEAN] /\ \A d \in Callouts \ {c} : active'[d] = active[d]
  BY <1>1, <1>3 DEF TypeOK, ActiveAfterStop
<1>5. cc_drain' \in [{0, 1} -> BOOLEAN]
  BY <1>1, <1>3 DEF TypeOK, Entity, IsCurr
<1>6. /\ callfree' \in Seq(Locals) /\ c_func' \in [Locals -> Funcs \cup {NULL}]
  <2>1. CASE pending[c]
    BY <2>1, <1>1, DelType DEF _callout_stop_safe
  <2>2. CASE ~ pending[c]
    BY <2>2, <1>1 DEF _callout_stop_safe, local, TypeOK
  <2>. QED  BY <2>1, <2>2
<1>7. /\ OnWheel(wheel', pending', c_time') /\ cc_next' \in Callouts \cup {NULL}
      /\ cc_next' # NULL => Contains(wheel'[cc_bucket], cc_next')
      /\ ~ pending'[c] /\ \A d \in Callouts \ {c} : pending'[d] = pending[d]
  <2>1. CASE pending[c]
    <3>1. /\ pending' = [pending EXCEPT ![c] = FALSE] /\ wheel' = Unlinked(c)
          /\ cc_next' = NextWithout(c)
      BY <2>1 DEF _callout_stop_safe
    <3>. QED  BY ZenonT(60), <2>1, <3>1, <1>1, <1>2, UnlinkedProperties DEF TypeOK
  <2>2. CASE ~ pending[c]
    <3>1. UNCHANGED <<pending, wheel, cc_next>>
      BY <2>2 DEF _callout_stop_safe
    <3>. QED  BY <2>2, <3>1, <1>1, <1>2 DEF Inv, TypeOK, WalkOK
  <2>. QED  BY <2>1, <2>2
<1>8. /\ wheel' \in [Buckets -> Seq(Callouts)] /\ pending' \in [Callouts -> BOOLEAN]
  BY <1>7 DEF OnWheel
<1>9. TypeOK'
  BY <1>1, <1>2, <1>4, <1>5, <1>6, <1>7, <1>8 DEF TypeOK, Buckets
<1>10. WheelOK'
  <2>1. \A d \in Callouts : pending'[d] => active'[d]
    BY <1>1, <1>4, <1>7
  <2>. QED  BY <1>7, <1>8, <2>1 DEF WheelOK, OnWheel, BucketOf
<1>11. WalkOK'
  <2>1. pc # "bucket"
    BY DEF InClient
  <2>. QED  BY <1>2, <1>7, <2>1 DEF Inv, WalkOK, InFunction, Bucket
<1>. QED  BY <1>9, <1>10, <1>11 DEF Inv

\* softclock() starts the function of an expired callout: Inv survives the
\* unlinking and the saved cc_exec_next().
LEMMA RunKeepsInv ==
  ASSUME Inv, softclock_run
  PROVE  Inv'
<1>1. /\ TypeOK /\ OnWheel(wheel, pending, c_time)
      /\ \A d \in Callouts : pending[d] => active[d]
  BY WheelOKMeansOnWheel DEF Inv
<1>2. /\ pc = "bucket" /\ cur # NULL /\ c_time[cur] = curticks
      /\ cc_next' = LIST_NEXT(wheel[Bucket], cur)
      /\ cc_bucket' = Bucket
      /\ wheel' = [wheel EXCEPT ![Bucket] = LIST_REMOVE(@, cur)]
      /\ pending' = [pending EXCEPT ![cur] = FALSE]
      /\ direct' = [direct EXCEPT ![cur] = @ /\ cur \notin Locals]
      /\ cc_curr' = [cc_curr EXCEPT ![1] = cur]
      /\ cc_drain' = [cc_drain EXCEPT ![1] = FALSE]
      /\ pc' = "function"
      /\ UNCHANGED <<ticks, softticks, curticks, cur, active, c_time, callfree, c_func>>
  BY DEF softclock_run, clock, local
<1>3. cur \in Callouts /\ Contains(wheel[Bucket], cur)
  BY <1>1, <1>2 DEF Inv, WalkOK, TypeOK
<1>4. Bucket \in Buckets /\ Bucket = BucketOf(cur)
  BY <1>1, <1>2, BucketType DEF TypeOK, Bucket, BucketOf
<1>5. pending[cur]
  BY <1>1, <1>3, <1>4 DEF OnWheel
<1>6. wheel' = Unlinked(cur)
  BY <1>2, <1>4 DEF Unlinked
<1>7. /\ OnWheel(wheel', pending', c_time') /\ cc_next' \in Callouts \cup {NULL}
      /\ cc_next' # NULL => Contains(wheel'[Bucket], cc_next')
  BY ZenonT(60), <1>2, <1>3, <1>4, <1>5, <1>6, UnlinkedProperties
<1>8. wheel' \in [Buckets -> Seq(Callouts)] /\ pending' \in [Callouts -> BOOLEAN]
  BY <1>7 DEF OnWheel
<1>9. TypeOK'
  <2>1. direct' \in [Callouts -> BOOLEAN] /\ cc_curr' \in [{0, 1} -> Callouts \cup {NULL}]
        /\ cc_drain' \in [{0, 1} -> BOOLEAN]
    BY <1>1, <1>2, <1>3 DEF TypeOK
  <2>2. pc' \in PcValues /\ cc_bucket' \in 0 .. callwheelsize - 1
    BY <1>2, <1>4 DEF PcValues, Buckets
  <2>. QED  BY <1>1, <1>2, <1>7, <1>8, <2>1, <2>2 DEF TypeOK, Buckets
<1>10. WheelOK'
  <2>1. \A d \in Callouts : pending'[d] => active'[d]
    BY <1>1, <1>2 DEF TypeOK
  <2>. QED  BY <1>7, <1>8, <2>1 DEF WheelOK, OnWheel, BucketOf
<1>11. WalkOK'
  BY <1>2, <1>7 DEF WalkOK, InFunction, Bucket
<1>. QED  BY <1>9, <1>10, <1>11 DEF Inv

\* The steps that leave the wheel alone: Inv survives them if cc_exec_next() is
\* kept or cleared and the walk goes on with a callout of the list it walks.
LEMMA StillWheelKeepsInv ==
  ASSUME Inv, TypeOK', UNCHANGED <<wheel, pending, active, c_time, cc_bucket>>,
         cc_next' \in {cc_next, NULL},
         InFunction' => InFunction /\ curticks' = curticks,
         pc' = "bucket" /\ cur' # NULL => Contains(wheel[Bucket'], cur')
  PROVE  Inv'
<1>1. WheelOK'
  BY DEF Inv, WheelOK, BucketOf
<1>2. WalkOK'
  BY DEF Inv, WalkOK, Bucket
<1>. QED  BY <1>1, <1>2 DEF Inv

\* What callout_callwheel_init() and callout_cpu_init() set up is consistent.
LEMMA InvInit == Init => Inv
<1>. SUFFICES ASSUME Init PROVE Inv
  OBVIOUS
<1>1. wheel \in [Buckets -> Seq(Callouts)] /\ \A b \in Buckets : wheel[b] = <<>>
  BY DEF Init, Buckets
<1>2. callfree \in Seq(Locals)
  <2>1. cc_callout \in Seq(Locals) /\ Len(cc_callout) \in Nat
        /\ \A i \in 1 .. Len(cc_callout) : cc_callout[i] \in Locals
    BY CalloutAssumption, LenProperties, ElementOfSeq
  <2>2. \A i \in 1 .. Len(cc_callout) : cc_callout[(Len(cc_callout) - i) + 1] \in Locals
    BY <2>1
  <2>3. [i \in 1 .. Len(cc_callout) |-> cc_callout[(Len(cc_callout) - i) + 1]] \in Seq(Locals)
    BY <2>1, <2>2
  <2>. QED  BY <2>3 DEF Init, Reverse
<1>3. TypeOK
  <2>1. 0 \in Ticks /\ 0 \in Buckets
    BY HalfAssumption, CalloutAssumption DEF Ticks, Wrap, Buckets
  <2>2. pc \in PcValues
    BY DEF Init, PcValues
  <2>. QED  BY <1>1, <1>2, <2>1, <2>2 DEF Init, TypeOK, Buckets
<1>4. WheelOK
  <2>1. \A c : ~ Contains(<<>>, c)
    BY DEF Contains
  <2>2. IsInjective(<<>>)
    BY DEF IsInjective
  <2>3. \A c \in Callouts : ~ pending[c]
    BY DEF Init
  <2>4. DOMAIN wheel = Buckets
    BY <1>1
  <2>. QED  BY <1>1, <2>1, <2>2, <2>3, <2>4 DEF WheelOK
<1>5. WalkOK
  BY DEF Init, WalkOK, InFunction
<1>. QED  BY <1>3, <1>4, <1>5 DEF Inv

\* Every call of a client and every step of the clock keeps Inv.
LEMMA InvNext == Inv /\ [Next]_vars => Inv'
<1>. SUFFICES ASSUME Inv, [Next]_vars PROVE Inv'
  OBVIOUS
<1>. USE DEF Inv
<1>1. ASSUME NEW c \in Clients, NEW n \in ToTicks, NEW d \in DirectFlags, callout_reset(c, n, d)
      PROVE  Inv'
  <2>1. c \in Callouts /\ d \in BOOLEAN
    BY CalloutAssumption DEF Callouts
  <2>2. /\ callout_reset_tick_on(c, n, d) /\ InClient /\ UNCHANGED pc
        /\ callfree' \in Seq(Locals) /\ c_func' \in [Locals -> Funcs \cup {NULL}]
    BY <1>1 DEF callout_reset, local, TypeOK
  <2>. QED  BY <2>1, <2>2, ResetKeepsInv
<1>2. ASSUME NEW c \in Clients, NEW drain \in BOOLEAN, callout_stop(c, drain)
      PROVE  Inv'
  BY <1>2, StopKeepsInv DEF callout_stop, Callouts
<1>3. ASSUME NEW c \in Clients, callout_init(c)
      PROVE  Inv'
  <2>1. c \in Callouts /\ ~ pending[c] /\ pc # "bucket"
    BY <1>3 DEF Callouts, callout_init, InClient
  <2>2. /\ active' = [active EXCEPT ![c] = FALSE] /\ direct' = [direct EXCEPT ![c] = FALSE]
        /\ c_time' = [c_time EXCEPT ![c] = 0]
        /\ UNCHANGED <<ticks, softticks, pc, curticks, cur, cc_next, cc_bucket, wheel,
                       cc_curr, cc_drain, pending, callfree, c_func>>
    BY <1>3 DEF callout_init, clock, walk, exec, local
  <2>3. TypeOK'
    <3>1. 0 \in Ticks
      BY HalfAssumption DEF Ticks, Wrap
    <3>. QED  BY <2>1, <2>2, <3>1 DEF TypeOK
  <2>4. WheelOK'
    <3>1. \A d \in Callouts : pending[d] => c_time'[d] = c_time[d] /\ active'[d] = active[d]
      BY ZenonT(60), <2>1, <2>2 DEF TypeOK
    <3>2. \A b \in DOMAIN wheel, d \in Callouts :
            Contains(wheel[b], d) <=> pending[d] /\ callout_get_bucket(c_time'[d]) = b
      BY <3>1 DEF WheelOK, BucketOf
    <3>. QED  BY Zenon, <2>2, <3>1, <3>2 DEF WheelOK, BucketOf
  <2>5. WalkOK'
    BY <2>1, <2>2 DEF WalkOK, InFunction, Bucket
  <2>. QED  BY <2>3, <2>4, <2>5
<1>4. ASSUME NEW c \in Clients, callout_deactivate(c)
      PROVE  Inv'
  <2>1. c \in Callouts /\ ~ pending[c] /\ pc # "bucket"
    BY <1>4 DEF Callouts, callout_deactivate, InClient
  <2>2. /\ active' = [active EXCEPT ![c] = FALSE]
        /\ UNCHANGED <<ticks, softticks, pc, curticks, cur, cc_next, cc_bucket, wheel,
                       cc_curr, cc_drain, pending, direct, c_time, callfree, c_func>>
    BY <1>4 DEF callout_deactivate, clock, walk, exec, local
  <2>3. TypeOK'
    BY SMTT(30), <2>1, <2>2 DEF TypeOK
  <2>4. WheelOK'
    <3>1. \A d \in Callouts : pending[d] => active'[d] = active[d]
      BY ZenonT(60), <2>1, <2>2 DEF TypeOK
    <3>. QED  BY Zenon, <2>2, <3>1 DEF WheelOK, BucketOf
  <2>5. WalkOK'
    BY <2>1, <2>2 DEF WalkOK, InFunction, Bucket
  <2>. QED  BY <2>3, <2>4, <2>5
<1>5. ASSUME NEW f \in Funcs, NEW n \in ToTicks, timeout(f, n)
      PROVE  Inv'
  <2>1. callfree \in Seq(Locals) /\ callfree # <<>> /\ c_func \in [Locals -> Funcs \cup {NULL}]
    BY <1>5 DEF TypeOK, timeout
  <2>2. Head(callfree) \in Locals /\ Tail(callfree) \in Seq(Locals)
    BY <2>1, HeadTailProperties
  <2>3. /\ callout_reset_tick_on(Head(callfree), n, FALSE) /\ InClient /\ UNCHANGED pc
        /\ callfree' \in Seq(Locals) /\ c_func' \in [Locals -> Funcs \cup {NULL}]
    BY Zenon, <1>5, <2>1, <2>2 DEF timeout
  <2>4. Head(callfree) \in Callouts
    BY <2>2 DEF Callouts
  <2>. QED  BY ZenonT(60), <2>3, <2>4, ResetKeepsInv
<1>6. ASSUME NEW f \in Funcs, NEW c \in Locals, untimeout(f, c)
      PROVE  Inv'
  BY ZenonT(60), <1>6, StopKeepsInv DEF untimeout, Callouts
<1>7. CASE timeout_panic
  <2>1. TypeOK'
    BY <1>7 DEF timeout_panic, TypeOK, clock, exec, local, PcValues
  <2>. QED  BY <1>7, <2>1, StillWheelKeepsInv DEF timeout_panic, InFunction
<1>8. CASE ff_hardclock
  <2>1. Plus(ticks, 1) \in Ticks
    BY PlusType, HalfAssumption DEF TypeOK
  <2>2. TypeOK'
    BY SMTT(30), <1>8, <2>1 DEF ff_hardclock, TypeOK, exec, local, PcValues
  <2>. QED  BY <1>8, <2>2, StillWheelKeepsInv DEF ff_hardclock, InFunction
<1>9. CASE callout_tick
  <2>1. Plus(softticks, 1) \in Ticks
    BY PlusType, HalfAssumption DEF TypeOK
  <2>2. TypeOK'
    BY <1>9, <2>1 DEF callout_tick, TypeOK, exec, local, PcValues
  <2>. QED  BY ZenonT(60), <1>9, <2>2, StillWheelKeepsInv DEF callout_tick, InFunction
<1>10. CASE softclock
  <2>1. Plus(softticks, 1) \in Ticks
    BY PlusType, HalfAssumption DEF TypeOK
  <2>. DEFINE b == callout_get_bucket(softticks)
  <2>2. b \in Buckets /\ wheel[b] \in Seq(Callouts) /\ IsInjective(wheel[b]) /\ NULL \notin Callouts
    BY BucketType, CalloutAssumption DEF TypeOK, WheelOK, Buckets
  <2>3. /\ LIST_FIRST(wheel[b]) \in Callouts \cup {NULL}
        /\ LIST_FIRST(wheel[b]) # NULL => Contains(wheel[b], LIST_FIRST(wheel[b]))
    BY <2>2, ListFirstProperties
  <2>4. TypeOK'
    BY <1>10, <2>1, <2>3 DEF softclock, TypeOK, exec, local, PcValues
  <2>5. pc' = "bucket" => curticks' = softticks /\ cur' = LIST_FIRST(wheel[b])
    BY <1>10 DEF softclock
  <2>6. pc' = "bucket" /\ cur' # NULL => Contains(wheel[Bucket'], cur')
    BY <2>3, <2>5 DEF Bucket
  <2>. QED  BY SMTT(30), <1>10, <2>4, <2>6, StillWheelKeepsInv DEF softclock, InFunction
<1>11. CASE softclock_skip
  <2>1. CASE cur = NULL
    <3>1. TypeOK'
      BY <1>11, <2>1 DEF softclock_skip, TypeOK, clock, exec, local, PcValues
    <3>. QED  BY <1>11, <2>1, <3>1, StillWheelKeepsInv DEF softclock_skip, InFunction
  <2>2. CASE cur # NULL
    <3>1. Bucket \in Buckets /\ wheel[Bucket] \in Seq(Callouts) /\ IsInjective(wheel[Bucket])
          /\ Contains(wheel[Bucket], cur) /\ NULL \notin Callouts
      BY <1>11, <2>2, BucketType, CalloutAssumption
         DEF softclock_skip, TypeOK, WheelOK, WalkOK, Buckets, Bucket
    <3>2. /\ LIST_NEXT(wheel[Bucket], cur) \in Callouts \cup {NULL}
          /\ LIST_NEXT(wheel[Bucket], cur) # NULL =>
               Contains(wheel[Bucket], LIST_NEXT(wheel[Bucket], cur))
      BY <3>1, ListNextProperties
    <3>3. /\ cur' = LIST_NEXT(wheel[Bucket], cur) /\ curticks' = curticks /\ pc' = "bucket"
      BY <1>11, <2>2 DEF softclock_skip
    <3>4. TypeOK'
      BY <1>11, <3>2, <3>3 DEF softclock_skip, TypeOK, clock, exec, local, PcValues
    <3>5. cur' # NULL => Contains(wheel[Bucket'], cur')
      BY <3>2, <3>3 DEF Bucket
    <3>. QED  BY SMTT(30), <1>11, <3>3, <3>4, <3>5, StillWheelKeepsInv DEF softclock_skip, InFunction
  <2>. QED  BY <2>1, <2>2
<1>12. CASE softclock_run
  BY <1>12, RunKeepsInv
<1>13. ASSUME pc \in {"function", "drain"}, Finish,
              UNCHANGED <<clock, curticks, cc_bucket, wheel, pending, active, direct, c_time>>,
              cc_curr' \in [{0, 1} -> Callouts \cup {NULL}], cc_drain' \in [{0, 1} -> BOOLEAN]
       PROVE  Inv'
  <2>1. callfree' \in Seq(Locals) /\ c_func' \in [Locals -> Funcs \cup {NULL}]
    BY <1>13, DelType DEF Finish, TypeOK
  <2>2. TypeOK'
    BY <1>13, <2>1 DEF Finish, TypeOK, clock, PcValues
  <2>3. cur' # NULL => Contains(wheel[Bucket'], cur')
    BY <1>13 DEF Finish, WalkOK, InFunction, Bucket
  <2>. QED  BY SMTT(30), <1>13, <2>2, <2>3, StillWheelKeepsInv DEF Finish, InFunction
<1>14. CASE function_returns
  <2>1. /\ cc_curr' \in [{0, 1} -> Callouts \cup {NULL}] /\ cc_drain' \in [{0, 1} -> BOOLEAN]
    BY <1>14 DEF function_returns, TypeOK
  <2>2. CASE cc_drain[1]
    <3>1. TypeOK'
      BY <1>14, <2>1, <2>2 DEF function_returns, TypeOK, clock, local, PcValues
    <3>. QED  BY SMTT(30), <1>14, <2>2, <3>1, StillWheelKeepsInv DEF function_returns, InFunction
  <2>3. CASE ~ cc_drain[1]
    BY <1>13, <1>14, <2>1, <2>3 DEF function_returns
  <2>. QED  BY <2>2, <2>3
<1>15. CASE drain_returns
  <2>1. /\ cc_curr' \in [{0, 1} -> Callouts \cup {NULL}] /\ cc_drain' \in [{0, 1} -> BOOLEAN]
    BY <1>15 DEF drain_returns, TypeOK, exec
  <2>. QED  BY <1>13, <1>15, <2>1 DEF drain_returns
<1>16. CASE UNCHANGED vars
  <2>1. TypeOK'
    BY <1>16 DEF TypeOK, vars
  <2>. QED  BY <1>16, <2>1, StillWheelKeepsInv DEF vars, WalkOK, Bucket, InFunction
<1>. QED
  BY <1>1, <1>2, <1>3, <1>4, <1>5, <1>6, <1>7, <1>8, <1>9, <1>10, <1>11, <1>12, <1>14,
     <1>15, <1>16 DEF Next, Client, System, aborted

\* For any callouts, wheel and timeouts: the types, the agreement of the wheel
\* with CALLOUT_PENDING and the validity of softclock()'s pointers hold for
\* ever, under every order of calls and ticks, wrapping comparison or not.
THEOREM CalloutSafety == Spec => [](TypeOK /\ WheelOK /\ WalkOK)
<1>1. Inv => TypeOK /\ WheelOK /\ WalkOK
  BY DEF Inv
<1>. QED  BY <1>1, InvInit, InvNext, PTL DEF Spec

-----------------------------------------------------------------------------
(* The callouts of timeout(9).                                             *)

\* The inductive invariant: what is free depends on what is running.
LInv == Inv /\ RunningOK /\ LocalsOK

\* callout_cc_del() of a callout of timeout(9) that is not free frees it.
LEMMA DelProperties ==
  ASSUME LInv, NEW c \in Locals, ~ Contains(callfree, c), callout_cc_del(c)
  PROVE  /\ IsInjective(callfree')
         /\ \A d : Contains(callfree', d) <=> Contains(callfree, d) \/ d = c
         /\ c_func' = [c_func EXCEPT ![c] = NULL]
<1>1. callfree' = LIST_INSERT_HEAD(callfree, c) /\ c_func' = [c_func EXCEPT ![c] = NULL]
  BY DEF callout_cc_del
<1>2. callfree \in Seq(Locals) /\ IsInjective(callfree)
  BY SMTT(30) DEF LInv, Inv, TypeOK, LocalsOK
<1>. QED  BY <1>1, <1>2, ListInsertProperties

\* LocalsOK survives steps that change none of what it is about.
LEMMA StillLocals ==
  ASSUME LInv, UNCHANGED <<callfree, c_func>>, cc_curr' = cc_curr,
         \A c \in Locals : pending'[c] = pending[c]
  PROVE  LocalsOK'
BY Zenon DEF LInv, LocalsOK

\* _callout_stop_safe() frees a pending callout of timeout(9), once.
LEMMA StopKeepsLInv ==
  ASSUME LInv, NEW c \in Callouts, NEW drain \in BOOLEAN, _callout_stop_safe(c, drain), InClient
  PROVE  LInv'
<1>1. Inv'
  BY StopKeepsInv DEF LInv
<1>2. /\ UNCHANGED <<pc, cur, cc_curr, direct>>
      /\ cc_drain' = [cc_drain EXCEPT ![Entity(c)] = @ \/ (IsCurr(c) /\ drain)]
  BY DEF _callout_stop_safe, walk
<1>3. ASSUME NEW d \in Callouts PROVE pending'[d] = (pending[d] /\ d # c)
  BY ZenonT(60) DEF _callout_stop_safe, LInv, Inv, TypeOK
<1>4. RunningOK'
  <2>1. cc_drain'[1] => cc_curr[1] # NULL /\ direct[cc_curr[1]]
    <3>1. ASSUME ~ cc_drain[1], cc_drain'[1] PROVE cc_curr[1] = c /\ direct[c]
      BY <1>2, <3>1 DEF Entity, IsCurr, LInv, Inv, TypeOK
    <3>. QED  BY <3>1, CalloutAssumption DEF LInv, RunningOK
  <2>2. \A d \in Locals : cc_curr[1] = d => ~ pending'[d]
    BY Zenon, <1>3 DEF LInv, RunningOK, Callouts
  <2>. QED  BY <1>2, <2>1, <2>2 DEF LInv, RunningOK
<1>5. LocalsOK'
  <2>1. CASE pending[c] /\ c \in Locals
    <3>1. ~ Contains(callfree, c) /\ cc_curr[1] # c /\ callout_cc_del(c)
      BY <2>1 DEF LInv, LocalsOK, RunningOK, _callout_stop_safe
    <3>2. /\ IsInjective(callfree') /\ c_func' = [c_func EXCEPT ![c] = NULL]
          /\ \A d : Contains(callfree', d) <=> Contains(callfree, d) \/ d = c
      BY <2>1, <3>1, DelProperties
    <3>3. \A d \in Locals : c_func'[d] = IF d = c THEN NULL ELSE c_func[d]
      BY <3>2 DEF LInv, Inv, TypeOK
    <3>4. \A d \in Locals : pending'[d] = (pending[d] /\ d # c)
      BY <1>3 DEF Callouts
    <3>. QED  BY ZenonT(60), <1>2, <2>1, <3>1, <3>2, <3>3, <3>4 DEF LInv, LocalsOK
  <2>2. CASE ~ (pending[c] /\ c \in Locals)
    <3>1. UNCHANGED <<callfree, c_func>>
      BY <2>2 DEF _callout_stop_safe, callout_cc_del, local
    <3>2. \A d \in Locals : pending'[d] = pending[d]
      BY <1>3, <2>2 DEF Callouts, LInv, Inv, TypeOK
    <3>. QED  BY <1>2, <3>1, <3>2, StillLocals
  <2>. QED  BY <2>1, <2>2
<1>. QED  BY <1>1, <1>4, <1>5 DEF LInv

\* callout_reset() and timeout(), which takes the callout from the free list.
LEMMA ResetKeepsRunning ==
  ASSUME LInv, NEW c \in Callouts, NEW n \in ToTicks, NEW dir \in BOOLEAN,
         callout_reset_tick_on(c, n, dir), UNCHANGED pc,
         c \in Locals => ~ dir /\ cc_curr[1] # c
  PROVE  RunningOK'
<1>1. UNCHANGED <<cur, cc_curr, cc_drain>> /\ pending' = [pending EXCEPT ![c] = TRUE]
  <2>1. UNCHANGED <<cur, cc_curr, cc_drain>>
    BY DEF callout_reset_tick_on, exec
  <2>2. pending' = [pending EXCEPT ![c] = TRUE]
    BY SMTT(30), ResetProperties DEF LInv
  <2>. QED  BY SMTT(30), <2>1, <2>2
<1>2. direct' = [direct EXCEPT ![c] = @ \/ dir]
  BY DEF callout_reset_tick_on, callout_cc_add
<1>3. /\ \A d \in Callouts : direct[d] => direct'[d]
      /\ \A d \in Locals : ~ direct'[d] /\ (cc_curr[1] = d => ~ pending'[d])
  BY <1>1, <1>2 DEF LInv, Inv, TypeOK, RunningOK, Callouts
<1>4. cc_curr[1] \in Callouts \cup {NULL}
  BY DEF LInv, Inv, TypeOK
<1>. QED  BY <1>1, <1>3, <1>4 DEF LInv, RunningOK

\* timeout() takes a callout from the free list that was neither pending nor
\* running, and makes it pending.
LEMMA TimeoutKeepsLInv ==
  ASSUME LInv, NEW f \in Funcs, NEW n \in ToTicks, timeout(f, n)
  PROVE  RunningOK' /\ LocalsOK'
<1>. DEFINE c == Head(callfree)
<1>1. callfree \in Seq(Locals) /\ IsInjective(callfree) /\ callfree # <<>>
  BY DEF LInv, Inv, TypeOK, LocalsOK, timeout
<1>2. /\ c \in Locals /\ Contains(callfree, c) /\ IsInjective(Tail(callfree))
      /\ \A d : Contains(Tail(callfree), d) <=> Contains(callfree, d) /\ d # c
  BY <1>1, ListTailProperties
<1>3. /\ callfree' = Tail(callfree) /\ c_func' = [c_func EXCEPT ![c] = f]
      /\ callout_reset_tick_on(c, n, FALSE) /\ UNCHANGED pc
  BY Zenon DEF timeout
<1>. HIDE DEF c
<1>4. ~ pending[c] /\ cc_curr[1] # c /\ c \in Callouts
  BY <1>2 DEF LInv, LocalsOK, Callouts
<1>5. RunningOK'
  BY Zenon, <1>3, <1>4, ResetKeepsRunning
<1>6. pending' = [pending EXCEPT ![c] = TRUE] /\ cc_curr' = cc_curr
  <2>1. pending' = [pending EXCEPT ![c] = TRUE]
    BY Zenon, <1>3, <1>4, ResetProperties DEF LInv
  <2>2. cc_curr' = cc_curr
    BY <1>3 DEF callout_reset_tick_on, exec
  <2>. QED  BY <2>1, <2>2
<1>7. \A d \in Locals : /\ pending'[d] = (pending[d] \/ d = c)
                        /\ d # c => c_func'[d] = c_func[d]
  BY Zenon, <1>3, <1>6 DEF LInv, Inv, TypeOK, Callouts
<1>8. LocalsOK'
  BY Zenon, <1>2, <1>3, <1>4, <1>6, <1>7 DEF LInv, LocalsOK
<1>. QED  BY <1>5, <1>8

\* A function has returned: a callout of timeout(9) is freed, and only then.
LEMMA FinishKeepsLInv ==
  ASSUME LInv, function_returns \/ drain_returns
  PROVE  RunningOK' /\ LocalsOK'
<1>1. /\ UNCHANGED <<pending, direct>> /\ InFunction /\ pc # "panic"
      /\ cc_curr' = [cc_curr EXCEPT ![1] = NULL] /\ cc_drain'[1] = FALSE
  <2>1. CASE function_returns
    BY <2>1 DEF function_returns, InFunction, LInv, Inv, TypeOK
  <2>2. CASE drain_returns
    <3>1. cc_curr[1] = NULL /\ cc_curr \in [{0, 1} -> Callouts \cup {NULL}]
      BY <2>2 DEF drain_returns, LInv, RunningOK, Inv, TypeOK
    <3>2. cc_drain[1] = FALSE
      BY <3>1 DEF LInv, RunningOK, Inv, TypeOK
    <3>. QED  BY <2>2, <3>1, <3>2 DEF drain_returns, exec, InFunction
  <2>. QED  BY ZenonT(60), <2>1, <2>2
<1>2. cc_curr'[1] = NULL /\ NULL \notin Locals
  BY <1>1, CalloutAssumption DEF LInv, Inv, TypeOK, Callouts
<1>3. CASE Finish
  <2>1. pc' = "bucket" /\ callout_cc_del(cur)
    BY <1>3 DEF Finish
  <2>2. RunningOK'
    BY SMTT(30), <1>1, <1>2, <2>1 DEF LInv, RunningOK
  <2>3. CASE cur \in Locals
    <3>1. pc = "function" /\ cc_curr[1] = cur /\ ~ pending[cur] /\ ~ Contains(callfree, cur)
      BY SMTT(30), <1>1, <2>3 DEF LInv, RunningOK, LocalsOK, InFunction
    <3>2. /\ IsInjective(callfree') /\ c_func' = [c_func EXCEPT ![cur] = NULL]
          /\ \A d : Contains(callfree', d) <=> Contains(callfree, d) \/ d = cur
      BY SMTT(30), <2>1, <2>3, <3>1, DelProperties
    <3>3. \A d \in Locals : c_func'[d] = IF d = cur THEN NULL ELSE c_func[d]
      BY <3>2 DEF LInv, Inv, TypeOK
    <3>. QED  BY <1>1, <1>2, <2>2, <2>3, <3>1, <3>2, <3>3 DEF LInv, LocalsOK
  <2>4. CASE cur \notin Locals
    <3>1. UNCHANGED <<callfree, c_func>>
      BY <2>1, <2>4 DEF callout_cc_del, local
    <3>2. \A d \in Locals : cc_curr[1] # d
      BY SMTT(30), <1>1, <1>2, <2>4 DEF LInv, RunningOK
    <3>. QED  BY <1>1, <1>2, <2>2, <3>1, <3>2 DEF LInv, LocalsOK
  <2>. QED  BY <2>3, <2>4
<1>4. CASE ~ Finish
  <2>1. /\ pc = "function" /\ cc_drain[1] /\ pc' = "drain"
        /\ UNCHANGED <<cur, callfree, c_func>>
    BY <1>4 DEF function_returns, drain_returns, local
  <2>2. cc_curr[1] = cur /\ cur \notin Locals
    BY <2>1 DEF LInv, RunningOK
  <2>3. RunningOK'
    BY <1>1, <1>2, <2>1, <2>2 DEF LInv, RunningOK
  <2>. QED  BY <1>1, <1>2, <2>1, <2>2, <2>3 DEF LInv, LocalsOK
<1>. QED  BY <1>3, <1>4

\* callout_callwheel_init(): every preallocated callout is free, once.
LEMMA LInvInit == Init => LInv
<1>. SUFFICES ASSUME Init PROVE LInv
  OBVIOUS
<1>1. /\ cc_callout \in Seq(Locals) /\ Len(cc_callout) \in Nat
      /\ DOMAIN cc_callout = 1 .. Len(cc_callout)
      /\ \A i, j \in 1 .. Len(cc_callout) : cc_callout[i] = cc_callout[j] => i = j
  BY CalloutAssumption, LenProperties
<1>2. callfree = [i \in 1 .. Len(cc_callout) |-> cc_callout[(Len(cc_callout) - i) + 1]]
  BY DEF Init, Reverse
<1>3. Len(callfree) = Len(cc_callout) /\ DOMAIN callfree = 1 .. Len(cc_callout)
  <2>1. callfree \in Seq(Locals)
    BY InvInit DEF Inv, TypeOK
  <2>. QED  BY SMTT(30), <1>1, <1>2, <2>1, LenProperties
<1>4. IsInjective(callfree)
  BY <1>1, <1>2, <1>3 DEF IsInjective
<1>5. ASSUME NEW c \in Locals PROVE Contains(callfree, c)
  <2>1. PICK i \in 1 .. Len(cc_callout) : cc_callout[i] = c
    BY <1>1 DEF Locals
  <2>2. (Len(cc_callout) - i) + 1 \in 1 .. Len(cc_callout)
        /\ (Len(cc_callout) - ((Len(cc_callout) - i) + 1)) + 1 = i
    BY <1>1
  <2>3. callfree[(Len(cc_callout) - i) + 1] = c
    BY <1>2, <2>1, <2>2
  <2>. QED  BY <1>3, <2>2, <2>3 DEF Contains
<1>6. \A c \in Locals : c \in Callouts /\ c # NULL
  BY CalloutAssumption DEF Callouts
<1>7. LocalsOK
  BY <1>4, <1>5, <1>6 DEF Init, LocalsOK
<1>8. RunningOK
  BY <1>6 DEF Init, RunningOK
<1>. QED  BY <1>7, <1>8, InvInit DEF LInv

\* Every step keeps the table of timeout(9) and cc_exec_curr() consistent.
LEMMA LInvNext == LInv /\ [Next]_vars => LInv'
<1>. SUFFICES ASSUME LInv, [Next]_vars PROVE RunningOK' /\ LocalsOK'
  BY InvNext DEF LInv
<1>1. ASSUME NEW c \in Clients, NEW n \in ToTicks, NEW d \in DirectFlags, callout_reset(c, n, d)
      PROVE  RunningOK' /\ LocalsOK'
  <2>1. /\ c \in Callouts /\ c \notin Locals /\ d \in BOOLEAN
        /\ callout_reset_tick_on(c, n, d) /\ UNCHANGED <<pc, callfree, c_func>>
    BY <1>1, CalloutAssumption DEF Callouts, callout_reset, local
  <2>2. RunningOK'
    BY <2>1, ResetKeepsRunning
  <2>3. pending' = [pending EXCEPT ![c] = TRUE] /\ cc_curr' = cc_curr
    <3>1. pending' = [pending EXCEPT ![c] = TRUE]
      BY <2>1, ResetProperties DEF LInv
    <3>2. cc_curr' = cc_curr
      BY <2>1 DEF callout_reset_tick_on, exec
    <3>. QED  BY <3>1, <3>2
  <2>4. \A e \in Locals : pending'[e] = pending[e]
    BY ZenonT(60), <2>1, <2>3 DEF LInv, Inv, TypeOK, Callouts
  <2>. QED  BY Zenon, <2>1, <2>2, <2>3, <2>4, StillLocals
<1>2. ASSUME NEW c \in Clients, NEW drain \in BOOLEAN, callout_stop(c, drain)
      PROVE  RunningOK' /\ LocalsOK'
  BY <1>2, StopKeepsLInv DEF callout_stop, Callouts, LInv
<1>3. ASSUME NEW c \in Clients, callout_init(c) \/ callout_deactivate(c)
      PROVE  RunningOK' /\ LocalsOK'
  <2>1. /\ c \in Callouts /\ pc # "panic"
        /\ UNCHANGED <<pc, cur, cc_curr, cc_drain, pending, callfree, c_func>>
        /\ \/ direct' = direct
           \/ direct' = [direct EXCEPT ![c] = FALSE] /\ c # cc_curr[1]
    BY <1>3 DEF Callouts, callout_init, callout_deactivate, InClient, exec, walk, local
  <2>2. /\ \A d \in Locals : ~ direct'[d]
        /\ cc_curr[1] \in Callouts => direct'[cc_curr[1]] = direct[cc_curr[1]]
        /\ cc_curr[1] \in Callouts \cup {NULL}
    BY SMTT(30), <2>1 DEF LInv, RunningOK, Inv, TypeOK, Callouts
  <2>3. RunningOK'
    BY ZenonT(60), <2>1, <2>2 DEF LInv, RunningOK
  <2>. QED  BY <2>1, <2>3, StillLocals
<1>4. ASSUME NEW f \in Funcs, NEW n \in ToTicks, timeout(f, n)
      PROVE  RunningOK' /\ LocalsOK'
  BY <1>4, TimeoutKeepsLInv
<1>5. ASSUME NEW f \in Funcs, NEW c \in Locals, untimeout(f, c)
      PROVE  RunningOK' /\ LocalsOK'
  BY ZenonT(60), <1>5, StopKeepsLInv DEF untimeout, Callouts, LInv
<1>6. CASE timeout_panic \/ ff_hardclock \/ callout_tick \/ softclock \/ softclock_skip
  <2>1. /\ UNCHANGED <<cc_curr, cc_drain, pending, direct, callfree, c_func>>
        /\ pc # "panic" /\ pc' \notin {"function", "drain"}
        /\ pc \in {"function", "drain"} => pc' = "panic"
    BY <1>6 DEF timeout_panic, InClient, ff_hardclock, callout_tick, softclock,
       softclock_skip, exec, local
  <2>2. RunningOK'
    BY ZenonT(60), <2>1 DEF LInv, RunningOK
  <2>. QED  BY <2>1, <2>2, StillLocals
<1>7. CASE softclock_run
  <2>1. /\ pc = "bucket" /\ cur # NULL /\ pc' = "function"
        /\ cc_curr' = [cc_curr EXCEPT ![1] = cur] /\ cc_drain' = [cc_drain EXCEPT ![1] = FALSE]
        /\ pending' = [pending EXCEPT ![cur] = FALSE]
        /\ direct' = [direct EXCEPT ![cur] = @ /\ cur \notin Locals]
        /\ UNCHANGED <<cur, callfree, c_func>>
    BY <1>7 DEF softclock_run, local
  <2>2. cur \in Callouts /\ Contains(wheel[Bucket], cur) /\ cc_curr[1] = NULL
    BY <2>1 DEF LInv, Inv, TypeOK, WalkOK, RunningOK
  <2>3. pending[cur]
    BY <2>2, BucketType DEF LInv, Inv, TypeOK, WheelOK, Bucket, Buckets
  <2>4. /\ cc_curr'[1] = cur /\ cc_drain'[1] = FALSE
        /\ \A d \in Callouts : pending'[d] = (pending[d] /\ d # cur)
        /\ \A d \in Locals : ~ direct'[d]
    BY Zenon, <2>1, <2>2 DEF LInv, Inv, TypeOK, RunningOK, Callouts
  <2>5. RunningOK'
    BY ZenonT(60), <2>1, <2>4 DEF RunningOK, Callouts
  <2>6. LocalsOK'
    BY <2>1, <2>2, <2>3, <2>4, CalloutAssumption DEF LInv, LocalsOK, Callouts
  <2>. QED  BY <2>5, <2>6
<1>8. CASE function_returns \/ drain_returns
  BY SMTT(30), <1>8, FinishKeepsLInv
<1>9. CASE UNCHANGED vars
  BY <1>9 DEF vars, LInv, RunningOK, LocalsOK
<1>. QED
  BY <1>1, <1>2, <1>3, <1>4, <1>5, <1>6, <1>7, <1>8, <1>9 DEF Next, Client, System, aborted

\* timeout(9) loses no callout and hands out none twice, and cc_exec_curr()
\* names the running callout, whatever functions call timeout(), untimeout(),
\* callout_reset() and callout_stop(), for a table of any size.
THEOREM TimeoutTable == Spec => [](RunningOK /\ LocalsOK)
<1>1. LInv => RunningOK /\ LocalsOK
  BY DEF LInv
<1>. QED  BY <1>1, LInvInit, LInvNext, PTL DEF Spec

=============================================================================
