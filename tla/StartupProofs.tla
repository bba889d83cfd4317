--------------------------- MODULE StartupProofs ----------------------------
(***************************************************************************)
(* mi_startup() calls the tasks in ascending order, none twice and none    *)
(* not at all, for every library and every set of modules.                 *)
(***************************************************************************)
EXTENDS Startup, TLAPS

\* The table that counts once the task that runs has returned.
Latest == IF newsysinit = NULL THEN sysinit ELSE newsysinit

\* A task is marked as done when it has been called, and only then.
Counted ==
  \A t \in Tasks :
    calls[t] = IF subsystem[t] = SI_SUB_DONE \/ (pc = "call" /\ t = Task) THEN 1 ELSE 0

\* The loops of the sort: what is before sipp is in its place, and nothing
\* between sipp and xipp is due before the task at sipp.
Sorting ==
  pc = "sort" =>
    /\ sipp < xipp /\ sipp <= Len(sysinit) + 1
    /\ \A i, k \in 1 .. Len(sysinit) : i < sipp /\ i < k => InOrder(sysinit[i], sysinit[k])
    /\ \A k \in 1 .. Len(sysinit) : sipp < k /\ k < xipp => InOrder(sysinit[sipp], sysinit[k])

\* The walk: nothing is pending before sipp, and what is pending is sorted.  The
\* marks take tasks out of the order, so it holds of pending tasks only.
Walking ==
  pc \in {"run", "call"} =>
    /\ \A i \in 1 .. Len(sysinit) : i < sipp => ~Pending(sysinit[i])
    /\ \A i, k \in 1 .. Len(sysinit) :
         i < k /\ Pending(sysinit[i]) /\ Pending(sysinit[k]) => InOrder(sysinit[i], sysinit[k])

Calling == pc = "call" => sipp <= Len(sysinit) /\ Pending(Task)

Ended == pc = "end" => \A i \in 1 .. Len(sysinit) : ~Pending(sysinit[i])

\* Every task of a set that was added is in the latest table.
Merged ==
  /\ newsysinit # NULL => pc = "call"
  /\ \A s \in {sysinit_set} \cup (Preloaded \ preloaded) : \A i \in 1 .. Len(s) :
       \E k \in 1 .. Len(Latest) : Latest[k] = s[i]

IInv == TypeOK /\ Counted /\ Sorting /\ Walking /\ Calling /\ Ended /\ Merged

-----------------------------------------------------------------------------
\* The order of mi_startup()'s comparison is total.
LEMMA OrderTotal ==
  ASSUME TypeOK, NEW s \in Tasks, NEW t \in Tasks
  PROVE  /\ InOrder(s, s)
         /\ ~InOrder(s, t) => InOrder(t, s)
BY DEF TypeOK, InOrder

\* The order of mi_startup()'s comparison is transitive.
LEMMA OrderTransitive ==
  ASSUME TypeOK, NEW s \in Tasks, NEW t \in Tasks, NEW u \in Tasks,
         InOrder(s, t), InOrder(t, u)
  PROVE  InOrder(s, u)
BY DEF TypeOK, InOrder

\* mi_startup() starts with the table of the library and no task called.
LEMMA InitOK == Init => IInv
<1> SUFFICES ASSUME Init PROVE IInv
  OBVIOUS
<1>1. TypeOK
  <2>1. subsystem \in [Tasks -> Nat] /\ order \in [Tasks -> Nat]
    BY StartupAssumption DEF Init
  <2> QED
    BY <2>1, StartupAssumption DEF Init, TypeOK
<1>2. Counted
  BY StartupAssumption DEF Init, Counted, SI_SUB_DONE
<1>3. Sorting
  BY StartupAssumption DEF Init, Sorting
<1>4. Merged
  <2>1. Latest = sysinit_set
    BY DEF Init, Latest
  <2> QED
    BY <2>1 DEF Init, Merged
<1> QED
  BY <1>1, <1>2, <1>3, <1>4 DEF IInv, Init, Walking, Calling, Ended

\* The sort exchanges two tasks of the table or none.
LEMMA Exchange ==
  ASSUME TypeOK, Sorting, sort_compare
  PROVE  /\ sipp \in 1 .. Len(sysinit) /\ xipp \in 1 .. Len(sysinit) /\ sipp < xipp
         /\ sysinit' \in Seq(Tasks) /\ Len(sysinit') = Len(sysinit)
         /\ \/ /\ InOrder(sysinit[sipp], sysinit[xipp])
               /\ sysinit' = sysinit
            \/ /\ ~InOrder(sysinit[sipp], sysinit[xipp])
               /\ \A i \in 1 .. Len(sysinit) :
                    sysinit'[i] = IF i = xipp THEN sysinit[sipp]
                                  ELSE IF i = sipp THEN sysinit[xipp] ELSE sysinit[i]
<1>1. sipp \in 1 .. Len(sysinit) /\ xipp \in 1 .. Len(sysinit) /\ sipp < xipp
  <2>1. sipp < xipp /\ xipp <= Len(sysinit)
    BY DEF Sorting, sort_compare
  <2>2. sipp \in Nat \ {0} /\ xipp \in Nat \ {0} /\ Len(sysinit) \in Nat
    BY DEF TypeOK
  <2> QED
    BY <2>1, <2>2
<1>2. CASE InOrder(sysinit[sipp], sysinit[xipp])
  BY <1>1, <1>2 DEF TypeOK, sort_compare
<1>3. CASE ~InOrder(sysinit[sipp], sysinit[xipp])
  <2>1. PICK n \in Nat : n = Len(sysinit) /\ sysinit \in [1 .. n -> Tasks]
    BY DEF TypeOK
  <2>2. sysinit' = [sysinit EXCEPT ![sipp] = sysinit[xipp], ![xipp] = sysinit[sipp]]
    BY <1>3 DEF sort_compare
  <2>3. sysinit[sipp] \in Tasks /\ sysinit[xipp] \in Tasks
    BY <1>1, <2>1
  <2>4. sysinit' \in [1 .. n -> Tasks]
    BY <2>1, <2>2, <2>3
  <2>5. sysinit' \in Seq(Tasks) /\ Len(sysinit') = n
    BY <2>4
  <2>6. \A i \in 1 .. n : sysinit'[i] = IF i = xipp THEN sysinit[sipp]
                                  ELSE IF i = sipp THEN sysinit[xipp] ELSE sysinit[i]
    BY <2>1, <2>2, <1>1
  <2> QED
    BY <1>1, <1>3, <2>1, <2>5, <2>6
<1> QED
  BY <1>2, <1>3

\* Every step of mi_startup() and of sysinit_add() keeps the types.
LEMMA StepType ==
  ASSUME TypeOK, Sorting, Next
  PROVE  TypeOK'
<1>1. CASE sort_compare
  <2>1. sysinit' \in Seq(Tasks)
    BY <1>1, Exchange
  <2>2. xipp' \in Nat \ {0}
    <3>1. xipp \in Nat \ {0} /\ xipp' = xipp + 1
      BY <1>1 DEF TypeOK, sort_compare
    <3> QED
      BY <3>1
  <2> QED
    BY <1>1, <2>1, <2>2 DEF TypeOK, sort_compare
<1>2. CASE sort_next
  BY <1>2 DEF TypeOK, sort_next
<1>3. CASE sort_ends
  BY <1>3 DEF TypeOK, sort_ends
<1>4. CASE skip
  <2>1. sipp \in Nat \ {0} /\ sipp' = sipp + 1
    BY <1>4 DEF TypeOK, skip
  <2>2. sipp' \in Nat \ {0}
    BY <2>1
  <2> QED
    BY <1>4, <2>2 DEF TypeOK, skip
<1>5. CASE call
  <2>1. \A t \in Tasks : calls[t] + 1 \in Nat
    BY DEF TypeOK
  <2>2. calls' = [calls EXCEPT ![Task] = calls[Task] + 1] /\ Task \in Tasks
    BY <1>5 DEF TypeOK, call, Task
  <2>3. calls' \in [Tasks -> Nat]
    BY <2>1, <2>2 DEF TypeOK
  <2> QED
    BY <1>5, <2>3 DEF TypeOK, call
<1>6. CASE returns_restart
  <2>1. subsystem' \in [Tasks -> Nat]
    BY <1>6 DEF TypeOK, returns_restart, SI_SUB_DONE
  <2> QED
    BY <1>6, <2>1 DEF TypeOK, returns_restart
<1>7. CASE returns
  <2>1. subsystem' \in [Tasks -> Nat]
    BY <1>7 DEF TypeOK, returns, SI_SUB_DONE
  <2> QED
    BY <1>7, <2>1 DEF TypeOK, returns
<1>8. CASE mi_startup_ends
  BY <1>8 DEF TypeOK, mi_startup_ends
<1>9. ASSUME NEW set \in Preloaded, sysinit_add(set)
      PROVE  TypeOK'
  <2>1. set \in Seq(Tasks)
    BY StartupAssumption
  <2> QED
    BY <1>9, <2>1 DEF TypeOK, sysinit_add
<1> QED
  BY <1>1, <1>2, <1>3, <1>4, <1>5, <1>6, <1>7, <1>8, <1>9 DEF Next, mi_startup

\* A round of the inner loop of the sort keeps the invariant.
LEMMA CompareOK ==
  ASSUME IInv, sort_compare
  PROVE  IInv'
<1>1. TypeOK /\ Sorting /\ pc = "sort" /\ Counted /\ Merged
  BY DEF IInv, sort_compare
<1>2. /\ xipp' = xipp + 1 /\ sipp' = sipp /\ pc' = "sort" /\ newsysinit' = newsysinit
      /\ subsystem' = subsystem /\ order' = order /\ preloaded' = preloaded /\ calls' = calls
  BY <1>1 DEF sort_compare
<1>3. TypeOK'
  BY <1>1, StepType DEF Next, mi_startup
<1>4. Len(sysinit) \in Nat /\ \A i \in 1 .. Len(sysinit) : sysinit[i] \in Tasks
  BY <1>1 DEF TypeOK
<1>5. sipp \in 1 .. Len(sysinit) /\ xipp \in 1 .. Len(sysinit) /\ sipp < xipp
  BY <1>1, Exchange
<1>6. Len(sysinit') = Len(sysinit)
  BY <1>1, Exchange
<1>7. CASE InOrder(sysinit[sipp], sysinit[xipp]) /\ sysinit' = sysinit
  <2>1. ASSUME NEW k \in 1 .. Len(sysinit), sipp < k, k < xipp + 1
        PROVE  InOrder(sysinit[sipp], sysinit[k])
    BY <1>1, <1>5, <1>7, <2>1 DEF Sorting
  <2>2. Sorting'
    BY <1>1, <1>2, <1>5, <1>7, <2>1 DEF Sorting, InOrder
  <2>3. Counted' /\ Merged'
    BY <1>1, <1>2, <1>7 DEF Counted, Merged, Latest
  <2> QED
    BY <1>2, <1>3, <2>2, <2>3 DEF IInv, Walking, Calling, Ended
<1>8. CASE /\ ~InOrder(sysinit[sipp], sysinit[xipp])
           /\ \A i \in 1 .. Len(sysinit) :
                sysinit'[i] = IF i = xipp THEN sysinit[sipp]
                              ELSE IF i = sipp THEN sysinit[xipp] ELSE sysinit[i]
  <2>1. InOrder(sysinit[xipp], sysinit[sipp])
    BY <1>1, <1>4, <1>5, <1>8, OrderTotal
  <2>2. ASSUME NEW i \in 1 .. Len(sysinit), NEW k \in 1 .. Len(sysinit), i < sipp, i < k
        PROVE  InOrder(sysinit'[i], sysinit'[k])
    <3>1. PICK m \in 1 .. Len(sysinit) : i < m /\ sysinit'[k] = sysinit[m]
      BY <1>5, <1>8, <2>2
    <3>2. sysinit'[i] = sysinit[i]
      BY <1>5, <1>8, <2>2
    <3>3. InOrder(sysinit[i], sysinit[m])
      BY <1>1, <2>2, <3>1 DEF Sorting
    <3> QED
      BY <3>1, <3>2, <3>3
  <2>3. ASSUME NEW k \in 1 .. Len(sysinit), sipp < k, k < xipp + 1
        PROVE  InOrder(sysinit'[sipp], sysinit'[k])
    <3>1. sysinit'[sipp] = sysinit[xipp]
      BY <1>5, <1>8
    <3>2. CASE k = xipp
      BY <1>8, <2>1, <3>1, <3>2
    <3>3. CASE k # xipp
      <4>1. k < xipp /\ sysinit'[k] = sysinit[k]
        BY <1>5, <1>8, <2>3, <3>3
      <4>2. InOrder(sysinit[sipp], sysinit[k])
        BY <1>1, <2>3, <4>1 DEF Sorting
      <4> QED
        BY <1>1, <1>4, <1>5, <2>1, <3>1, <4>1, <4>2, OrderTransitive
    <3> QED
      BY <3>2, <3>3
  <2>4. Sorting'
    BY <1>2, <1>4, <1>5, <1>6, <2>2, <2>3 DEF Sorting, InOrder
  <2>5. Counted'
    BY <1>1, <1>2 DEF Counted
  <2>6. Merged'
    <3>1. newsysinit = NULL
      BY <1>1 DEF Merged
    <3>2. Latest = sysinit /\ Latest' = sysinit'
      BY <1>2, <3>1 DEF Latest
    <3>3. ASSUME NEW k \in 1 .. Len(sysinit)
          PROVE  \E m \in 1 .. Len(sysinit') : sysinit'[m] = sysinit[k]
      <4>1. k = sipp => sysinit'[xipp] = sysinit[k]
        BY <1>5, <1>8
      <4>2. k = xipp => sysinit'[sipp] = sysinit[k]
        BY <1>5, <1>8
      <4>3. k # sipp /\ k # xipp => sysinit'[k] = sysinit[k]
        BY <1>8
      <4> QED
        BY <1>5, <1>6, <4>1, <4>2, <4>3
    <3>4. \A s \in {sysinit_set} \cup (Preloaded \ preloaded) : \A i \in 1 .. Len(s) :
            \E k \in 1 .. Len(sysinit) : sysinit[k] = s[i]
      BY <1>1, <3>2 DEF Merged
    <3>5. \A s \in {sysinit_set} \cup (Preloaded \ preloaded) : \A i \in 1 .. Len(s) :
            \E k \in 1 .. Len(sysinit') : sysinit'[k] = s[i]
      BY <3>3, <3>4
    <3> QED
      BY <1>2, <3>1, <3>2, <3>5 DEF Merged
  <2> QED
    BY <1>2, <1>3, <2>4, <2>5, <2>6 DEF IInv, Walking, Calling, Ended
<1> QED
  BY <1>1, <1>7, <1>8, Exchange

\* A step that touches no table and no mark keeps what Counted and Merged say.
LEMMA FrameOK ==
  ASSUME Counted, Merged, newsysinit' = newsysinit, subsystem' = subsystem, sysinit' = sysinit,
         preloaded' = preloaded, calls' = calls, pc # "call", pc' # "call"
  PROVE  Counted' /\ Merged'
<1>1. Counted'
  BY DEF Counted
<1>2. Merged'
  BY DEF Merged, Latest
<1> QED
  BY <1>1, <1>2

\* So do the other steps of the sort,
LEMMA SortOK ==
  ASSUME IInv, sort_next \/ sort_ends
  PROVE  IInv'
<1>1. TypeOK /\ Sorting /\ Counted /\ Merged /\ pc = "sort"
  BY DEF IInv, sort_next, sort_ends
<1>2. TypeOK'
  BY <1>1, StepType DEF Next, mi_startup
<1>3. Len(sysinit) \in Nat /\ sipp \in Nat \ {0} /\ xipp \in Nat \ {0}
  BY <1>1 DEF TypeOK
<1>4. /\ newsysinit' = newsysinit /\ subsystem' = subsystem /\ order' = order
      /\ sysinit' = sysinit /\ preloaded' = preloaded /\ calls' = calls /\ pc' # "call"
  BY <1>1 DEF sort_next, sort_ends
<1>5. Counted' /\ Merged'
  BY <1>1, <1>4, FrameOK
<1>6. CASE sort_next
  <2>1. sipp' = sipp + 1 /\ xipp' = sipp + 2 /\ pc' = "sort"
        /\ sipp <= Len(sysinit) /\ xipp > Len(sysinit)
    BY <1>1, <1>6 DEF sort_next
  <2>2. ASSUME NEW i \in 1 .. Len(sysinit), NEW k \in 1 .. Len(sysinit), i < sipp + 1, i < k
        PROVE  InOrder(sysinit[i], sysinit[k])
    <3>1. CASE i < sipp
      BY <1>1, <2>2, <3>1 DEF Sorting
    <3>2. CASE i = sipp
      BY <1>1, <1>3, <2>1, <2>2, <3>2 DEF Sorting
    <3> QED
      BY <1>3, <2>2, <3>1, <3>2
  <2>3. Sorting'
    BY <1>3, <1>4, <2>1, <2>2 DEF Sorting, InOrder
  <2> QED
    BY <1>2, <1>5, <2>1, <2>3 DEF IInv, Walking, Calling, Ended
<1>7. CASE sort_ends
  <2>1. sipp' = 1 /\ pc' = "run" /\ sipp > Len(sysinit)
    BY <1>1, <1>7 DEF sort_ends
  <2>2. ASSUME NEW i \in 1 .. Len(sysinit), NEW k \in 1 .. Len(sysinit), i < k
        PROVE  InOrder(sysinit[i], sysinit[k])
    BY <1>1, <1>3, <2>1, <2>2 DEF Sorting
  <2>3. Walking'
    BY <1>3, <1>4, <2>1, <2>2 DEF Walking, InOrder
  <2> QED
    BY <1>2, <1>5, <2>1, <2>3 DEF IInv, Sorting, Calling, Ended
<1> QED
  BY <1>6, <1>7

\* the steps of the walk that call nothing,
LEMMA WalkOK ==
  ASSUME IInv, skip \/ mi_startup_ends
  PROVE  IInv'
<1>1. TypeOK /\ Sorting /\ Walking /\ Counted /\ Merged /\ pc = "run"
  BY DEF IInv, skip, mi_startup_ends
<1>2. TypeOK'
  BY <1>1, StepType DEF Next, mi_startup
<1>3. Len(sysinit) \in Nat /\ sipp \in Nat \ {0}
  BY <1>1 DEF TypeOK
<1>4. /\ newsysinit' = newsysinit /\ subsystem' = subsystem /\ order' = order
      /\ sysinit' = sysinit /\ preloaded' = preloaded /\ calls' = calls /\ pc' # "call"
  BY <1>1 DEF skip, mi_startup_ends
<1>5. Counted' /\ Merged'
  BY <1>1, <1>4, FrameOK
<1>6. CASE skip
  <2>1. sipp' = sipp + 1 /\ pc' = "run" /\ ~Pending(sysinit[sipp])
    BY <1>1, <1>6 DEF skip, Pending, Task
  <2>2. ASSUME NEW i \in 1 .. Len(sysinit), i < sipp + 1
        PROVE  ~Pending(sysinit[i])
    BY <1>1, <1>3, <2>1, <2>2 DEF Walking
  <2>3. Walking'
    BY <1>1, <1>4, <2>1, <2>2 DEF Walking, InOrder, Pending
  <2> QED
    BY <1>2, <1>5, <2>1, <2>3 DEF IInv, Sorting, Calling, Ended
<1>7. CASE mi_startup_ends
  <2>1. pc' = "end" /\ sipp > Len(sysinit)
    BY <1>7 DEF mi_startup_ends
  <2>2. ASSUME NEW i \in 1 .. Len(sysinit)
        PROVE  ~Pending(sysinit[i])
    BY <1>1, <1>3, <2>1 DEF Walking
  <2>3. Ended'
    BY <1>4, <2>2 DEF Ended, Pending
  <2> QED
    BY <1>2, <1>5, <2>1, <2>3 DEF IInv, Sorting, Calling, Walking
<1> QED
  BY <1>6, <1>7

\* the call of a task,
LEMMA CallOK ==
  ASSUME IInv, call
  PROVE  IInv'
<1>1. TypeOK /\ Sorting /\ Walking /\ Counted /\ Merged /\ pc = "run"
  BY DEF IInv, call
<1>2. TypeOK'
  BY <1>1, StepType DEF Next, mi_startup
<1>3. /\ newsysinit' = newsysinit /\ subsystem' = subsystem /\ order' = order /\ sipp' = sipp
      /\ sysinit' = sysinit /\ preloaded' = preloaded /\ pc' = "call"
      /\ calls' = [calls EXCEPT ![Task] = calls[Task] + 1]
  BY DEF call
<1>4. sipp <= Len(sysinit) /\ Pending(Task) /\ Task \in Tasks /\ Task' = Task
  BY <1>1, <1>3 DEF call, Pending, Task, TypeOK
<1>5. Counted'
  <2>1. subsystem[Task] # SI_SUB_DONE
    BY <1>4 DEF Pending
  <2>2. calls[Task] = 0
    BY <1>1, <1>4, <2>1 DEF Counted
  <2>3. ASSUME NEW t \in Tasks
        PROVE  calls'[t] = IF subsystem[t] = SI_SUB_DONE \/ t = Task THEN 1 ELSE 0
    <3>1. calls'[t] = IF t = Task THEN calls[Task] + 1 ELSE calls[t]
      BY <1>1, <1>3 DEF TypeOK
    <3> QED
      BY <1>1, <2>1, <2>2, <3>1 DEF Counted
  <2> QED
    BY <1>3, <1>4, <2>3 DEF Counted
<1>6. Walking'
  BY <1>1, <1>3 DEF Walking, InOrder, Pending
<1>7. Calling'
  BY <1>3, <1>4 DEF Calling, Pending
<1>8. Merged'
  BY <1>1, <1>3 DEF Merged, Latest
<1> QED
  BY <1>2, <1>3, <1>5, <1>6, <1>7, <1>8 DEF IInv, Sorting, Ended

\* a task that adds a set to the table,
LEMMA AddOK ==
  ASSUME IInv, NEW set \in Preloaded, sysinit_add(set)
  PROVE  IInv'
<1>1. TypeOK /\ Sorting /\ Walking /\ Counted /\ Merged /\ Calling /\ pc = "call"
  BY DEF IInv, sysinit_add
<1>2. TypeOK'
  BY <1>1, StepType DEF Next
<1>3. /\ subsystem' = subsystem /\ order' = order /\ sipp' = sipp /\ calls' = calls
      /\ sysinit' = sysinit /\ preloaded' = preloaded \ {set} /\ pc' = "call"
  BY <1>1 DEF sysinit_add
<1>4. Task' = Task
  BY <1>3 DEF Task
<1>5. Counted'
  BY <1>1, <1>3, <1>4 DEF Counted
<1>6. Walking' /\ Calling'
  <2>1. Walking'
    BY <1>1, <1>3 DEF Walking, InOrder, Pending
  <2>2. Calling'
    BY <1>1, <1>3, <1>4 DEF Calling, Pending
  <2> QED
    BY <2>1, <2>2
<1>7. Merged'
  <2>1. Latest \in Seq(Tasks) /\ set \in Seq(Tasks)
    BY <1>1, StartupAssumption DEF Latest, TypeOK
  <2>2. newsysinit' = Latest \o set
    BY DEF Latest, sysinit_add
  <2>3. newsysinit' \in Seq(Tasks)
    BY <2>1, <2>2
  <2>4. Latest' = Latest \o set
    BY <2>2, <2>3, StartupAssumption DEF Latest
  <2>5. Len(Latest') = Len(Latest) + Len(set) /\ Len(Latest) \in Nat /\ Len(set) \in Nat
    BY <2>1, <2>4
  <2>6. \A k \in 1 .. Len(Latest) : k \in 1 .. Len(Latest') /\ Latest'[k] = Latest[k]
    BY <2>1, <2>4, <2>5
  <2>7. \A i \in 1 .. Len(set) :
          Len(Latest) + i \in 1 .. Len(Latest') /\ Latest'[Len(Latest) + i] = set[i]
    BY <2>1, <2>4, <2>5
  <2>8. ASSUME NEW s \in {sysinit_set} \cup (Preloaded \ preloaded'), NEW i \in 1 .. Len(s)
        PROVE  \E k \in 1 .. Len(Latest') : Latest'[k] = s[i]
    <3>1. CASE s = set
      BY <2>7, <2>8, <3>1
    <3>2. CASE s # set
      <4>1. s \in {sysinit_set} \cup (Preloaded \ preloaded)
        BY <1>3, <2>8, <3>2
      <4>2. PICK k \in 1 .. Len(Latest) : Latest[k] = s[i]
        BY <1>1, <4>1 DEF Merged
      <4> QED
        BY <2>6, <4>2
    <3> QED
      BY <3>1, <3>2
  <2> QED
    BY <1>3, <2>8 DEF Merged
<1> QED
  BY <1>2, <1>3, <1>5, <1>6, <1>7 DEF IInv, Sorting, Ended

\* and the return of a task, after which the table may be another one.
LEMMA ReturnOK ==
  ASSUME IInv, returns \/ returns_restart
  PROVE  IInv'
<1>1. TypeOK /\ Walking /\ Counted /\ Merged /\ Calling /\ pc = "call"
  BY DEF IInv, returns, returns_restart
<1>2. TypeOK'
  BY StepType DEF Next, mi_startup, IInv
<1>3. /\ subsystem' = [subsystem EXCEPT ![Task] = SI_SUB_DONE] /\ order' = order
      /\ calls' = calls /\ preloaded' = preloaded /\ newsysinit' = NULL /\ sysinit' = Latest
      /\ pc' # "call" /\ pc' # "end"
  BY DEF returns, returns_restart, Latest
<1>4. /\ Len(sysinit) \in Nat /\ sipp \in 1 .. Len(sysinit) /\ Task \in Tasks
      /\ \A i \in 1 .. Len(sysinit) : sysinit[i] \in Tasks
  <2>1. sysinit \in Seq(Tasks) /\ sipp \in Nat \ {0} /\ sipp <= Len(sysinit)
    BY <1>1 DEF Calling, TypeOK
  <2>2. Len(sysinit) \in Nat /\ \A i \in 1 .. Len(sysinit) : sysinit[i] \in Tasks
    BY <2>1
  <2>3. sipp \in 1 .. Len(sysinit)
    BY <2>1, <2>2
  <2> QED
    BY <2>2, <2>3 DEF Task
<1>5. \A t \in Tasks : subsystem'[t] = IF t = Task THEN SI_SUB_DONE ELSE subsystem[t]
  BY <1>1, <1>3 DEF TypeOK
<1>6. Counted'
  BY <1>1, <1>3, <1>5 DEF Counted
<1>7. Merged'
  <2>1. Latest' = Latest
    BY <1>3 DEF Latest
  <2> QED
    BY <1>1, <1>3, <2>1 DEF Merged
<1>8. CASE returns_restart
  <2>1. sipp' = 1 /\ xipp' = 2 /\ pc' = "sort"
    BY <1>8 DEF returns_restart
  <2>2. Len(sysinit') \in Nat
    BY <1>2 DEF TypeOK
  <2>3. Sorting'
    BY <2>1, <2>2 DEF Sorting
  <2> QED
    BY <1>2, <1>6, <1>7, <2>1, <2>3 DEF IInv, Walking, Calling, Ended
<1>9. CASE returns
  <2>1. sipp' = sipp + 1 /\ pc' = "run" /\ sysinit' = sysinit
    BY <1>9 DEF returns
  <2>2. ASSUME NEW t \in Tasks, Pending(t)'
        PROVE  Pending(t) /\ t # Task /\ subsystem'[t] = subsystem[t]
    BY <1>5, <2>2 DEF Pending
  <2>3. ASSUME NEW i \in 1 .. Len(sysinit), i < sipp + 1
        PROVE  ~Pending(sysinit[i])'
    <3>1. CASE i < sipp
      BY <1>1, <1>4, <2>1, <2>2, <3>1 DEF Walking
    <3>2. CASE i = sipp
      BY <1>4, <2>1, <2>2, <3>2 DEF Task
    <3> QED
      BY <1>4, <2>3, <3>1, <3>2
  <2>4. ASSUME NEW i \in 1 .. Len(sysinit), NEW k \in 1 .. Len(sysinit), i < k,
               Pending(sysinit[i])', Pending(sysinit[k])'
        PROVE  InOrder(sysinit[i], sysinit[k])'
    <3>1. subsystem'[sysinit[i]] = subsystem[sysinit[i]]
          /\ subsystem'[sysinit[k]] = subsystem[sysinit[k]]
      BY <1>4, <2>1, <2>2, <2>4
    <3>2. InOrder(sysinit[i], sysinit[k])
      BY <1>1, <1>4, <2>1, <2>2, <2>4 DEF Walking
    <3> QED
      BY <1>3, <2>1, <3>1, <3>2 DEF InOrder
  <2>5. Walking'
    BY <2>1, <2>3, <2>4 DEF Walking
  <2> QED
    BY <1>2, <1>6, <1>7, <2>1, <2>5 DEF IInv, Sorting, Calling, Ended
<1> QED
  BY <1>8, <1>9

\* Every step keeps the invariant.
LEMMA StepOK == IInv /\ [Next]_vars => IInv'
<1> SUFFICES ASSUME IInv, [Next]_vars PROVE IInv'
  OBVIOUS
<1>1. CASE Next
  BY <1>1, CompareOK, SortOK, WalkOK, CallOK, AddOK, ReturnOK DEF Next, mi_startup
<1>2. CASE UNCHANGED vars
  BY <1>2 DEF vars, IInv, TypeOK, Counted, Sorting, Walking, Calling, Ended, Merged,
              Latest, Pending, InOrder, Task
<1> QED
  BY <1>1, <1>2

\* The invariant says that tasks are called in order,
LEMMA OrderFollows == IInv => Ascending
<1> SUFFICES ASSUME IInv, pc = "call", NEW i \in 1 .. Len(sysinit), Pending(sysinit[i])
             PROVE  InOrder(Task, sysinit[i])
  <2>1. IInv => DOMAIN sysinit = 1 .. Len(sysinit)
    BY DEF IInv, TypeOK
  <2> QED
    BY <2>1 DEF Ascending
<1>1. TypeOK /\ Walking /\ Calling
  BY DEF IInv
<1>2. sipp \in 1 .. Len(sysinit) /\ Task = sysinit[sipp] /\ Task \in Tasks /\ Pending(Task)
  BY <1>1 DEF Calling, TypeOK, Task
<1>3. ~(i < sipp)
  BY <1>1 DEF Walking
<1>4. CASE i = sipp
  BY <1>1, <1>2, <1>4, OrderTotal
<1>5. CASE sipp < i
  BY <1>1, <1>2, <1>5 DEF Walking
<1> QED
  BY <1>2, <1>3, <1>4, <1>5

\* at most once, and in the end all of them.
LEMMA CountFollows == IInv => CalledOnce
<1> SUFFICES ASSUME IInv PROVE CalledOnce
  OBVIOUS
<1>1. TypeOK /\ Counted /\ Calling /\ Ended /\ Merged
  BY DEF IInv
<1>2. NotTwice
  <2>1. ASSUME NEW t \in Tasks
        PROVE  calls[t] <= 1 /\ (subsystem[t] = SI_SUB_DUMMY => calls[t] = 0)
    <3>1. pc = "call" /\ t = Task => subsystem[t] # SI_SUB_DUMMY
      BY <1>1 DEF Calling, Pending
    <3> QED
      BY <1>1, <3>1 DEF Counted, SI_SUB_DUMMY, SI_SUB_DONE
  <2> QED
    BY <2>1 DEF NotTwice
<1>3. NoneLeft
  <2> SUFFICES ASSUME pc = "end", NEW s \in {sysinit_set} \cup (Preloaded \ preloaded),
                      NEW i \in 1 .. Len(s)
               PROVE  calls[s[i]] = 1 \/ subsystem[s[i]] = SI_SUB_DUMMY
    BY StartupAssumption DEF NoneLeft
  <2>1. Latest = sysinit
    BY <1>1 DEF Merged, Latest
  <2>2. PICK k \in 1 .. Len(sysinit) : sysinit[k] = s[i]
    BY <1>1, <2>1 DEF Merged
  <2>3. ~Pending(s[i]) /\ s[i] \in Tasks
    <3>1. sysinit \in Seq(Tasks) /\ ~Pending(sysinit[k])
      BY <1>1, <2>2 DEF Ended, TypeOK
    <3> QED
      BY <2>2, <3>1
  <2> QED
    BY <1>1, <2>3 DEF Pending, Counted
<1> QED
  BY <1>2, <1>3 DEF CalledOnce

\* Whatever the library and the modules link in, mi_startup() calls every task
\* once, in ascending order of what is pending, and no dummy.
THEOREM StartsInOrder == Spec => [](Ascending /\ CalledOnce)
<1>1. Init => IInv
  BY InitOK
<1>2. IInv /\ [Next]_vars => IInv'
  BY StepOK
<1>3. IInv => Ascending /\ CalledOnce
  BY OrderFollows, CountFollows
<1> QED
  BY <1>1, <1>2, <1>3, PTL DEF Spec

=============================================================================
