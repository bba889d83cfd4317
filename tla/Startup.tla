------------------------------ MODULE Startup -------------------------------
(***************************************************************************)
(* The start of the kernel, mi_startup(): the SYSINIT tasks of the library *)
(* are sorted by subsystem and order and run one after the other.  A task  *)
(* may link a module in and with it add tasks, some of them perhaps due    *)
(* before tasks that have run.  The table is then replaced by a larger     *)
(* one and all starts again, past the tasks that are marked as done.       *)
(*                                                                         *)
(* The comment in the code expects the last task to be the scheduler,      *)
(* which does not return.  No task of this library is one, and             *)
(* ff_freebsd_init() goes on when mi_startup() has returned; the model has *)
(* both, tasks that return and tasks that do not.                          *)
(***************************************************************************)
EXTENDS Integers, Sequences

CONSTANTS Tasks,        \* struct sysinits
          sysinit_set,  \* those linked into the library: a sequence
          Preloaded,    \* the sets of the modules that tasks may add: sequences
          Endless,      \* the tasks that do not return
          Subsystems, Orders,
          NULL

\* 1 is the mark of a task that is done.
ASSUME StartupAssumption ==
  /\ sysinit_set \in Seq(Tasks) /\ Preloaded \subseteq Seq(Tasks) /\ NULL \notin Seq(Tasks)
  /\ Endless \subseteq Tasks
  /\ Subsystems \subseteq Nat \ {1} /\ Orders \subseteq Nat

SI_SUB_DUMMY == 0
SI_SUB_DONE == 1

VARIABLES
  sysinit,            \* the table,
  newsysinit,         \* the one that will replace it, or NULL
  subsystem, order,   \* of each task
  sipp, xipp,         \* places in the table
  pc,                 \* "sort", "run", "call" inside a task, "end"
  preloaded,          \* sets that were not added yet
  calls               \* how often a task has been called

vars == <<sysinit, newsysinit, subsystem, order, sipp, xipp, pc, preloaded, calls>>

Init ==
  /\ sysinit = sysinit_set /\ newsysinit = NULL
  /\ subsystem \in [Tasks -> Subsystems] /\ order \in [Tasks -> Orders]
  /\ sipp = 1 /\ xipp = 2 /\ pc = "sort"
  /\ preloaded = Preloaded /\ calls = [t \in Tasks |-> 0]

-----------------------------------------------------------------------------
\* Task s is due before task t, or with it.
InOrder(s, t) ==
  \/ subsystem[s] < subsystem[t]
  \/ subsystem[s] = subsystem[t] /\ order[s] <= order[t]

\* One round of the inner loop of the sort.
sort_compare ==
  /\ pc = "sort" /\ xipp <= Len(sysinit)
  /\ sysinit' = IF InOrder(sysinit[sipp], sysinit[xipp]) THEN sysinit
                ELSE [sysinit EXCEPT ![sipp] = sysinit[xipp], ![xipp] = sysinit[sipp]]
  /\ xipp' = xipp + 1
  /\ UNCHANGED <<newsysinit, subsystem, order, sipp, pc, preloaded, calls>>

\* One round of the outer loop is over.
sort_next ==
  /\ pc = "sort" /\ xipp > Len(sysinit) /\ sipp <= Len(sysinit)
  /\ sipp' = sipp + 1 /\ xipp' = sipp + 2
  /\ UNCHANGED <<sysinit, newsysinit, subsystem, order, pc, preloaded, calls>>

sort_ends ==
  /\ pc = "sort" /\ sipp > Len(sysinit)
  /\ pc' = "run" /\ sipp' = 1
  /\ UNCHANGED <<sysinit, newsysinit, subsystem, order, xipp, preloaded, calls>>

-----------------------------------------------------------------------------
Task == sysinit[sipp]

\* Slip: the walk does not go on from a task that is not called.
SlipStays ==
  /\ pc = "run" /\ sipp <= Len(sysinit) /\ subsystem[Task] \in {SI_SUB_DUMMY, SI_SUB_DONE}
  /\ UNCHANGED vars

skip ==
  /\ pc = "run" /\ sipp <= Len(sysinit) /\ subsystem[Task] \in {SI_SUB_DUMMY, SI_SUB_DONE}
  /\ sipp' = sipp + 1
  /\ UNCHANGED <<sysinit, newsysinit, subsystem, order, xipp, pc, preloaded, calls>>

call ==
  /\ pc = "run" /\ sipp <= Len(sysinit) /\ subsystem[Task] \notin {SI_SUB_DUMMY, SI_SUB_DONE}
  /\ pc' = "call" /\ calls' = [calls EXCEPT ![Task] = @ + 1]
  /\ UNCHANGED <<sysinit, newsysinit, subsystem, order, sipp, xipp, preloaded>>

\* The task adds a set.
sysinit_add(set) ==
  /\ pc = "call" /\ set \in preloaded
  /\ newsysinit' = (IF newsysinit # NULL THEN newsysinit ELSE sysinit) \o set
  /\ preloaded' = preloaded \ {set}
  /\ UNCHANGED <<sysinit, subsystem, order, sipp, xipp, pc, calls>>

\* Slip: a table that was replaced is not checked off in.
SlipNotDone ==
  /\ pc = "call" /\ newsysinit # NULL /\ Task \notin Endless
  /\ sysinit' = newsysinit /\ newsysinit' = NULL
  /\ pc' = "sort" /\ sipp' = 1 /\ xipp' = 2
  /\ UNCHANGED <<subsystem, order, preloaded, calls>>

\* Slip: the walk goes on behind the task that added to the table.
SlipNoRestart ==
  /\ pc = "call" /\ newsysinit # NULL /\ Task \notin Endless
  /\ subsystem' = [subsystem EXCEPT ![Task] = SI_SUB_DONE]
  /\ sysinit' = newsysinit /\ newsysinit' = NULL
  /\ pc' = "run" /\ sipp' = sipp + 1
  /\ UNCHANGED <<xipp, order, preloaded, calls>>

\* A task that has added to the table returns,
returns_restart ==
  /\ pc = "call" /\ newsysinit # NULL /\ Task \notin Endless
  /\ subsystem' = [subsystem EXCEPT ![Task] = SI_SUB_DONE]
  /\ sysinit' = newsysinit /\ newsysinit' = NULL
  /\ pc' = "sort" /\ sipp' = 1 /\ xipp' = 2
  /\ UNCHANGED <<order, preloaded, calls>>

\* or one that has not.
returns ==
  /\ pc = "call" /\ newsysinit = NULL /\ Task \notin Endless
  /\ subsystem' = [subsystem EXCEPT ![Task] = SI_SUB_DONE]
  /\ pc' = "run" /\ sipp' = sipp + 1
  /\ UNCHANGED <<sysinit, newsysinit, order, xipp, preloaded, calls>>

mi_startup_ends ==
  /\ pc = "run" /\ sipp > Len(sysinit)
  /\ pc' = "end"
  /\ UNCHANGED <<sysinit, newsysinit, subsystem, order, sipp, xipp, preloaded, calls>>

mi_startup ==
  \/ sort_compare \/ sort_next \/ sort_ends
  \/ skip \/ call \/ returns_restart \/ returns \/ mi_startup_ends

Next == mi_startup \/ \E set \in Preloaded : sysinit_add(set)

Spec == Init /\ [][Next]_vars

\* The thread goes on, and the tasks that are not endless return.
FairSpec == Spec /\ WF_vars(mi_startup)

-----------------------------------------------------------------------------
(* Properties.                                                             *)

\* Type invariant.
TypeOK ==
  /\ sysinit \in Seq(Tasks) /\ newsysinit \in Seq(Tasks) \cup {NULL}
  /\ subsystem \in [Tasks -> Nat] /\ order \in [Tasks -> Nat]
  /\ sipp \in Nat \ {0} /\ xipp \in Nat \ {0} /\ pc \in {"sort", "run", "call", "end"}
  /\ preloaded \subseteq Preloaded /\ calls \in [Tasks -> Nat]

Pending(t) == subsystem[t] \notin {SI_SUB_DUMMY, SI_SUB_DONE}

\* "Startup occurs in ascending numeric order" (sys/kernel.h): whenever a task is
\* called, no task of the table that has yet to be called is due before it,
\* although the sort runs again with the marks of tasks that are done as keys.
Ascending ==
  pc = "call" => \A i \in DOMAIN sysinit : Pending(sysinit[i]) => InOrder(Task, sysinit[i])

NotTwice ==
  \A t \in Tasks : calls[t] <= 1 /\ (subsystem[t] = SI_SUB_DUMMY => calls[t] = 0)

NoneLeft ==
  pc = "end" =>
    \A s \in {sysinit_set} \cup (Preloaded \ preloaded) : \A i \in DOMAIN s :
      calls[s[i]] = 1 \/ subsystem[s[i]] = SI_SUB_DUMMY

\* However often tables are merged and sorted, no task is called twice, nor is a
\* dummy task ever; and when mi_startup() returns, every other task of the library
\* and of the sets that were added has been called.
CalledOnce == NotTwice /\ NoneLeft

\* mi_startup() returns, unless it comes to a task that does not: it neither sorts
\* nor restarts for ever, and never stops at a task that is done or a dummy.
Starts == <>(pc = "end" \/ (pc = "call" /\ Task \in Endless))

=============================================================================
