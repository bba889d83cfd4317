---------------------------- MODULE EpollService ----------------------------
(***************************************************************************)
(* What a program may rely on when it uses epoll: it is told only of       *)
(* descriptors it has registered, with the data it registered last, only   *)
(* of events it waits for, and only of events that hold at that moment.    *)
(***************************************************************************)
EXTENDS Sequences, Naturals

CONSTANTS Fds, Udata

VARIABLES
  interest,  \* what is asked for: a function on the registered descriptors
  ready,     \* the events that hold: a function on the open descriptors
  reports    \* what a step has told the program

vars == <<interest, ready, reports>>

Interest == [events : SUBSET {"EPOLLIN", "EPOLLOUT"}, udata : Udata]

Init == interest = <<>> /\ ready = <<>> /\ reports = <<>>

\* Register a descriptor, or ask for something else.
Ask(fd, i) ==
  /\ fd \in DOMAIN ready
  /\ interest' = [g \in DOMAIN interest \cup {fd} |-> IF g = fd THEN i ELSE interest[g]]
  /\ reports' = <<>> /\ UNCHANGED ready

Forget(fd) ==
  /\ fd \in DOMAIN interest
  /\ interest' = [g \in DOMAIN interest \ {fd} |-> interest[g]]
  /\ reports' = <<>> /\ UNCHANGED ready

\* A descriptor is opened, or its events come and go.
Change(fd, events) ==
  /\ ready' = [g \in DOMAIN ready \cup {fd} |-> IF g = fd THEN events ELSE ready[g]]
  /\ reports' = <<>> /\ UNCHANGED interest

\* A descriptor that is closed is forgotten.
Close(fd) ==
  /\ ready' = [g \in DOMAIN ready \ {fd} |-> ready[g]]
  /\ interest' = [g \in DOMAIN interest \ {fd} |-> interest[g]]
  /\ reports' = <<>>

Told(r) ==
  /\ r.fd \in DOMAIN interest /\ r.udata = interest[r.fd].udata
  /\ r.event \in interest[r.fd].events \cap ready[r.fd]

Wait ==
  /\ \A i \in DOMAIN reports' : Told(reports'[i])
  /\ \A i, j \in DOMAIN reports' : reports'[i] = reports'[j] => i = j
  /\ UNCHANGED <<interest, ready>>

Next ==
  \/ Wait
  \/ \E fd \in Fds :
       \/ \E i \in Interest : Ask(fd, i)
       \/ \E events \in SUBSET {"EPOLLIN", "EPOLLOUT"} : Change(fd, events)
       \/ Forget(fd) \/ Close(fd)

Spec == Init /\ [][Next]_vars

=============================================================================
