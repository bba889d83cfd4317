------------------------------- MODULE Queue -------------------------------
(***************************************************************************)
(* The lists of freebsd/sys/queue.h, as sequences of the elements linked   *)
(* together.  An element is on a list at most once, so a sequence and an   *)
(* element of it stand for a position; NULL is the null pointer.           *)
(***************************************************************************)
EXTENDS Integers, Sequences, SequencesExt

CONSTANT NULL

LIST_FIRST(l) == IF l = <<>> THEN NULL ELSE l[1]

IndexOf(l, e) == CHOOSE i \in DOMAIN l : l[i] = e

LIST_NEXT(l, e) ==
  IF IndexOf(l, e) = Len(l) THEN NULL ELSE l[IndexOf(l, e) + 1]

LIST_REMOVE(l, e) == RemoveAt(l, IndexOf(l, e))

LIST_INSERT_HEAD(l, e) == <<e>> \o l

=============================================================================
