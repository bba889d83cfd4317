---------------------------- MODULE QueueProofs ----------------------------
(***************************************************************************)
(* What the list operations of Queue do to membership, to the absence of   *)
(* duplicates and to the order of the elements.                            *)
(***************************************************************************)
EXTENDS Queue, SequenceTheorems, TLAPS

\* IndexOf() finds an element that is on the list (LIST macros, sys/queue.h).
LEMMA IndexOfProperties ==
  ASSUME NEW S, NEW l \in Seq(S), NEW e, Contains(l, e)
  PROVE  IndexOf(l, e) \in 1 .. Len(l) /\ l[IndexOf(l, e)] = e
<1>1. PICK i \in DOMAIN l : l[i] = e
  BY LenProperties DEF Contains
<1>2. IndexOf(l, e) \in DOMAIN l /\ l[IndexOf(l, e)] = e
  BY <1>1 DEF IndexOf
<1>. QED  BY <1>2, LenProperties

\* On a list without duplicates an element has one position.
LEMMA IndexOfUnique ==
  ASSUME NEW S, NEW l \in Seq(S), IsInjective(l), NEW i \in 1 .. Len(l)
  PROVE  IndexOf(l, l[i]) = i
<1>1. Contains(l, l[i])
  BY LenProperties DEF Contains
<1>2. IndexOf(l, l[i]) \in 1 .. Len(l) /\ l[IndexOf(l, l[i])] = l[i]
  BY <1>1, IndexOfProperties
<1>. QED  BY <1>2, LenProperties DEF IsInjective

\* What is left when position i is taken out of a sequence.
LEMMA RemoveAtProperties ==
  ASSUME NEW S, NEW l \in Seq(S), NEW i \in 1 .. Len(l)
  PROVE  /\ RemoveAt(l, i) \in Seq(S)
         /\ Len(RemoveAt(l, i)) = Len(l) - 1
         /\ \A j \in 1 .. Len(l) - 1 : RemoveAt(l, i)[j] = IF j < i THEN l[j] ELSE l[j + 1]
<1>. DEFINE a == SubSeq(l, 1, i - 1)
            b == SubSeq(l, i + 1, Len(l))
<1>1. Len(l) \in Nat /\ \A j \in 1 .. Len(l) : l[j] \in S
  BY LenProperties, ElementOfSeq
<1>2. /\ a \in Seq(S) /\ Len(a) = i - 1
      /\ \A j \in 1 .. i - 1 : a[j] = l[j]
  <2>1. \A j \in 1 .. i - 1 : l[j] \in S
    BY <1>1
  <2>2. /\ SubSeq(l, 1, i - 1) \in Seq(S)
        /\ Len(SubSeq(l, 1, i - 1)) = IF 1 <= i - 1 THEN i - 1 - 1 + 1 ELSE 0
        /\ \A j \in 1 .. i - 1 - 1 + 1 : SubSeq(l, 1, i - 1)[j] = l[1 + j - 1]
    BY <2>1, <1>1, SubSeqProperties
  <2>. QED  BY <2>2, <1>1
<1>3. /\ b \in Seq(S) /\ Len(b) = Len(l) - i
      /\ \A j \in 1 .. Len(l) - i : b[j] = l[i + j]
  <2>1. \A j \in i + 1 .. Len(l) : l[j] \in S
    BY <1>1
  <2>2. /\ SubSeq(l, i + 1, Len(l)) \in Seq(S)
        /\ Len(SubSeq(l, i + 1, Len(l))) = IF i + 1 <= Len(l) THEN Len(l) - (i + 1) + 1 ELSE 0
        /\ \A j \in 1 .. Len(l) - (i + 1) + 1 : SubSeq(l, i + 1, Len(l))[j] = l[(i + 1) + j - 1]
    BY <2>1, <1>1, SubSeqProperties
  <2>. QED  BY <2>2, <1>1
<1>4. /\ a \o b \in Seq(S)
      /\ Len(a \o b) = Len(a) + Len(b)
      /\ \A j \in 1 .. Len(a) + Len(b) : (a \o b)[j] = IF j <= Len(a) THEN a[j] ELSE b[j - Len(a)]
  BY Zenon, <1>2, <1>3, ConcatProperties
<1>5. RemoveAt(l, i) = a \o b
  BY DEF RemoveAt
<1>. HIDE DEF a, b
<1>6. Len(RemoveAt(l, i)) = Len(l) - 1
  BY <1>1, <1>2, <1>3, <1>4, <1>5
<1>7. ASSUME NEW j \in 1 .. Len(l) - 1
      PROVE  RemoveAt(l, i)[j] = IF j < i THEN l[j] ELSE l[j + 1]
  <2>1. RemoveAt(l, i)[j] = IF j <= i - 1 THEN a[j] ELSE b[j - (i - 1)]
    BY <1>1, <1>2, <1>3, <1>4, <1>5
  <2>2. CASE j < i
    BY <2>1, <2>2, <1>1, <1>2
  <2>3. CASE j >= i
    <3>1. j - (i - 1) \in 1 .. Len(l) - i /\ i + (j - (i - 1)) = j + 1
      BY <2>3, <1>1
    <3>2. b[j - (i - 1)] = l[i + (j - (i - 1))]
      BY <3>1, <1>3
    <3>. QED  BY <2>1, <2>3, <3>1, <3>2, <1>1
  <2>. QED  BY <2>2, <2>3, <1>1
<1>. QED  BY <1>4, <1>5, <1>6, <1>7

\* LIST_REMOVE() takes out the element, and only it, and keeps the order.
LEMMA ListRemoveProperties ==
  ASSUME NEW S, NEW l \in Seq(S), IsInjective(l), NEW e, Contains(l, e)
  PROVE  /\ LIST_REMOVE(l, e) \in Seq(S)
         /\ IsInjective(LIST_REMOVE(l, e))
         /\ \A d : Contains(LIST_REMOVE(l, e), d) <=> Contains(l, d) /\ d # e
         /\ \A c, d : /\ c # e /\ d # e /\ Contains(l, c) /\ Contains(l, d)
                      /\ IndexOf(l, c) <= IndexOf(l, d)
                      => IndexOf(LIST_REMOVE(l, e), c) <= IndexOf(LIST_REMOVE(l, e), d)
<1>. DEFINE k == IndexOf(l, e)
            r == LIST_REMOVE(l, e)
<1>1. k \in 1 .. Len(l) /\ l[k] = e
  BY IndexOfProperties
<1>2. /\ r \in Seq(S) /\ Len(r) = Len(l) - 1
      /\ \A j \in 1 .. Len(l) - 1 : r[j] = IF j < k THEN l[j] ELSE l[j + 1]
  BY Zenon, <1>1, RemoveAtProperties DEF LIST_REMOVE
<1>. HIDE DEF k, r
<1>3. Len(l) \in Nat /\ DOMAIN l = 1 .. Len(l) /\ DOMAIN r = 1 .. Len(l) - 1
  BY <1>2, LenProperties
<1>4. \A i, j \in 1 .. Len(l) : l[i] = l[j] => i = j
  BY <1>3 DEF IsInjective
<1>5. IsInjective(r)
  <2>1. SUFFICES ASSUME NEW i \in 1 .. Len(l) - 1, NEW j \in 1 .. Len(l) - 1, r[i] = r[j]
                 PROVE  i = j
    BY <1>3 DEF IsInjective
  <2>. QED  BY <2>1, <1>1, <1>2, <1>3, <1>4
<1>6. ASSUME NEW d, Contains(l, d), d # e
      PROVE  /\ Contains(r, d)
             /\ IndexOf(r, d) = IF IndexOf(l, d) < k THEN IndexOf(l, d) ELSE IndexOf(l, d) - 1
             /\ IndexOf(l, d) # k /\ IndexOf(l, d) \in 1 .. Len(l)
  <2>. DEFINE n == IndexOf(l, d)
              m == IF n < k THEN n ELSE n - 1
  <2>1. n \in 1 .. Len(l) /\ l[n] = d
    BY <1>6, IndexOfProperties
  <2>. HIDE DEF n
  <2>2. n # k
    BY <2>1, <1>1, <1>6
  <2>3. m \in 1 .. Len(l) - 1 /\ r[m] = d
    BY <2>1, <2>2, <1>1, <1>2, <1>3
  <2>. HIDE DEF m
  <2>4. Contains(r, d)
    BY <2>3, <1>2 DEF Contains
  <2>5. IndexOf(r, d) = m
    BY <2>3, <1>2, <1>5, IndexOfUnique
  <2>. QED  BY <2>1, <2>2, <2>4, <2>5 DEF n, m
<1>7. ASSUME NEW d, Contains(r, d)
      PROVE  Contains(l, d) /\ d # e
  <2>1. PICK j \in 1 .. Len(l) - 1 : r[j] = d
    BY <1>7, <1>2 DEF Contains
  <2>2. PICK i \in 1 .. Len(l) : l[i] = d /\ i # k
    BY <2>1, <1>1, <1>2, <1>3
  <2>. QED  BY <2>2, <1>1, <1>4 DEF Contains
<1>8. ASSUME NEW c, NEW d, c # e, d # e, Contains(l, c), Contains(l, d),
             IndexOf(l, c) <= IndexOf(l, d)
      PROVE  IndexOf(r, c) <= IndexOf(r, d)
  <2>. DEFINE ic == IndexOf(l, c)
              id == IndexOf(l, d)
  <2>1. ic # k /\ ic \in 1 .. Len(l) /\ IndexOf(r, c) = IF ic < k THEN ic ELSE ic - 1
    BY <1>6, <1>8
  <2>2. id # k /\ id \in 1 .. Len(l) /\ IndexOf(r, d) = IF id < k THEN id ELSE id - 1
    BY <1>6, <1>8
  <2>3. ic <= id
    BY <1>8
  <2>. HIDE DEF ic, id
  <2>. QED  BY <2>1, <2>2, <2>3, <1>1, <1>3
<1>. QED  BY <1>2, <1>5, <1>6, <1>7, <1>8 DEF r

\* LIST_INSERT_HEAD() puts a new element before all others, in their order.
LEMMA ListInsertProperties ==
  ASSUME NEW S, NEW l \in Seq(S), IsInjective(l), NEW e \in S, ~ Contains(l, e)
  PROVE  /\ LIST_INSERT_HEAD(l, e) \in Seq(S)
         /\ IsInjective(LIST_INSERT_HEAD(l, e))
         /\ \A d : Contains(LIST_INSERT_HEAD(l, e), d) <=> Contains(l, d) \/ d = e
         /\ \A d : Contains(l, d) => IndexOf(LIST_INSERT_HEAD(l, e), d) = IndexOf(l, d) + 1
         /\ IndexOf(LIST_INSERT_HEAD(l, e), e) = 1
<1>. DEFINE r == LIST_INSERT_HEAD(l, e)
<1>1. /\ r \in Seq(S) /\ Len(r) = Len(l) + 1 /\ r[1] = e
      /\ \A j \in 1 .. Len(l) : r[j + 1] = l[j]
  <2>1. <<e>> \in Seq(S) /\ Len(<<e>>) = 1 /\ <<e>>[1] = e
    OBVIOUS
  <2>2. /\ <<e>> \o l \in Seq(S)
        /\ Len(<<e>> \o l) = Len(<<e>>) + Len(l)
        /\ \A i \in 1 .. Len(<<e>>) + Len(l) :
             (<<e>> \o l)[i] = IF i <= Len(<<e>>) THEN <<e>>[i] ELSE l[i - Len(<<e>>)]
    BY <2>1, ConcatProperties
  <2>3. Len(l) \in Nat
    BY LenProperties
  <2>. QED  BY <2>1, <2>2, <2>3 DEF LIST_INSERT_HEAD
<1>. HIDE DEF r
<1>2. Len(l) \in Nat /\ DOMAIN l = 1 .. Len(l) /\ DOMAIN r = 1 .. Len(l) + 1
  BY <1>1, LenProperties
<1>3. \A j \in 2 .. Len(l) + 1 : j - 1 \in 1 .. Len(l) /\ r[j] = l[j - 1]
  BY <1>1, <1>2
<1>4. \A j \in 1 .. Len(l) : l[j] # e
  BY DEF Contains
<1>5. IsInjective(r)
  <2>1. SUFFICES ASSUME NEW i \in 1 .. Len(l) + 1, NEW j \in 1 .. Len(l) + 1, r[i] = r[j]
                 PROVE  i = j
    BY <1>2 DEF IsInjective
  <2>2. \A n, m \in 1 .. Len(l) : l[n] = l[m] => n = m
    BY <1>2 DEF IsInjective
  <2>. QED  BY <2>1, <2>2, <1>1, <1>2, <1>3, <1>4
<1>6. IndexOf(r, e) = 1 /\ Contains(r, e)
  BY <1>1, <1>2, <1>5, IndexOfUnique DEF Contains
<1>7. ASSUME NEW d, Contains(l, d)
      PROVE  Contains(r, d) /\ IndexOf(r, d) = IndexOf(l, d) + 1
  <2>1. IndexOf(l, d) \in 1 .. Len(l) /\ l[IndexOf(l, d)] = d
    BY <1>7, IndexOfProperties
  <2>2. r[IndexOf(l, d) + 1] = d /\ IndexOf(l, d) + 1 \in 1 .. Len(r)
    BY <2>1, <1>1, <1>2
  <2>. QED  BY <2>2, <1>1, <1>5, IndexOfUnique DEF Contains
<1>8. ASSUME NEW d, Contains(r, d)
      PROVE  Contains(l, d) \/ d = e
  BY <1>8, <1>1, <1>2, <1>3 DEF Contains
<1>. QED  BY <1>1, <1>5, <1>6, <1>7, <1>8 DEF r

\* LIST_NEXT() is the element that follows, NULL at the end: what comes after
\* an element comes at or after its LIST_NEXT().
LEMMA ListNextProperties ==
  ASSUME NEW S, NEW l \in Seq(S), IsInjective(l), NEW e, Contains(l, e), NULL \notin S
  PROVE  /\ LIST_NEXT(l, e) \in S \cup {NULL}
         /\ LIST_NEXT(l, e) # NULL => Contains(l, LIST_NEXT(l, e)) /\ LIST_NEXT(l, e) # e
         /\ \A d : /\ Contains(l, d) /\ d # e /\ IndexOf(l, e) <= IndexOf(l, d)
                   => /\ LIST_NEXT(l, e) # NULL
                      /\ IndexOf(l, LIST_NEXT(l, e)) <= IndexOf(l, d)
<1>. DEFINE k == IndexOf(l, e)
<1>1. k \in 1 .. Len(l) /\ l[k] = e /\ Len(l) \in Nat /\ DOMAIN l = 1 .. Len(l)
  BY IndexOfProperties, LenProperties
<1>2. ASSUME k # Len(l)
      PROVE  /\ LIST_NEXT(l, e) = l[k + 1] /\ l[k + 1] \in S /\ k + 1 \in 1 .. Len(l)
             /\ IndexOf(l, LIST_NEXT(l, e)) = k + 1 /\ Contains(l, LIST_NEXT(l, e))
             /\ l[k + 1] # e
  <2>1. k + 1 \in 1 .. Len(l) /\ LIST_NEXT(l, e) = l[k + 1]
    BY <1>1, <1>2 DEF LIST_NEXT
  <2>2. IndexOf(l, l[k + 1]) = k + 1
    BY <2>1, IndexOfUnique
  <2>3. l[k + 1] # e
    BY <2>1, <2>2, <1>1
  <2>. QED  BY <2>1, <2>2, <2>3, ElementOfSeq DEF Contains
<1>3. k = Len(l) => LIST_NEXT(l, e) = NULL
  BY DEF LIST_NEXT
<1>4. ASSUME NEW d, Contains(l, d), d # e, k <= IndexOf(l, d)
      PROVE  k # Len(l) /\ k + 1 <= IndexOf(l, d)
  <2>1. IndexOf(l, d) \in 1 .. Len(l) /\ l[IndexOf(l, d)] = d
    BY <1>4, IndexOfProperties
  <2>. QED  BY <2>1, <1>1, <1>4
<1>. QED  BY <1>1, <1>2, <1>3, <1>4

\* LIST_FIRST() is NULL on an empty list and otherwise before all elements.
LEMMA ListFirstProperties ==
  ASSUME NEW S, NEW l \in Seq(S), IsInjective(l), NULL \notin S
  PROVE  /\ LIST_FIRST(l) \in S \cup {NULL}
         /\ LIST_FIRST(l) # NULL => Contains(l, LIST_FIRST(l))
         /\ \A d : Contains(l, d) => /\ LIST_FIRST(l) # NULL
                                     /\ IndexOf(l, LIST_FIRST(l)) <= IndexOf(l, d)
<1>1. CASE l = <<>>
  BY <1>1 DEF LIST_FIRST, Contains
<1>2. CASE l # <<>>
  <2>1. Len(l) \in Nat /\ 1 \in 1 .. Len(l) /\ LIST_FIRST(l) = l[1] /\ l[1] \in S
    BY <1>2, LenProperties, EmptySeq, ElementOfSeq DEF LIST_FIRST
  <2>2. IndexOf(l, l[1]) = 1 /\ Contains(l, l[1])
    BY <2>1, IndexOfUnique DEF Contains
  <2>3. \A d : Contains(l, d) => IndexOf(l, d) \in 1 .. Len(l)
    BY IndexOfProperties
  <2>. QED  BY <2>1, <2>2, <2>3
<1>. QED  BY <1>1, <1>2

\* Taking the head of a list, as SLIST_REMOVE_HEAD() does.
LEMMA ListTailProperties ==
  ASSUME NEW S, NEW l \in Seq(S), IsInjective(l), l # <<>>
  PROVE  /\ Head(l) \in S /\ Contains(l, Head(l))
         /\ Tail(l) \in Seq(S)
         /\ IsInjective(Tail(l))
         /\ \A d : Contains(Tail(l), d) <=> Contains(l, d) /\ d # Head(l)
<1>1. /\ Head(l) \in S /\ Tail(l) \in Seq(S) /\ Len(Tail(l)) = Len(l) - 1
      /\ \A i \in 1 .. Len(Tail(l)) : Tail(l)[i] = l[i + 1]
  BY HeadTailProperties
<1>2. Len(l) \in Nat \ {0} /\ DOMAIN l = 1 .. Len(l) /\ Head(l) = l[1]
      /\ DOMAIN Tail(l) = 1 .. Len(l) - 1
  BY <1>1, LenProperties, EmptySeq
<1>3. \A i, j \in 1 .. Len(l) : l[i] = l[j] => i = j
  BY <1>2 DEF IsInjective
<1>4. IsInjective(Tail(l))
  BY <1>1, <1>2, <1>3 DEF IsInjective
<1>5. ASSUME NEW d, Contains(Tail(l), d)
      PROVE  Contains(l, d) /\ d # Head(l)
  BY <1>5, <1>1, <1>2, <1>3 DEF Contains
<1>6. ASSUME NEW d, Contains(l, d), d # Head(l)
      PROVE  Contains(Tail(l), d)
  <2>1. PICK i \in 1 .. Len(l) : l[i] = d
    BY <1>6 DEF Contains
  <2>2. i - 1 \in 1 .. Len(Tail(l)) /\ Tail(l)[i - 1] = d
    BY <2>1, <1>1, <1>2, <1>6
  <2>. QED  BY <2>2 DEF Contains
<1>7. Contains(l, Head(l))
  BY <1>2 DEF Contains
<1>. QED  BY <1>1, <1>4, <1>5, <1>6, <1>7

=============================================================================
