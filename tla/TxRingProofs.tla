---------------------------- MODULE TxRingProofs ----------------------------
(***************************************************************************)
(* Proof that nic_tx_ring frees no chain that the port still has to        *)
(* transmit, for every number of chains, segments and packets of a burst,  *)
(* when it is as long as the ring of the port and every packet has a chain.*)
(***************************************************************************)
EXTENDS TxRing, TLAPS

\* The places that a packet which was taken will get, if both rings are in step.
Places(k) == Span(taken[k].at, taken[k].nb_segs, Size)

\* The chain of each packet is its own, and its data is there or in DPDK memory.
Own(q) == \A i \in DOMAIN q : q[i].m \in Chains /\ q[i].data \in {q[i].m, Other}

\* A chain has one owner.
Sole ==
  /\ free \cap held = {}
  /\ Own(tx_mbufs) /\ Own(taken)
  /\ \A i \in DOMAIN tx_mbufs : tx_mbufs[i].m \notin free \cup held
  /\ \A i \in DOMAIN taken : taken[i].m \notin free \cup held
  /\ \A i, j \in DOMAIN tx_mbufs : tx_mbufs[i].m = tx_mbufs[j].m => i = j
  /\ \A i, j \in DOMAIN taken : taken[i].m = taken[j].m => i = j
  /\ \A i \in DOMAIN tx_mbufs, j \in DOMAIN taken : tx_mbufs[i].m # taken[j].m
  /\ \A i \in Slots : m_table[i] # NULL =>
       /\ m_table[i] \notin free \cup held
       /\ \A j \in DOMAIN tx_mbufs : m_table[i] # tx_mbufs[j].m
       /\ \A j \in DOMAIN taken : m_table[i] # taken[j].m
       /\ \A j \in Slots : m_table[i] = m_table[j] => i = j

\* The ring follows the port.
InStep ==
  /\ head = IF taken = <<>> THEN tail ELSE taken[1].at
  /\ \A k \in 1 .. Len(taken) :
       (taken[k].at + taken[k].nb_segs) % Size = IF k = Len(taken) THEN tail ELSE taken[k + 1].at

\* What the port still has to transmit.
Covered ==
  /\ \A d \in Descs : desc[d] \in Chains =>
       (\E k \in DOMAIN taken : desc[d] = taken[k].m) \/ (\E i \in Slots : desc[d] = m_table[i])
  /\ \A k \in DOMAIN taken, d \in Descs : desc[d] = taken[k].m =>
       \A i \in Places(k) : desc[i] = taken[k].m
  /\ \A i \in Slots, d \in Descs : m_table[i] # NULL /\ desc[d] = m_table[i] => desc[i] = m_table[i]
  /\ \A k \in DOMAIN taken : \A i \in Places(k) :
       desc[i] \in Chains => \E j \in DOMAIN taken : j >= k /\ desc[i] = taken[j].m

IInv == TypeOK /\ Sole /\ InStep /\ Covered

-----------------------------------------------------------------------------
(* Positions.                                                              *)

\* A position taken modulo the length of the ring is a place of the ring.
LEMMA ModPlace ==
  ASSUME NEW a \in Nat
  PROVE  a % Size \in Slots
  BY TxRingAssumption DEF Slots

\* Span() stays in the ring and contains the last place that is used.
LEMMA SpanPlaces ==
  ASSUME NEW at \in Slots, NEW n \in 1 .. MaxSegs
  PROVE  /\ Span(at, n, Size) \subseteq Slots
         /\ (at + n - 1) % Size \in Span(at, n, Size)
         /\ (at + n) % Size \in Slots
<1>1. at \in Nat /\ n \in Nat /\ n >= 1
  BY TxRingAssumption DEF Slots
<1>2. \A k \in 0 .. n - 1 : (at + k) % Size \in Slots
  <2> TAKE k \in 0 .. n - 1
  <2>1. at + k \in Nat
    BY <1>1
  <2> QED BY <2>1, ModPlace
<1>3. (at + n - 1) % Size \in Span(at, n, Size)
  <2>1. n - 1 \in 0 .. n - 1 /\ at + (n - 1) = at + n - 1
    BY <1>1
  <2> QED BY <2>1 DEF Span
<1>4. (at + n) % Size \in Slots
  BY <1>1, ModPlace
<1> QED BY <1>2, <1>3, <1>4 DEF Span

-----------------------------------------------------------------------------
(* The invariant holds initially, and every step preserves it.             *)

\* Nothing is allocated yet, and both rings start at 0.
LEMMA InitInv ==
  ASSUME NicSize = Size, Init
  PROVE  IInv
<1> USE TxRingAssumption DEF Init
<1>1. TypeOK
  BY DEF TypeOK, Slots, Descs
<1>2. Sole
  BY DEF Sole, Own, Slots
<1>3. InStep
  BY DEF InStep
<1>4. Covered
  BY DEF Covered, Descs, Slots
<1> QED BY <1>1, <1>2, <1>3, <1>4 DEF IInv

\* Steps of the stack that move a chain between free and held.
LEMMA StackInv ==
  ASSUME IInv, NEW m \in Chains, m_get(m) \/ m_freem(m)
  PROVE  IInv'
<1> USE DEF IInv, m_get, m_freem
<1>1. TypeOK'
  BY DEF TypeOK
<1>2. Sole'
  BY DEF Sole, Own
<1>3. InStep'
  BY DEF InStep
<1>4. Covered'
  BY DEF Covered, Places, Span
<1> QED BY <1>1, <1>2, <1>3, <1>4

\* A chain that the stack held waits for the next burst.
LEMMA SendInv ==
  ASSUME IInv, NEW m \in Chains, NEW data \in {m, Other}, NEW n \in 1 .. MaxSegs,
         ff_dpdk_if_send(m, data, n)
  PROVE  IInv'
<1> DEFINE p == [data |-> data, m |-> m, nb_segs |-> n]
<1> USE DEF IInv
<1>0. /\ p \in Packet /\ tx_mbufs \in Seq(Packet)
      /\ tx_mbufs' = Append(tx_mbufs, p)
      /\ Len(tx_mbufs) \in Nat
      /\ DOMAIN tx_mbufs = 1 .. Len(tx_mbufs)
  BY DEF ff_dpdk_if_send, TypeOK, Packet
<1>01. /\ DOMAIN tx_mbufs' = 1 .. Len(tx_mbufs) + 1
       /\ \A i \in 1 .. Len(tx_mbufs) : tx_mbufs'[i] = tx_mbufs[i]
       /\ tx_mbufs'[Len(tx_mbufs) + 1] = p
       /\ tx_mbufs' \in Seq(Packet) /\ Len(tx_mbufs') = Len(tx_mbufs) + 1
  BY <1>0
<1>1. TypeOK'
  <2>1. Len(tx_mbufs) < Burst
    BY DEF TypeOK, ff_dpdk_if_send
  <2> QED BY <1>0, <1>01, <2>1, TxRingAssumption DEF TypeOK, ff_dpdk_if_send
<1>2. Sole'
  <2>1. p.m = m /\ p.data = data
    OBVIOUS
  <2> HIDE DEF p
  <2> QED BY <1>0, <1>01, <2>1 DEF Sole, Own, ff_dpdk_if_send
<1>3. InStep'
  BY DEF InStep, ff_dpdk_if_send
<1>4. Covered'
  BY DEF Covered, Places, Span, ff_dpdk_if_send
<1> QED BY <1>1, <1>2, <1>3, <1>4

\* Steps that forget or free the packets that wait.
LEMMA ClearInv ==
  ASSUME IInv, (\E m \in Chains : ff_dpdk_if_send_fails(m)) \/ send_burst_ends
  PROVE  IInv'
<1> USE DEF IInv, ff_dpdk_if_send_fails, send_burst_ends
<1>0. tx_mbufs' = <<>> /\ UNCHANGED <<taken, m_table, head, desc, tail>>
  OBVIOUS
<1>1. TypeOK'
  <2>0. \A i \in DOMAIN tx_mbufs : tx_mbufs[i].m \in Chains
    BY DEF Sole, Own
  <2>1. free' \subseteq Chains /\ held' \subseteq Chains
    BY <2>0 DEF TypeOK
  <2>2. tx_mbufs' \in Seq(Packet) /\ Len(tx_mbufs') < Burst
    BY <1>0, TxRingAssumption
  <2>3. bsd_m_table' = bsd_m_table /\ pc' \in {"idle", "tx", "ring"}
    BY DEF TypeOK
  <2> QED BY <1>0, <2>1, <2>2, <2>3 DEF TypeOK
<1>2. Sole'
  <2>1. CASE \E m \in Chains : ff_dpdk_if_send_fails(m)
    BY <2>1 DEF Sole, Own
  <2>2. CASE send_burst_ends
    <3>1. taken = <<>> /\ DOMAIN taken = {} /\ DOMAIN tx_mbufs' = {} /\ DOMAIN taken' = {}
      BY <2>2
    <3>2. free' \cap held' = {}
      BY <2>2 DEF Sole
    <3>3. \A i \in Slots : m_table[i] # NULL => m_table[i] \notin free'
      BY <2>2 DEF Sole
    <3> QED BY <2>2, <3>1, <3>2, <3>3 DEF Sole, Own
  <2> QED BY <2>1, <2>2
<1>3. InStep'
  BY <1>0 DEF InStep
<1>4. Covered'
  BY <1>0 DEF Covered, Places, Span
<1> QED BY <1>1, <1>2, <1>3, <1>4

\* Steps that only move pc.
LEMMA PcInv ==
  ASSUME IInv, drain \/ rte_eth_tx_burst_returns
  PROVE  IInv'
<1> USE DEF IInv, drain, rte_eth_tx_burst_returns
<1>1. TypeOK'
  BY DEF TypeOK
<1>2. Sole'
  BY DEF Sole, Own
<1>3. InStep'
  BY DEF InStep
<1>4. Covered'
  BY DEF Covered, Places, Span
<1> QED BY <1>1, <1>2, <1>3, <1>4

\* The port transmits: fewer descriptors refer to a chain.
LEMMA TransmitInv ==
  ASSUME IInv, (\E m \in Chains : transmits(m)) \/ (\E i \in Descs : transmits_other(i)),
         NicSize = Size
  PROVE  IInv'
<1> USE DEF IInv
<1>0. /\ UNCHANGED <<free, held, tx_mbufs, bsd_m_table, taken, m_table, head, tail, pc, again>>
      /\ desc' \in [Descs -> Chains \cup {NULL, Other}]
  BY DEF transmits, transmits_other, TypeOK
<1>1. /\ \A d \in Descs : desc'[d] = desc[d] \/ desc'[d] = NULL
      /\ \A c \in Chains : \/ \A d \in Descs : desc'[d] # c
                           \/ \A d \in Descs : desc[d] = c => desc'[d] = c
  <2>1. CASE \E m \in Chains : transmits(m)
    BY <2>1, TxRingAssumption DEF transmits, TypeOK
  <2>2. CASE \E i \in Descs : transmits_other(i)
    BY <2>2, TxRingAssumption DEF transmits_other, TypeOK
  <2> QED BY <2>1, <2>2
<1>2. TypeOK'
  BY <1>0 DEF TypeOK
<1>3. Sole'
  BY <1>0 DEF Sole, Own
<1>4. InStep'
  BY <1>0 DEF InStep
<1>5. \A k \in DOMAIN taken : taken[k].m \in Chains /\ Places(k) \subseteq Descs /\ Places(k)' = Places(k)
  <2> TAKE k \in DOMAIN taken
  <2>1. taken[k] \in Taken
    BY DEF TypeOK
  <2>2. taken[k].at \in Slots /\ taken[k].nb_segs \in 1 .. MaxSegs
    BY <2>1 DEF Taken, Descs, Slots
  <2>3. Places(k) \subseteq Descs
    BY <2>2, SpanPlaces DEF Places, Descs, Slots
  <2> QED BY <1>0, <2>3 DEF Places, Sole, Own
<1>6. Covered'
  <2>1. \A d \in Descs : desc'[d] \in Chains =>
          (\E k \in DOMAIN taken' : desc'[d] = taken'[k].m) \/ (\E i \in Slots : desc'[d] = m_table'[i])
    BY <1>0, <1>1, TxRingAssumption DEF Covered
  <2>2. \A k \in DOMAIN taken', d \in Descs : desc'[d] = taken'[k].m =>
          \A i \in Places(k)' : desc'[i] = taken'[k].m
    BY <1>0, <1>1, <1>5, TxRingAssumption DEF Covered
  <2>3. \A i \in Slots, d \in Descs :
          m_table'[i] # NULL /\ desc'[d] = m_table'[i] => desc'[i] = m_table'[i]
    <3>1. \A i \in Slots : i \in Descs /\ (m_table[i] # NULL => m_table[i] \in Chains)
      BY DEF TypeOK, Slots, Descs
    <3>2. \A i \in Slots, d \in Descs :
            m_table[i] # NULL /\ desc[d] = m_table[i] => desc[i] = m_table[i]
      BY DEF Covered
    <3> QED BY <1>0, <1>1, <3>1, <3>2
  <2>4. \A k \in DOMAIN taken' : \A i \in Places(k)' :
          desc'[i] \in Chains => \E j \in DOMAIN taken' : j >= k /\ desc'[i] = taken'[j].m
    BY <1>0, <1>1, <1>5, TxRingAssumption DEF Covered
  <2> QED BY <2>1, <2>2, <2>3, <2>4 DEF Covered
<1> QED BY <1>2, <1>3, <1>4, <1>6

-----------------------------------------------------------------------------
\* The port takes a packet: its descriptors were done with, so no chain that is
\* in flight is covered up.
LEMMA TakeInv ==
  ASSUME IInv, rte_eth_tx_burst, NicSize = Size
  PROVE  IInv'
<1> DEFINE p == tx_mbufs[1]
           used == Span(tail, p.nb_segs, Size)
           t == [data |-> p.data, m |-> p.m, nb_segs |-> p.nb_segs, at |-> tail]
<1> USE DEF IInv
<1>0. PICK N \in Nat : N = Len(taken)
  BY DEF TypeOK
<1>1. /\ tx_mbufs # <<>> /\ tx_mbufs \in Seq(Packet) /\ taken \in Seq(Taken)
      /\ 1 \in DOMAIN tx_mbufs /\ p \in Packet
      /\ N \in Nat /\ DOMAIN taken = 1 .. N
  BY <1>0 DEF rte_eth_tx_burst, TypeOK
<1>2. /\ p.m \in Chains /\ p.data \in {p.m, Other} /\ p.nb_segs \in 1 .. MaxSegs
      /\ tail \in Slots /\ Slots = Descs
  BY <1>1 DEF Packet, Sole, Own, TypeOK, Slots, Descs
<1>3. used \subseteq Slots /\ (tail + p.nb_segs) % Size \in Slots
  BY <1>2, SpanPlaces
<1>4. /\ \A i \in used : desc[i] = NULL
      /\ desc' = [i \in Descs |-> IF i \in used THEN p.data ELSE desc[i]]
      /\ tail' = (tail + p.nb_segs) % Size
      /\ taken' = Append(taken, t)
      /\ tx_mbufs' = Tail(tx_mbufs)
      /\ UNCHANGED <<free, held, bsd_m_table, m_table, head, pc, again>>
      /\ pc = "tx"
  BY DEF rte_eth_tx_burst
<1>5. /\ t.m = p.m /\ t.data = p.data /\ t.nb_segs = p.nb_segs /\ t.at = tail
      /\ t \in Taken
  BY <1>2, TxRingAssumption DEF Taken
<1>6. /\ DOMAIN taken' = 1 .. N + 1 /\ Len(taken') = N + 1
      /\ \A k \in 1 .. N : taken'[k] = taken[k]
      /\ taken'[N + 1] = t
      /\ taken' \in Seq(Taken)
  BY <1>0, <1>1, <1>4, <1>5
<1>7. /\ DOMAIN tx_mbufs' = 1 .. Len(tx_mbufs) - 1
      /\ \A i \in DOMAIN tx_mbufs' : i + 1 \in DOMAIN tx_mbufs /\ tx_mbufs'[i] = tx_mbufs[i + 1]
      /\ tx_mbufs' \in Seq(Packet)
      /\ DOMAIN tx_mbufs = 1 .. Len(tx_mbufs) /\ Len(tx_mbufs) \in Nat
  BY <1>1, <1>4
<1>8. /\ Places(N + 1)' = used
      /\ \A k \in 1 .. N : Places(k)' = Places(k) /\ Places(k) \subseteq Descs
  <2>1. Places(N + 1)' = used
    BY <1>5, <1>6 DEF Places
  <2>2. ASSUME NEW k \in 1 .. N
        PROVE  Places(k)' = Places(k) /\ Places(k) \subseteq Descs
    <3>1. taken[k] \in Taken
      BY <1>1
    <3>2. taken[k].at \in Slots /\ taken[k].nb_segs \in 1 .. MaxSegs
      BY <1>2, <3>1 DEF Taken
    <3> QED BY <1>2, <1>6, <3>2, SpanPlaces DEF Places
  <2> QED BY <2>1, <2>2
<1> HIDE DEF p, used, t
\* The chain is new to the ring and to the descriptors.
<1>9. /\ \A i \in 1 .. N : taken[i].m # p.m
      /\ \A i \in Slots : m_table[i] # p.m
      /\ \A d \in Descs : desc[d] # p.m
  <2>1. \A i \in 1 .. N : taken[i].m # p.m
    BY <1>1 DEF Sole, p
  <2>2. \A i \in Slots : m_table[i] # p.m
    BY <1>1, <1>2, TxRingAssumption DEF Sole, p
  <2>3. \A d \in Descs : desc[d] # p.m
    BY <1>1, <1>2, <2>1, <2>2 DEF Covered
  <2> QED BY <2>1, <2>2, <2>3
<1>10. TypeOK'
  <2>1. desc' \in [Descs -> Chains \cup {NULL, Other}]
    BY <1>2, <1>4 DEF TypeOK
  <2> QED BY <1>2, <1>3, <1>4, <1>6, <1>7, <2>1 DEF TypeOK
<1>11. Sole'
  <2>1. Own(tx_mbufs)' /\ Own(taken)'
    BY <1>1, <1>2, <1>5, <1>6, <1>7 DEF Sole, Own
  <2>2. \A i \in DOMAIN tx_mbufs' : tx_mbufs'[i].m \notin free' \cup held'
    BY <1>4, <1>7 DEF Sole
  <2>3. \A i \in DOMAIN taken' : taken'[i].m \notin free' \cup held'
    BY <1>1, <1>4, <1>5, <1>6 DEF Sole, p
  <2>4. \A i, j \in DOMAIN tx_mbufs' : tx_mbufs'[i].m = tx_mbufs'[j].m => i = j
    BY <1>7 DEF Sole
  <2>5. \A i, j \in DOMAIN taken' : taken'[i].m = taken'[j].m => i = j
    BY <1>1, <1>5, <1>6, <1>9 DEF Sole
  <2>6. \A i \in DOMAIN tx_mbufs', j \in DOMAIN taken' : tx_mbufs'[i].m # taken'[j].m
    <3>1. \A i \in DOMAIN tx_mbufs' : tx_mbufs'[i].m # p.m
      BY <1>1, <1>7 DEF Sole, p
    <3>2. \A i \in DOMAIN tx_mbufs' : \A j \in 1 .. N : tx_mbufs'[i].m # taken[j].m
      BY <1>1, <1>7 DEF Sole
    <3> QED BY <1>5, <1>6, <3>1, <3>2
  <2>7. \A i \in Slots : m_table'[i] # NULL =>
          /\ m_table'[i] \notin free' \cup held'
          /\ \A j \in DOMAIN tx_mbufs' : m_table'[i] # tx_mbufs'[j].m
          /\ \A j \in DOMAIN taken' : m_table'[i] # taken'[j].m
          /\ \A j \in Slots : m_table'[i] = m_table'[j] => i = j
    BY <1>1, <1>4, <1>5, <1>6, <1>7, <1>9 DEF Sole
  <2> QED BY <1>4, <2>1, <2>2, <2>3, <2>4, <2>5, <2>6, <2>7 DEF Sole
<1>12. InStep'
  <2>1. head' = IF taken' = <<>> THEN tail' ELSE taken'[1].at
    <3>1. taken' # <<>>
      BY <1>1, <1>6
    <3>2. CASE taken = <<>>
      <4>1. N = 0
        BY <1>0, <3>2
      <4> QED BY <1>4, <1>5, <1>6, <3>1, <3>2, <4>1 DEF InStep
    <3>3. CASE taken # <<>>
      <4>1. 1 \in 1 .. N
        BY <1>0, <1>1, <3>3
      <4> QED BY <1>4, <1>6, <3>1, <3>3, <4>1 DEF InStep
    <3> QED BY <3>2, <3>3
  <2>2. ASSUME NEW k \in 1 .. N + 1
        PROVE  (taken'[k].at + taken'[k].nb_segs) % Size
                 = IF k = N + 1 THEN tail' ELSE taken'[k + 1].at
    <3>1. CASE k = N + 1
      BY <1>4, <1>5, <1>6, <3>1
    <3>2. CASE k = N
      BY <1>0, <1>1, <1>5, <1>6, <3>2 DEF InStep
    <3>3. CASE k < N
      <4>1. k \in 1 .. N /\ k + 1 \in 1 .. N /\ k # N /\ k # N + 1
        BY <1>1, <3>3
      <4> QED BY <1>0, <1>6, <4>1 DEF InStep
    <3> QED BY <1>1, <3>1, <3>2, <3>3
  <2> QED BY <1>6, <2>1, <2>2 DEF InStep
<1>13. Covered'
  <2>1. \A d \in Descs : desc'[d] \in Chains =>
          (\E k \in DOMAIN taken' : desc'[d] = taken'[k].m) \/ (\E i \in Slots : desc'[d] = m_table'[i])
    <3> SUFFICES ASSUME NEW d \in Descs, desc'[d] \in Chains
                 PROVE  (\E k \in DOMAIN taken' : desc'[d] = taken'[k].m)
                          \/ (\E i \in Slots : desc'[d] = m_table'[i])
      OBVIOUS
    <3>1. CASE d \in used
      <4>1. desc'[d] = p.m
        BY <1>2, <1>4, <3>1, TxRingAssumption
      <4>2. N + 1 \in DOMAIN taken' /\ taken'[N + 1].m = p.m
        BY <1>5, <1>6
      <4> QED BY <4>1, <4>2
    <3>2. CASE d \notin used
      <4>1. desc'[d] = desc[d] /\ m_table' = m_table
        BY <1>4, <3>2
      <4>2. (\E k \in 1 .. N : desc[d] = taken[k].m) \/ (\E i \in Slots : desc[d] = m_table[i])
        BY <1>1, <4>1 DEF Covered
      <4>3. \A k \in 1 .. N : k \in DOMAIN taken' /\ taken'[k] = taken[k]
        BY <1>1, <1>6
      <4> QED BY <4>1, <4>2, <4>3
    <3> QED BY <3>1, <3>2
  <2>2. \A k \in DOMAIN taken', d \in Descs : desc'[d] = taken'[k].m =>
          \A i \in Places(k)' : desc'[i] = taken'[k].m
    <3> SUFFICES ASSUME NEW k \in 1 .. N + 1, NEW d \in Descs, desc'[d] = taken'[k].m,
                        NEW i \in Places(k)'
                 PROVE  desc'[i] = taken'[k].m
      BY <1>6
    <3>1. CASE k = N + 1
      BY <1>2, <1>3, <1>4, <1>5, <1>6, <1>8, <1>9, <3>1, TxRingAssumption
    <3>2. CASE k \in 1 .. N
      <4>1. taken[k].m \in Chains /\ taken'[k] = taken[k] /\ taken[k].m # p.m
        BY <1>1, <1>6, <1>9, <3>2 DEF Sole, Own
      <4>2. desc[d] = taken[k].m
        BY <1>2, <1>4, <4>1, TxRingAssumption
      <4>3. i \in Descs /\ desc[i] = taken[k].m
        BY <1>1, <1>8, <3>2, <4>2 DEF Covered
      <4> QED BY <1>4, <4>1, <4>3, TxRingAssumption
    <3> QED BY <1>1, <3>1, <3>2
  <2>3. \A i \in Slots, d \in Descs :
          m_table'[i] # NULL /\ desc'[d] = m_table'[i] => desc'[i] = m_table'[i]
    <3> SUFFICES ASSUME NEW i \in Slots, NEW d \in Descs, m_table[i] # NULL, desc'[d] = m_table[i]
                 PROVE  desc'[i] = m_table[i]
      BY <1>4
    <3>1. m_table[i] \in Chains /\ m_table[i] # p.m
      BY <1>9 DEF TypeOK
    <3>2. desc[d] = m_table[i]
      BY <1>2, <1>4, <3>1, TxRingAssumption
    <3>3. desc[i] = m_table[i]
      BY <3>2 DEF Covered
    <3> QED BY <1>2, <1>4, <3>1, <3>3
  <2>4. \A k \in DOMAIN taken' : \A i \in Places(k)' :
          desc'[i] \in Chains => \E j \in DOMAIN taken' : j >= k /\ desc'[i] = taken'[j].m
    <3> SUFFICES ASSUME NEW k \in 1 .. N + 1, NEW i \in Places(k)', desc'[i] \in Chains
                 PROVE  \E j \in 1 .. N + 1 : j >= k /\ desc'[i] = taken'[j].m
      BY <1>6
    <3>0. i \in Descs
      BY <1>1, <1>2, <1>3, <1>8
    <3>1. CASE i \in used
      <4>1. desc'[i] = p.m
        BY <1>2, <1>4, <3>0, <3>1, TxRingAssumption
      <4> QED BY <1>1, <1>5, <1>6, <4>1
    <3>2. CASE i \notin used
      <4>1. k \in 1 .. N /\ i \in Places(k)
        BY <1>1, <1>8, <3>2
      <4>2. desc'[i] = desc[i]
        BY <1>4, <3>0, <3>2
      <4>3. PICK j \in 1 .. N : j >= k /\ desc[i] = taken[j].m
        BY <1>1, <4>1, <4>2 DEF Covered
      <4> QED BY <1>1, <1>6, <4>2, <4>3
    <3> QED BY <3>1, <3>2
  <2> QED BY <2>1, <2>2, <2>3, <2>4 DEF Covered
<1> QED BY <1>10, <1>11, <1>12, <1>13

-----------------------------------------------------------------------------
\* A packet gets its places: those of its descriptors, which the port had done
\* with when it took the packet, so what is freed was transmitted.
LEMMA EnqueueInv ==
  ASSUME IInv, ff_enq_tx_bsdmbuf, NicSize = Size
  PROVE  IInv'
<1> DEFINE p == taken[1]
           used == Span(head, p.nb_segs, Size)
           last == (head + p.nb_segs - 1) % Size
           freed == {m_table[i] : i \in used} \ {NULL}
<1> USE DEF IInv
<1>0. PICK N \in Nat : N = Len(taken)
  BY DEF TypeOK
<1>1. /\ taken # <<>> /\ taken \in Seq(Taken) /\ DOMAIN taken = 1 .. N
      /\ 1 \in 1 .. N /\ p \in Taken
  BY <1>0 DEF ff_enq_tx_bsdmbuf, TypeOK
<1>2. /\ p.m \in Chains /\ p.m # NULL /\ p.nb_segs \in 1 .. MaxSegs
      /\ head = p.at /\ head \in Slots /\ Slots = Descs
  <2>1. p.m \in Chains /\ p.m # NULL
    BY <1>1, TxRingAssumption DEF Sole, Own
  <2>2. p.nb_segs \in 1 .. MaxSegs
    BY <1>1 DEF Taken
  <2>3. head \in Slots /\ Slots = Descs
    BY DEF TypeOK, Slots, Descs
  <2>4. head = p.at
    BY <1>1 DEF InStep
  <2> QED BY <2>1, <2>2, <2>3, <2>4
<1>3. used \subseteq Slots /\ last \in used /\ (head + p.nb_segs) % Size \in Slots
  BY <1>2, SpanPlaces
<1>4. /\ free' = free \cup freed
      /\ m_table' = [i \in Slots |-> IF i = last THEN p.m ELSE IF i \in used THEN NULL ELSE m_table[i]]
      /\ head' = (head + p.nb_segs) % Size
      /\ taken' = Tail(taken)
      /\ UNCHANGED <<held, tx_mbufs, bsd_m_table, desc, tail, pc, again>>
  BY <1>2 DEF ff_enq_tx_bsdmbuf, ff_txring_enqueue
<1>5. /\ DOMAIN taken' = 1 .. N - 1 /\ Len(taken') = N - 1
      /\ \A k \in 1 .. N - 1 : k + 1 \in 1 .. N /\ taken'[k] = taken[k + 1]
      /\ taken' \in Seq(Taken)
  BY <1>0, <1>1, <1>4
<1>6. \A k \in 1 .. N - 1 : Places(k)' = Places(k + 1)
  BY <1>5 DEF Places
<1>7. Places(1) = used
  BY <1>2 DEF Places
<1> HIDE DEF p, used, last, freed
<1>8. \A c \in freed : \E i \in used : i \in Slots /\ c = m_table[i] /\ c # NULL /\ c \in Chains
  BY <1>3 DEF freed, TypeOK
\* What is freed is owned by no one else, and no descriptor refers to it.
<1>9. \A c \in freed :
        /\ c \notin held
        /\ \A j \in DOMAIN tx_mbufs : c # tx_mbufs[j].m
        /\ \A j \in 1 .. N : c # taken[j].m
        /\ \A j \in Slots \ used : c # m_table[j]
        /\ \A d \in Descs : desc[d] # c
  <2> TAKE c \in freed
  <2>1. PICK i \in used : i \in Slots /\ c = m_table[i] /\ c # NULL /\ c \in Chains
    BY <1>8
  <2>2. /\ c \notin held
        /\ \A j \in DOMAIN tx_mbufs : c # tx_mbufs[j].m
        /\ \A j \in 1 .. N : c # taken[j].m
        /\ \A j \in Slots \ used : c # m_table[j]
    BY <1>1, <2>1 DEF Sole
  <2>3. ASSUME NEW d \in Descs, desc[d] = c
        PROVE  FALSE
    <3>1. desc[i] = c
      BY <2>1, <2>3 DEF Covered
    <3>2. \E j \in DOMAIN taken : desc[i] = taken[j].m
      BY <1>1, <1>7, <2>1, <3>1 DEF Covered
    <3> QED BY <1>1, <2>2, <3>1, <3>2
  <2> QED BY <2>2, <2>3
<1>10. /\ \A i \in Slots : m_table'[i] # NULL =>
            \/ i = last /\ m_table'[i] = p.m
            \/ i # last /\ i \notin used /\ m_table'[i] = m_table[i]
       /\ m_table'[last] = p.m
  BY <1>3, <1>4
<1>11. TypeOK'
  <2>1. m_table' \in [Slots -> Chains \cup {NULL}]
    BY <1>2, <1>4 DEF TypeOK
  <2>2. free' \subseteq Chains
    BY <1>4, <1>8 DEF TypeOK
  <2> QED BY <1>3, <1>4, <1>5, <2>1, <2>2 DEF TypeOK
<1>12. \A k \in 1 .. N - 1 : taken[k + 1].m # p.m
  BY <1>1, <1>5 DEF Sole, p
<1>13. Sole'
  <2>1. free' \cap held' = {}
    BY <1>4, <1>9 DEF Sole
  <2>2. Own(tx_mbufs)' /\ Own(taken)'
    BY <1>1, <1>4, <1>5 DEF Sole, Own
  <2>3. \A i \in DOMAIN tx_mbufs' : tx_mbufs'[i].m \notin free' \cup held'
    BY <1>4, <1>9 DEF Sole
  <2>4. \A i \in DOMAIN taken' : taken'[i].m \notin free' \cup held'
    BY <1>1, <1>4, <1>5, <1>9 DEF Sole
  <2>5. \A i, j \in DOMAIN tx_mbufs' : tx_mbufs'[i].m = tx_mbufs'[j].m => i = j
    BY <1>4 DEF Sole
  <2>6. \A i, j \in DOMAIN taken' : taken'[i].m = taken'[j].m => i = j
    <3> SUFFICES ASSUME NEW i \in 1 .. N - 1, NEW j \in 1 .. N - 1, taken[i + 1].m = taken[j + 1].m
                 PROVE  i = j
      BY <1>5
    <3>1. i + 1 = j + 1
      BY <1>1, <1>5 DEF Sole
    <3> QED BY <3>1
  <2>7. \A i \in DOMAIN tx_mbufs', j \in DOMAIN taken' : tx_mbufs'[i].m # taken'[j].m
    BY <1>1, <1>4, <1>5 DEF Sole
  <2>8. ASSUME NEW i \in Slots, m_table'[i] # NULL
        PROVE  /\ m_table'[i] \notin free' \cup held'
               /\ \A j \in DOMAIN tx_mbufs' : m_table'[i] # tx_mbufs'[j].m
               /\ \A j \in DOMAIN taken' : m_table'[i] # taken'[j].m
               /\ \A j \in Slots : m_table'[i] = m_table'[j] => i = j
    <3>1. CASE i = last /\ m_table'[i] = p.m
      <4>1. p.m \notin free \cup held /\ p.m \notin freed
        BY <1>1, <1>9 DEF Sole, p
      <4>2. \A j \in DOMAIN tx_mbufs : p.m # tx_mbufs[j].m
        BY <1>1 DEF Sole, p
      <4>3. \A j \in Slots : m_table[j] # p.m
        BY <1>1, <1>2 DEF Sole, p
      <4>4. \A j \in Slots : p.m = m_table'[j] => last = j
        BY <1>2, <1>10, <4>3
      <4> QED BY <1>4, <1>5, <1>12, <3>1, <4>1, <4>2, <4>4
    <3>2. CASE i # last /\ i \notin used /\ m_table'[i] = m_table[i]
      <4>1. m_table[i] \notin free \cup held /\ m_table[i] \notin freed
        BY <1>9, <2>8, <3>2 DEF Sole
      <4>2. /\ \A j \in DOMAIN tx_mbufs : m_table[i] # tx_mbufs[j].m
            /\ \A j \in 1 .. N : m_table[i] # taken[j].m
        BY <1>1, <2>8, <3>2 DEF Sole
      <4>3. \A j \in Slots : m_table[i] = m_table'[j] => i = j
        <5> TAKE j \in Slots
        <5>1. m_table[i] # p.m
          BY <1>1, <4>2 DEF p
        <5> QED BY <1>10, <2>8, <3>2, <5>1 DEF Sole
      <4> QED BY <1>4, <1>5, <3>2, <4>1, <4>2, <4>3
    <3> QED BY <1>10, <2>8, <3>1, <3>2
  <2> QED BY <2>1, <2>2, <2>3, <2>4, <2>5, <2>6, <2>7, <2>8 DEF Sole
<1>14. InStep'
  <2>1. head' = IF taken' = <<>> THEN tail' ELSE taken'[1].at
    <3>1. (p.at + p.nb_segs) % Size = IF 1 = N THEN tail ELSE taken[2].at
      BY <1>0, <1>1 DEF InStep, p
    <3>2. CASE N = 1
      <4>1. taken' = <<>>
        BY <1>5, <3>2
      <4> QED BY <1>2, <1>4, <3>1, <3>2, <4>1
    <3>3. CASE N # 1
      <4>1. taken' # <<>> /\ taken'[1] = taken[2]
        BY <1>1, <1>5, <3>3
      <4> QED BY <1>2, <1>4, <3>1, <3>3, <4>1
    <3> QED BY <3>2, <3>3
  <2>2. ASSUME NEW k \in 1 .. N - 1
        PROVE  (taken'[k].at + taken'[k].nb_segs) % Size
                 = IF k = N - 1 THEN tail' ELSE taken'[k + 1].at
    <3>1. /\ k + 1 \in 1 .. N /\ taken'[k] = taken[k + 1]
          /\ (k # N - 1 => taken'[k + 1] = taken[k + 2])
          /\ (k + 1 = N <=> k = N - 1) /\ (k + 1) + 1 = k + 2
      BY <1>5
    <3>2. (taken[k + 1].at + taken[k + 1].nb_segs) % Size
            = IF k + 1 = N THEN tail ELSE taken[k + 2].at
      BY <1>0, <3>1 DEF InStep
    <3> QED BY <1>4, <3>1, <3>2
  <2> QED BY <1>5, <2>1, <2>2 DEF InStep
<1>15. Covered'
  <2>1. ASSUME NEW d \in Descs, desc[d] \in Chains
        PROVE  (\E k \in DOMAIN taken' : desc[d] = taken'[k].m) \/ (\E i \in Slots : desc[d] = m_table'[i])
    <3>1. CASE \E k \in DOMAIN taken : desc[d] = taken[k].m
      <4>1. PICK k \in 1 .. N : desc[d] = taken[k].m
        BY <1>1, <3>1
      <4>2. CASE k = 1
        BY <1>3, <1>10, <4>1, <4>2 DEF p
      <4>3. CASE k # 1
        <5>1. k - 1 \in 1 .. N - 1 /\ (k - 1) + 1 = k
          BY <4>3
        <5> QED BY <1>5, <4>1, <5>1
      <4> QED BY <4>2, <4>3
    <3>2. CASE \E i \in Slots : desc[d] = m_table[i]
      <4>1. PICK i \in Slots : desc[d] = m_table[i]
        BY <3>2
      <4>2. i \notin used
        <5>1. m_table[i] # NULL
          BY <2>1, <4>1, TxRingAssumption
        <5> QED BY <1>9, <4>1, <5>1 DEF freed
      <4>3. m_table'[i] = m_table[i]
        BY <1>3, <1>4, <4>2
      <4> QED BY <4>1, <4>3
    <3> QED BY <2>1, <3>1, <3>2 DEF Covered
  <2>2. ASSUME NEW k \in 1 .. N - 1, NEW d \in Descs, desc[d] = taken'[k].m, NEW i \in Places(k)'
        PROVE  desc[i] = taken'[k].m
    <3>1. k + 1 \in DOMAIN taken /\ taken'[k] = taken[k + 1] /\ i \in Places(k + 1)
      BY <1>1, <1>5, <1>6, <2>2
    <3> QED BY <2>2, <3>1 DEF Covered
  <2>3. ASSUME NEW i \in Slots, NEW d \in Descs, m_table'[i] # NULL, desc[d] = m_table'[i]
        PROVE  desc[i] = m_table'[i]
    <3>1. CASE i = last /\ m_table'[i] = p.m
      BY <1>1, <1>3, <1>7, <2>3, <3>1 DEF Covered, p
    <3>2. CASE i # last /\ i \notin used /\ m_table'[i] = m_table[i]
      BY <2>3, <3>2 DEF Covered
    <3> QED BY <1>10, <2>3, <3>1, <3>2
  <2>4. ASSUME NEW k \in 1 .. N - 1, NEW i \in Places(k)', desc[i] \in Chains
        PROVE  \E j \in 1 .. N - 1 : j >= k /\ desc[i] = taken'[j].m
    <3>0. k + 1 \in DOMAIN taken /\ i \in Places(k + 1)
      BY <1>1, <1>5, <1>6, <2>4
    <3>1. PICK j \in 1 .. N : j >= k + 1 /\ desc[i] = taken[j].m
      BY <1>1, <2>4, <3>0 DEF Covered
    <3>2. j - 1 \in 1 .. N - 1 /\ j - 1 >= k /\ (j - 1) + 1 = j
      BY <3>1
    <3> QED BY <1>5, <3>1, <3>2
  <2>5. desc' = desc /\ DOMAIN taken' = 1 .. N - 1
    BY <1>4, <1>5
  <2>6. \A k \in DOMAIN taken', d \in Descs : desc'[d] = taken'[k].m =>
          \A i \in Places(k)' : desc'[i] = taken'[k].m
    BY <2>2, <2>5
  <2>7. \A k \in DOMAIN taken' : \A i \in Places(k)' :
          desc'[i] \in Chains => \E j \in DOMAIN taken' : j >= k /\ desc'[i] = taken'[j].m
    BY <2>4, <2>5
  <2> QED BY <2>1, <2>3, <2>5, <2>6, <2>7 DEF Covered
<1> QED BY <1>11, <1>13, <1>14, <1>15

-----------------------------------------------------------------------------
\* Every step preserves the invariant; without responses every packet is a chain.
LEMMA StepInv ==
  ASSUME NicSize = Size, Responses = FALSE, IInv, [Next]_vars
  PROVE  IInv'
<1>1. CASE Stack
  BY <1>1, StackInv, SendInv, ClearInv DEF Stack
<1>2. CASE send_single_packet
  BY <1>2 DEF send_single_packet
<1>3. CASE drain
  BY <1>3, PcInv
<1>4. CASE Port
  BY <1>4, TakeInv, PcInv, TransmitInv DEF Port
<1>5. CASE ff_enq_tx_bsdmbuf
  BY <1>5, EnqueueInv
<1>6. CASE send_burst_ends
  BY <1>6, ClearInv
<1>7. CASE UNCHANGED vars
  <2>1. TypeOK'
    BY <1>7 DEF vars, IInv, TypeOK
  <2>2. Sole'
    BY <1>7 DEF vars, IInv, Sole, Own
  <2>3. InStep' /\ Covered'
    BY <1>7 DEF vars, IInv, InStep, Covered, Places
  <2> QED BY <2>1, <2>2, <2>3 DEF IInv
<1> QED BY <1>1, <1>2, <1>3, <1>4, <1>5, <1>6, <1>7 DEF Next

\* The comment on struct mbuf_txring holds for every size of the rings, number of
\* chains, segments and packets of a burst, when nic_tx_ring has as many places as
\* the port has descriptors and no packet dispatcher sends packets back: a chain
\* that ff_txring_enqueue() or send_burst() frees has been transmitted, without
\* the exception that TransmittedFirst makes for such packets.
THEOREM FreedSafely ==
  ASSUME NicSize = Size, Responses = FALSE
  PROVE  Spec => [](TransmittedFirst /\ InFlight \cap free = {})
<1>1. Init => IInv
  BY InitInv
<1>2. IInv /\ [Next]_vars => IInv'
  BY StepInv
<1>3. IInv => TransmittedFirst /\ InFlight \cap free = {}
  <2> SUFFICES ASSUME IInv, NEW m \in Chains, NEW d \in Descs, desc[d] = m, m \in free
               PROVE  FALSE
    BY DEF TransmittedFirst, InFlight
  <2>1. CASE \E k \in DOMAIN taken : m = taken[k].m
    BY <2>1 DEF IInv, Sole
  <2>2. CASE \E i \in Slots : m = m_table[i]
    BY <2>2, TxRingAssumption DEF IInv, Sole
  <2> QED BY <2>1, <2>2 DEF IInv, Covered
<1> QED BY <1>1, <1>2, <1>3, PTL DEF Spec

=============================================================================
