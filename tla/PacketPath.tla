----------------------------- MODULE PacketPath -----------------------------
(***************************************************************************)
(* Packets between a DPDK port and the stack.  A received packet is not    *)
(* copied: mbufs of the stack refer to its segments as external storage,   *)
(* and the free function of the first mbuf gives the whole packet back to  *)
(* the DPDK pool.  A packet that is sent is copied into buffers of that    *)
(* pool and its mbufs are freed.  Allocations of both kinds may fail.      *)
(*                                                                         *)
(* A chain of mbufs and the segments of a packet are sequences; lengths    *)
(* are counted in segments.  DPDK is modelled by how device.c uses it.     *)
(***************************************************************************)
EXTENDS Integers, FiniteSets, Sequences, SequencesExt

CONSTANTS Mbufs,      \* the mbufs of zone_mbuf
          Bufs,       \* the buffers of the DPDK pool
          RxSegs,     \* segments of a received packet, at most
          TxSegs,     \* segments that a packet of the stack is copied into, at most
          Burst,      \* packets that wait on the receive queue, at most
          TxSize,     \* packets that fit in tx_buffer
          MaxChains,  \* bound on the chains the stack holds
          NULL

ASSUME PacketAssumption ==
  /\ NULL \notin Mbufs \cup Bufs
  /\ {RxSegs, TxSegs, Burst, TxSize, MaxChains} \subseteq Nat \ {0}

VARIABLES
  heap,       \* the mbufs and buffers: see Heap
  rxq,        \* received packets the driver holds
  burst,      \* the rest of bufs[] of device_run()
  held,       \* the chains of mbufs the stack holds
  tx_buffer,  \* packets to be sent at the next flush; NULL if a conversion failed
  nic,        \* packets the port is sending
  pc,         \* "loop", "recv" inside device_run(), "crashed" at a NULL pointer
  dropped     \* chains that dpdk_ff_to_mbuf() has left without an owner

vars == <<heap, rxq, burst, held, tx_buffer, nic, pc, dropped>>

\* Fields of an mbuf's m_ext: buf is ext_buf (NULL for an mbuf with storage of
\* its own), arg1 is ext_arg1 (NULL with no ext_free), and ref is the mbuf
\* whose embedded ext_count counts the references.
Ext == [buf : Bufs \cup {NULL}, arg1 : Bufs \cup {NULL}, ref : Mbufs]

Own(m) == [buf |-> NULL, arg1 |-> NULL, ref |-> m]

Heap == [zone  : [Mbufs -> Nat],        \* how often an mbuf is in zone_mbuf
         ext   : [Mbufs -> Ext],
         count : [Mbufs -> Nat],        \* ext_count
         pool  : [Bufs -> Nat],         \* how often a buffer is in the pool
         pkt   : [Bufs -> Seq(Bufs)]]   \* a buffer and the segments linked behind it

Init ==
  /\ heap = [zone |-> [m \in Mbufs |-> 1], ext |-> [m \in Mbufs |-> Own(m)],
             count |-> [m \in Mbufs |-> 0],
             pool |-> [b \in Bufs |-> 1], pkt |-> [b \in Bufs |-> <<b>>]]
  /\ rxq = <<>> /\ burst = <<>> /\ held = {} /\ tx_buffer = <<>> /\ nic = {}
  /\ pc = "loop" /\ dropped = {}

-----------------------------------------------------------------------------
(* Allocation and freeing.  These take a heap and return the heap they     *)
(* leave behind.                                                           *)

ZoneFree(h) == {m \in Mbufs : h.zone[m] > 0}
PoolFree(h) == {b \in Bufs : h.pool[b] > 0}

\* Sequences of n different elements of S.
Picks(S, n) == {s \in [1 .. n -> S] : IsInjective(s)}

\* m_init() will clear what a free mbuf holds.
uma_zfree(h, m) == [h EXCEPT !.zone[m] = @ + 1, !.ext[m] = Own(m), !.count[m] = 0]

rte_pktmbuf_alloc(h, s) ==
  [h EXCEPT !.pool = [b \in Bufs |-> h.pool[b] - IF Contains(s, b) THEN 1 ELSE 0],
            !.pkt[s[1]] = s]

\* Every segment of the packet goes back to the pool and is unlinked.
rte_pktmbuf_free(h, b) ==
  IF b = NULL THEN h
  ELSE [h EXCEPT !.pool = [c \in Bufs |-> h.pool[c] + IF Contains(h.pkt[b], c) THEN 1 ELSE 0],
                 !.pkt[b] = <<b>>]

dpdk_ff_freef(h, arg1) == rte_pktmbuf_free(h, arg1)

\* Attach segment buf to mbuf m.
m_extadd(h, m, buf, arg1) ==
  [h EXCEPT !.ext[m] = [buf |-> buf, arg1 |-> arg1, ref |-> m], !.count[m] = 1]

\* Slip: the reference is not counted.
SlipNotCounted(h, n, m) == [h EXCEPT !.ext[n] = h.ext[m]]

\* mbuf n shares the storage of mbuf m.
mb_dupcl(h, n, m) == [h EXCEPT !.ext[n] = h.ext[m], !.count[h.ext[m].ref] = @ + 1]

\* Slip: the mbuf with the reference count is freed with its own reference.
SlipFreesCounter(h, m) ==
  LET e == h.ext[m]
      last == h.count[e.ref] = 1
      h1 == IF last THEN dpdk_ff_freef(h, e.arg1)
                    ELSE [h EXCEPT !.count[e.ref] = @ - 1]
  IN uma_zfree(h1, m)

\* The last reference frees the storage and the mbuf that counts, but not that
\* mbuf if there is no ext_free: its ext_type is then 0.
mb_free_ext(h, m) ==
  LET e == h.ext[m]
      last == h.count[e.ref] = 1
      h1 == IF ~last THEN [h EXCEPT !.count[e.ref] = @ - 1]
            ELSE IF e.arg1 = NULL THEN h
            ELSE uma_zfree(dpdk_ff_freef(h, e.arg1), e.ref)
  IN IF m # e.ref THEN uma_zfree(h1, m) ELSE h1

m_free(h, m) == IF h.ext[m].buf = NULL THEN uma_zfree(h, m) ELSE mb_free_ext(h, m)

m_freem(h, chain) == FoldLeft(m_free, h, chain)

-----------------------------------------------------------------------------
(* From the port to the stack.                                             *)

\* A packet arrives: the driver has buffers of the pool for its segments.
port_receives ==
  /\ pc # "crashed" /\ Len(rxq) < Burst
  /\ \E n \in 1 .. RxSegs : \E s \in Picks(PoolFree(heap), n) :
       /\ heap' = rte_pktmbuf_alloc(heap, s)
       /\ rxq' = Append(rxq, s[1])
  /\ UNCHANGED <<burst, held, tx_buffer, nic, pc, dropped>>

\* device_run() takes the packets that have arrived.
rte_eth_rx_burst ==
  /\ pc = "loop"
  /\ burst' = rxq /\ rxq' = <<>> /\ pc' = "recv"
  /\ UNCHANGED <<heap, held, tx_buffer, nic, dropped>>

\* mbufs ms refer to the segments segs: ff_mbuf_gethdr() for the first segment
\* of a packet, arg1 then being the packet, and ff_mbuf_get() for the others.
ff_mbuf_gethdr(h, m, b) == m_extadd([h EXCEPT !.zone[m] = @ - 1], m, b, b)

ff_mbuf_get(h, m, seg) == m_extadd([h EXCEPT !.zone[m] = @ - 1], m, seg, NULL)

ff_mbuf_gets(h, ms, segs) ==
  LET get(g, i) == ff_mbuf_get(g, ms[i], segs[i])
  IN FoldLeft(get, h, [i \in 1 .. Len(ms) |-> i])

\* The loop of dpdk_mbuf_to_ff() as far as the mbufs ms reach.
Converted(h, ms, b) ==
  ff_mbuf_gets(ff_mbuf_gethdr(h, ms[1], b), Tail(ms), Tail(h.pkt[b]))

Received == burst[1]
Segments == Len(heap.pkt[Received])

\* The packet is converted, and ff_veth_process_packet() hands it to the stack.
device_on_recv ==
  /\ pc = "recv" /\ burst # <<>> /\ Cardinality(held) < MaxChains
  /\ \E ms \in Picks(ZoneFree(heap), Segments) :
       /\ heap' = Converted(heap, ms, Received)
       /\ held' = held \cup {ms}
  /\ burst' = Tail(burst)
  /\ UNCHANGED <<rxq, tx_buffer, nic, pc, dropped>>

\* ff_mbuf_get() fails: the mbufs made so far are freed, with the packet, and
\* the packet once more.  ff_veth_process_packet() then writes through NULL.
ff_mbuf_get_fails ==
  /\ pc = "recv" /\ burst # <<>>
  /\ \E k \in 1 .. Segments - 1 : \E ms \in Picks(ZoneFree(heap), k) :
       heap' = rte_pktmbuf_free(m_freem(Converted(heap, ms, Received), ms), Received)
  /\ burst' = Tail(burst) /\ pc' = "crashed"
  /\ UNCHANGED <<rxq, held, tx_buffer, nic, dropped>>

\* ff_mbuf_gethdr() fails, which is not noticed: mbufs for the other segments
\* have no chain to be in, and if one cannot be had the packet is freed.
ff_mbuf_gethdr_fails ==
  /\ pc = "recv" /\ burst # <<>>
  /\ \E k \in 0 .. Segments - 1 : \E ms \in Picks(ZoneFree(heap), k) :
       LET h == ff_mbuf_gets(heap, ms, Tail(heap.pkt[Received]))
       IN heap' = IF k < Segments - 1 THEN rte_pktmbuf_free(h, Received) ELSE h
  /\ burst' = Tail(burst) /\ pc' = "crashed"
  /\ UNCHANGED <<rxq, held, tx_buffer, nic, dropped>>

-----------------------------------------------------------------------------
(* What the stack does with the chains it holds.                           *)

Running == pc \in {"loop", "recv"}

\* A protocol frees a chain.
stack_m_freem(c) ==
  /\ Running
  /\ heap' = m_freem(heap, c)
  /\ held' = held \ {c}
  /\ UNCHANGED <<rxq, burst, tx_buffer, nic, pc, dropped>>

\* A protocol is done with the first mbuf of a chain, as when a reader has
\* taken the data of one mbuf out of a socket buffer.
stack_m_free(c) ==
  /\ Running /\ Len(c) > 1
  /\ heap' = m_free(heap, c[1])
  /\ held' = (held \ {c}) \cup {Tail(c)}
  /\ UNCHANGED <<rxq, burst, tx_buffer, nic, pc, dropped>>

\* A copy that shares the storage.  One that runs out of mbufs undoes itself.
m_copym(c) ==
  /\ Running /\ Cardinality(held) < MaxChains
  /\ \E ns \in Picks(ZoneFree(heap), Len(c)) :
       LET copied(h, i) ==
             LET g == [h EXCEPT !.zone[ns[i]] = @ - 1]
             IN IF h.ext[c[i]].buf = NULL THEN g ELSE mb_dupcl(g, ns[i], c[i])
       IN /\ heap' = FoldLeft(copied, heap, [i \in 1 .. Len(c) |-> i])
          /\ held' = held \cup {ns}
  /\ UNCHANGED <<rxq, burst, tx_buffer, nic, pc, dropped>>

\* A protocol makes a packet of its own, in one mbuf.
stack_m_gethdr ==
  /\ Running /\ Cardinality(held) < MaxChains
  /\ \E m \in ZoneFree(heap) :
       /\ heap' = [heap EXCEPT !.zone[m] = @ - 1]
       /\ held' = held \cup {<<m>>}
  /\ UNCHANGED <<rxq, burst, tx_buffer, nic, pc, dropped>>

-----------------------------------------------------------------------------
(* From the stack to the port.                                             *)

\* rte_eth_tx_burst() takes the first k packets; the others are freed, which
\* for NULL is nothing.  The driver reads what it takes.
Flushed(h, packets, others) ==
  \E k \in 0 .. Len(packets) :
    LET taken == SubSeq(packets, 1, k)
        rest == SubSeq(packets, k + 1, Len(packets))
    IN /\ heap' = FoldLeft(rte_pktmbuf_free, h, rest)
       /\ nic' = nic \cup (ToSet(taken) \ {NULL})
       /\ tx_buffer' = <<>>
       /\ pc' = IF Contains(taken, NULL) THEN "crashed" ELSE others

\* The packet, or NULL, is put into tx_buffer, which is flushed when it is full.
rte_eth_tx_buffer(h, p) ==
  IF Len(tx_buffer) + 1 < TxSize
  THEN heap' = h /\ tx_buffer' = Append(tx_buffer, p) /\ UNCHANGED <<nic, pc>>
  ELSE Flushed(h, Append(tx_buffer, p), pc)

\* The chain is copied and freed.
device_on_transmit(c) ==
  /\ Running
  /\ \E n \in 1 .. TxSegs : \E s \in Picks(PoolFree(heap), n) :
       rte_eth_tx_buffer(m_freem(rte_pktmbuf_alloc(heap, s), c), s[1])
  /\ held' = held \ {c}
  /\ UNCHANGED <<rxq, burst, dropped>>

\* The pool has too few buffers: the chain and the segments made so far are
\* freed, and NULL is what is put into tx_buffer.
device_on_transmit_short(c) ==
  /\ Running
  /\ Cardinality(PoolFree(heap)) \in 1 .. TxSegs - 1
  /\ rte_eth_tx_buffer(m_freem(heap, c), NULL)
  /\ held' = held \ {c}
  /\ UNCHANGED <<rxq, burst, dropped>>

\* The pool is empty: dpdk_ff_to_mbuf() returns NULL and does not free the chain.
device_on_transmit_empty(c) ==
  /\ Running
  /\ PoolFree(heap) = {}
  /\ rte_eth_tx_buffer(heap, NULL)
  /\ held' = held \ {c} /\ dropped' = dropped \cup {c}
  /\ UNCHANGED <<rxq, burst>>

\* The end of device_run().
rte_eth_tx_buffer_flush ==
  /\ pc = "recv" /\ burst = <<>>
  /\ Flushed(heap, tx_buffer, "loop")
  /\ UNCHANGED <<rxq, burst, held, dropped>>

\* The port has sent a packet.
port_sends(b) ==
  /\ pc # "crashed"
  /\ heap' = rte_pktmbuf_free(heap, b)
  /\ nic' = nic \ {b}
  /\ UNCHANGED <<rxq, burst, held, tx_buffer, pc, dropped>>

-----------------------------------------------------------------------------
Port == port_receives \/ \E b \in nic : port_sends(b)

Loop == rte_eth_rx_burst \/ device_on_recv \/ ff_mbuf_get_fails \/ ff_mbuf_gethdr_fails
        \/ rte_eth_tx_buffer_flush

Transmit(c) == device_on_transmit(c) \/ device_on_transmit_short(c) \/ device_on_transmit_empty(c)

Stack ==
  \/ stack_m_gethdr
  \/ \E c \in held : stack_m_freem(c) \/ stack_m_free(c) \/ m_copym(c) \/ Transmit(c)

Next == Port \/ Loop \/ Stack

Spec == Init /\ [][Next]_vars

-----------------------------------------------------------------------------
(* Properties.                                                             *)

\* Type invariant.
TypeOK ==
  /\ heap \in Heap
  /\ rxq \in Seq(Bufs) /\ burst \in Seq(Bufs) /\ nic \subseteq Bufs
  /\ held \subseteq Seq(Mbufs) /\ dropped \subseteq Seq(Mbufs)
  /\ tx_buffer \in Seq(Bufs \cup {NULL}) /\ Len(tx_buffer) < TxSize
  /\ pc \in {"loop", "recv", "crashed"}

\* The mbufs in a set of chains.
In(chains) == UNION {ToSet(c) : c \in chains}

Users == In(held) \cup In(dropped)

\* The packets that some mbuf still refers to and is to free.
Referred(ms) == {heap.ext[m].arg1 : m \in ms} \ {NULL}

\* No DPDK buffer is lost and none is freed twice, in whatever order the stack
\* frees, copies and sends the chains that share a received packet, and although
\* allocations fail, the port refuses packets and tx_buffer is flushed early: a
\* buffer is in the pool once, or in one packet that one party will free.
BuffersConserved ==
  pc # "crashed" =>
    LET packets == ToSet(rxq) \cup ToSet(burst) \cup nic \cup (ToSet(tx_buffer) \ {NULL})
                     \cup Referred(Users)
    IN \A b \in Bufs :
         heap.pool[b] + Cardinality({p \in packets : Contains(heap.pkt[p], b)}) = 1

\* mbufs that count references to storage with no ext_free, which mb_free_ext()
\* does not free.
Unfreed == {m \in Mbufs : heap.ext[m].buf # NULL /\ heap.ext[m].arg1 = NULL /\ heap.ext[m].ref = m}

\* No mbuf is freed twice or under a chain that uses it, and none is lost but
\* those that mb_free_ext() leaves: the one with the reference count outlives
\* the chain it was in, until the last copy is freed.
MbufsConserved ==
  pc # "crashed" =>
    \A m \in Mbufs :
      heap.zone[m] = IF m \in Users \cup {heap.ext[n].ref : n \in Users} \cup Unfreed THEN 0 ELSE 1

\* The comment on m_extadd(), "setup a reference count for said buffer": the
\* storage an mbuf of the stack refers to is not in the DPDK pool.
StorageHeld ==
  pc # "crashed" =>
    \A m \in Users : heap.ext[m].buf # NULL => heap.pool[heap.ext[m].buf] = 0

=============================================================================
