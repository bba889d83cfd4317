------------------------------ MODULE Dispatch ------------------------------
(***************************************************************************)
(* Packets between the processes that share a port (ff_dpdk_if.c), and     *)
(* between them and the kernel of the host (ff_dpdk_kni.c).  Each process  *)
(* polls one receive queue and one dispatch ring in its main_loop().  A    *)
(* packet goes to the stack of the process, to another process if the      *)
(* packet dispatcher of the program says so, to the kernel if its ports    *)
(* are listed, and an ARP packet to all of them, as copies.                *)
(*                                                                         *)
(* Packets have one segment.  NIC, rings, mempool and the kernel interface *)
(* are modelled by how the two files use them.                             *)
(***************************************************************************)
EXTENDS Integers, FiniteSets, Sequences, SequencesExt

CONSTANTS nb_queues,    \* processes; the first one is the primary
          Bufs,         \* the rte_mbufs of pktmbuf_pool
          RingSizes,    \* how many entries the rings may hold
          Burst,        \* MAX_PKT_BURST
          Dispatcher,   \* whether a packet dispatcher is registered
          enable_kni, kni_accept,
          Fails,        \* whether the stack and the kernel may refuse a packet
          Kinds,        \* of "arp", "listed" (in tcp_port, udp_port) and "other"
          MaxPackets    \* bound on the packets received

Queues == 0 .. nb_queues - 1

ASSUME DispatchAssumption ==
  /\ {nb_queues, Burst, MaxPackets} \cup RingSizes \subseteq Nat \ {0}
  /\ {Dispatcher, enable_kni, kni_accept, Fails} \subseteq BOOLEAN
  /\ Kinds \subseteq {"arp", "listed", "other"}

VARIABLES
  ring_size,      \* entries a dispatch ring can hold, and kni_rp
  h,              \* the buffers: how often one is in pktmbuf_pool, what it holds, and
                  \* (history) the packets that were freed or not copied on the way
  rx,             \* the receive queues of the port
  dispatch_ring,
  kni_rp,         \* the ring to the kernel interface
  bufs,           \* of each process, the packets it has yet to process
  pc,             \* of each process, see Places
  j,              \* of each process, the queue that gets the next copy
  away,           \* how often a buffer is with a stack, the port or the kernel to be freed
  received,       \* number of packets that have come in
  got             \* what has reached each stack, and the kernel

vars == <<ring_size, h, rx, dispatch_ring, kni_rp, bufs, pc, j, away, received, got>>

\* A process handles packets of its ring or of its receive queue, or the primary
\* is between ff_kni_process() and process_dispatch_ring().
Places == {"poll", "ring", "rx"}

FF_DISPATCH_ERROR == -1
FF_DISPATCH_RESPONSE == -2

\* id tells packets apart, queue is where it was received, and to is what the
\* dispatcher will say of it.
Answers == Queues \cup {FF_DISPATCH_ERROR, FF_DISPATCH_RESPONSE}

Packet == [id : 1 .. MaxPackets, kind : Kinds, queue : Queues, to : Answers]

Kernel == nb_queues
Empty == <<>>

Init ==
  /\ ring_size \in RingSizes
  /\ h = [pool |-> [b \in Bufs |-> 1], pkt |-> [b \in Bufs |-> Empty], lost |-> {}]
  /\ rx = [q \in Queues |-> <<>>] /\ dispatch_ring = [q \in Queues |-> <<>>]
  /\ kni_rp = <<>> /\ bufs = [q \in Queues |-> <<>>]
  /\ pc = [q \in Queues |-> "rx"] /\ j = [q \in Queues |-> 0]
  /\ away = [b \in Bufs |-> 0] /\ received = 0
  /\ got = [q \in Queues \cup {Kernel} |-> <<>>]

-----------------------------------------------------------------------------
(* Buffers and rings: these take the buffers and return what they leave.   *)

Free(g) == {b \in Bufs : g.pool[b] > 0}

\* The buffer that is allocated next; nothing depends on which one it is.
NextFree(g) == CHOOSE b \in Free(g) : TRUE

Lost(g, p) == [g EXCEPT !.lost = IF p = Empty THEN @ ELSE @ \cup {p.id}]

rte_pktmbuf_free(g, b) == [Lost(g, g.pkt[b]) EXCEPT !.pool[b] = @ + 1, !.pkt[b] = Empty]

rte_pktmbuf_alloc(g, b, p) == [g EXCEPT !.pool[b] = @ - 1, !.pkt[b] = p]

\* Slip: a packet that does not fit is not freed.
SlipNotFreed(g, ring, b) ==
  [h |-> g, ring |-> IF Len(ring) < ring_size THEN Append(ring, b) ELSE ring]

\* Slip: a ring takes one packet more than it holds.
SlipOneMore(g, ring, b) ==
  IF Len(ring) <= ring_size THEN [h |-> g, ring |-> Append(ring, b)]
                            ELSE [h |-> rte_pktmbuf_free(g, b), ring |-> ring]

\* Slip: a packet is put before those that wait.
SlipAtFront(g, ring, b) ==
  IF Len(ring) < ring_size THEN [h |-> g, ring |-> <<b>> \o ring]
                           ELSE [h |-> rte_pktmbuf_free(g, b), ring |-> ring]

\* Put a packet into a ring, and free it if it does not fit.
Enqueue(g, ring, b) ==
  IF Len(ring) < ring_size THEN [h |-> g, ring |-> Append(ring, b)]
                           ELSE [h |-> rte_pktmbuf_free(g, b), ring |-> ring]

\* Put a copy of a packet into a ring, if there is a buffer for it.
pktmbuf_deep_clone(g, ring, p) ==
  IF Free(g) = {} THEN [h |-> Lost(g, p), ring |-> ring]
  ELSE Enqueue(rte_pktmbuf_alloc(g, NextFree(g), p), ring, NextFree(g))

\* Packet b is handed to a stack, the port or the kernel, who will free it.
HandOver(r, b) == [h |-> [r.h EXCEPT !.pkt[b] = Empty], away |-> [r.away EXCEPT ![b] = @ + 1]]

First(s) == SubSeq(s, 1, IF Len(s) < Burst THEN Len(s) ELSE Burst)
Rest(s) == SubSeq(s, Len(First(s)) + 1, Len(s))

-----------------------------------------------------------------------------
(* The port, and what becomes of packets in the end.                       *)

\* A packet arrives, on the queue that the port chooses.
port_receives(q, kind, to) ==
  /\ received < MaxPackets /\ Free(h) # {} /\ (Dispatcher \/ to = q)
  /\ h' = rte_pktmbuf_alloc(h, NextFree(h), [id |-> received + 1, kind |-> kind, queue |-> q, to |-> to])
  /\ rx' = [rx EXCEPT ![q] = Append(@, NextFree(h))]
  /\ received' = received + 1
  /\ UNCHANGED <<ring_size, dispatch_ring, kni_rp, bufs, pc, j, away, got>>

\* The port has sent or refused a packet, or a stack or the kernel has used it.
used(b) ==
  /\ away[b] > 0
  /\ h' = rte_pktmbuf_free(h, b)
  /\ away' = [away EXCEPT ![b] = @ - 1]
  /\ UNCHANGED <<ring_size, rx, dispatch_ring, kni_rp, bufs, pc, j, received, got>>

-----------------------------------------------------------------------------
(* main_loop() of process q.                                               *)

AtTop(q) == pc[q] = "rx" /\ bufs[q] = <<>>

\* The first n packets of a burst are taken; the others are freed.
TxBurst(r, burst, n) ==
  LET tx(g, i) == IF i <= n THEN HandOver(g, burst[i])
                  ELSE [g EXCEPT !.h = rte_pktmbuf_free(@, burst[i])]
  IN FoldLeft(tx, r, [i \in DOMAIN burst |-> i])

\* To the kernel,
kni_process_tx(r, n) == TxBurst(r, First(kni_rp), n)

\* and a burst of m packets from the kernel, in buffers of the pool, to the port.
kni_process_rx(r, m, n) ==
  LET rx_burst(g, i) == [h |-> rte_pktmbuf_alloc(g.h, NextFree(g.h), Empty),
                         burst |-> Append(g.burst, NextFree(g.h))]
      g == FoldLeft(rx_burst, [h |-> r.h, burst |-> <<>>], [i \in 1 .. m |-> i])
  IN TxBurst([r EXCEPT !.h = g.h], g.burst, n)

\* How many packets of a burst of m may be taken.
Taken(m) == IF Fails THEN 0 .. m ELSE {m}

\* Only the primary serves the kernel interface.
ff_kni_process(q) ==
  /\ AtTop(q) /\ enable_kni /\ q = 0
  /\ \E n \in Taken(Len(First(kni_rp))) :
       LET tx == kni_process_tx([h |-> h, away |-> away], n)
           to_kernel == [i \in 1 .. n |-> h.pkt[kni_rp[i]]]
       IN /\ got' = [got EXCEPT ![Kernel] = @ \o to_kernel]
          /\ \E m \in 0 .. Burst : \E k \in Taken(m) :
               /\ received + m <= MaxPackets /\ m <= Cardinality(Free(tx.h))
               /\ LET r == kni_process_rx(tx, m, k) IN h' = r.h /\ away' = r.away
               /\ received' = received + m
  /\ kni_rp' = Rest(kni_rp)
  /\ pc' = [pc EXCEPT ![q] = "poll"]
  /\ UNCHANGED <<ring_size, rx, dispatch_ring, bufs, j>>

process_dispatch_ring(q) ==
  /\ IF enable_kni /\ q = 0 THEN pc[q] = "poll" ELSE AtTop(q)
  /\ bufs' = [bufs EXCEPT ![q] = First(dispatch_ring[q])]
  /\ dispatch_ring' = [dispatch_ring EXCEPT ![q] = Rest(@)]
  /\ pc' = [pc EXCEPT ![q] = "ring"]
  /\ UNCHANGED <<ring_size, h, rx, kni_rp, j, away, received, got>>

rte_eth_rx_burst(q) ==
  /\ pc[q] = "ring" /\ bufs[q] = <<>>
  /\ bufs' = [bufs EXCEPT ![q] = First(rx[q])]
  /\ rx' = [rx EXCEPT ![q] = Rest(@)]
  /\ pc' = [pc EXCEPT ![q] = "rx"]
  /\ UNCHANGED <<ring_size, h, dispatch_ring, kni_rp, j, away, received, got>>

-----------------------------------------------------------------------------
(* process_packets() of process q, with its next packet.                   *)

Buf(q) == bufs[q][1]
Pkt(q) == h.pkt[Buf(q)]
Processing(q) == pc[q] \in {"ring", "rx"} /\ bufs[q] # <<>>

\* The packet is done with.
Continue(q) ==
  /\ bufs' = [bufs EXCEPT ![q] = Tail(@)] /\ j' = [j EXCEPT ![q] = 0]
  /\ UNCHANGED <<ring_size, rx, pc, received>>

\* pkts_from_ring is not set.
ToDispatch(q) == Processing(q) /\ Dispatcher /\ pc[q] = "rx"

FF_DISPATCH_response(q) ==
  /\ ToDispatch(q) /\ Pkt(q).to = FF_DISPATCH_RESPONSE
  /\ LET r == HandOver([h |-> h, away |-> away], Buf(q)) IN h' = r.h /\ away' = r.away
  /\ Continue(q)
  /\ UNCHANGED <<dispatch_ring, kni_rp, got>>

\* Answers of nb_queues and more are treated alike.
FF_DISPATCH_error(q) ==
  /\ ToDispatch(q) /\ Pkt(q).to = FF_DISPATCH_ERROR
  /\ h' = rte_pktmbuf_free(h, Buf(q)) /\ Continue(q)
  /\ UNCHANGED <<dispatch_ring, kni_rp, away, got>>

packet_dispatcher(q) ==
  /\ ToDispatch(q) /\ Pkt(q).to \in Queues \ {q}
  /\ LET r == Enqueue(h, dispatch_ring[Pkt(q).to], Buf(q))
     IN h' = r.h /\ dispatch_ring' = [dispatch_ring EXCEPT ![Pkt(q).to] = r.ring]
  /\ Continue(q)
  /\ UNCHANGED <<kni_rp, away, got>>

protocol_filter(kind) ==
  CASE kind = "arp" -> "FILTER_ARP"
    [] kind = "listed" /\ enable_kni -> "FILTER_KNI"
    [] OTHER -> "FILTER_UNKNOWN"

\* The packet is for this process.
Ours(q) == Processing(q) /\ (ToDispatch(q) => Pkt(q).to = q)

Filter(q) == protocol_filter(Pkt(q).kind)

\* Slip: packets of the dispatch ring are copied too.
SlipCopiedAgain(q) == Filter(q) = "FILTER_ARP" /\ j[q] < nb_queues

\* Slip: there is no copy for the last queue.
SlipLastMissed(q) == Filter(q) = "FILTER_ARP" /\ pc[q] = "rx" /\ j[q] < nb_queues - 1

\* A copy is still to be made, or not, for queue j[q].
ToCopy(q) == Filter(q) = "FILTER_ARP" /\ pc[q] = "rx" /\ j[q] < nb_queues

copy_to_queue(q) ==
  /\ Ours(q) /\ ToCopy(q)
  /\ LET r == IF j[q] = q THEN [h |-> h, ring |-> dispatch_ring[q]]
              ELSE pktmbuf_deep_clone(h, dispatch_ring[j[q]], Pkt(q))
     IN h' = r.h /\ dispatch_ring' = [dispatch_ring EXCEPT ![j[q]] = r.ring]
  /\ j' = [j EXCEPT ![q] = @ + 1]
  /\ UNCHANGED <<ring_size, rx, kni_rp, bufs, pc, away, received, got>>

\* The stack of q takes the packet, or cannot and frees it.
ff_veth_input(g, q) ==
  \/ /\ LET r == HandOver([h |-> g, away |-> away], Buf(q)) IN h' = r.h /\ away' = r.away
     /\ got' = [got EXCEPT ![q] = Append(@, Pkt(q))]
  \/ /\ Fails /\ h' = rte_pktmbuf_free(g, Buf(q)) /\ UNCHANGED <<away, got>>

\* Slip: every process copies the packet for the kernel.
SlipAllToKernel(q) == enable_kni

PrimaryWithKni(q) == enable_kni /\ q = 0

\* An ARP packet, after the copies: the primary makes one for the kernel.
arp_input(q) ==
  /\ Ours(q) /\ Filter(q) = "FILTER_ARP" /\ ~ToCopy(q)
  /\ LET r == IF PrimaryWithKni(q) THEN pktmbuf_deep_clone(h, kni_rp, Pkt(q))
              ELSE [h |-> h, ring |-> kni_rp]
     IN kni_rp' = r.ring /\ ff_veth_input(r.h, q)
  /\ Continue(q)
  /\ UNCHANGED <<dispatch_ring>>

\* The other packets go to the kernel or to the stack.
ForKernel(q) ==
  enable_kni /\ Filter(q) = IF kni_accept THEN "FILTER_KNI" ELSE "FILTER_UNKNOWN"

ff_kni_enqueue(q) ==
  /\ Ours(q) /\ Filter(q) # "FILTER_ARP" /\ ForKernel(q)
  /\ LET r == Enqueue(h, kni_rp, Buf(q)) IN h' = r.h /\ kni_rp' = r.ring
  /\ Continue(q)
  /\ UNCHANGED <<dispatch_ring, away, got>>

input(q) ==
  /\ Ours(q) /\ Filter(q) # "FILTER_ARP" /\ ~ForKernel(q)
  /\ ff_veth_input(h, q) /\ Continue(q)
  /\ UNCHANGED <<dispatch_ring, kni_rp>>

-----------------------------------------------------------------------------
Process(q) ==
  \/ ff_kni_process(q) \/ process_dispatch_ring(q) \/ rte_eth_rx_burst(q)
  \/ FF_DISPATCH_response(q) \/ FF_DISPATCH_error(q) \/ packet_dispatcher(q)
  \/ copy_to_queue(q) \/ arp_input(q) \/ ff_kni_enqueue(q) \/ input(q)

Environment ==
  \/ \E q \in Queues, kind \in Kinds, to \in Answers : port_receives(q, kind, to)
  \/ \E b \in Bufs : used(b)

Next == Environment \/ \E q \in Queues : Process(q)

Spec == Init /\ [][Next]_vars

\* Every process runs its main_loop() for ever: weak fairness of Process(q), of
\* which a step that changes something is possible in every state.
FairSpec == Spec /\ \A q \in Queues : []<><<Process(q)>>_vars

-----------------------------------------------------------------------------
(* Properties.                                                             *)

\* Type invariant.
TypeOK ==
  /\ h.pool \in [Bufs -> Nat] /\ h.pkt \in [Bufs -> Packet \cup {Empty}]
  /\ h.lost \subseteq 1 .. MaxPackets
  /\ \A q \in Queues : /\ {rx[q], dispatch_ring[q], bufs[q], kni_rp} \subseteq Seq(Bufs)
                       /\ Len(dispatch_ring[q]) <= ring_size /\ Len(bufs[q]) <= Burst
  /\ away \in [Bufs -> Nat] /\ pc \in [Queues -> Places] /\ j \in [Queues -> 0 .. nb_queues]
  /\ received \in 0 .. MaxPackets /\ ring_size \in RingSizes

\* The buffers in queues and rings, and those that are being processed.
Queued ==
  kni_rp \o FlattenSeq([i \in 1 .. nb_queues |->
                          rx[i - 1] \o dispatch_ring[i - 1] \o bufs[i - 1]])

\* No buffer is lost and none has two owners, in whatever order the processes
\* pass packets on, copy them and find rings full or the pool empty.
OneOwner ==
  \A b \in Bufs :
    h.pool[b] + Cardinality({m \in DOMAIN Queued : Queued[m] = b}) + away[b] = 1

\* The packets of one receive queue reach each stack in the order they were
\* received, and none twice, although a stack gets packets over its own queue
\* and over its ring, and ARP packets as copies.
InOrder ==
  \A q \in Queues : \A m, n \in DOMAIN got[q] :
    m < n /\ got[q][m].queue = got[q][n].queue => got[q][m].id < got[q][n].id

\* A packet that is not ARP reaches one stack, the one the dispatcher chose, or
\* the kernel, and nothing reaches the kernel twice.
OnePlace ==
  /\ \A q \in Queues : \A m \in DOMAIN got[q] :
       got[q][m].kind # "arp" => got[q][m].to = q /\ ~Contains(got[Kernel], got[q][m])
  /\ IsInjective(got[Kernel])

\* No packet stays in a queue or a ring for ever, or is passed on for ever.
Settled ==
  \A i \in 1 .. MaxPackets :
    received >= i ~> \A m \in DOMAIN Queued : h.pkt[Queued[m]].id # i

\* An ARP packet that the dispatcher leaves where it is reaches every stack, and
\* the kernel, unless there is no buffer or room for a copy or one is refused.
ArpEverywhere ==
  \A i \in 1 .. MaxPackets :
    (\E b \in Bufs : /\ h.pkt[b] # Empty /\ h.pkt[b].id = i
                     /\ h.pkt[b].kind = "arp" /\ h.pkt[b].to = h.pkt[b].queue)
      ~> \/ i \in h.lost
         \/ \A q \in Queues \cup (IF enable_kni THEN {Kernel} ELSE {}) :
              \E m \in DOMAIN got[q] : got[q][m].id = i

=============================================================================
