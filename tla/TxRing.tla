------------------------------- MODULE TxRing -------------------------------
(***************************************************************************)
(* Sending without copying (FF_USE_PAGE_ARRAY): the rte_mbufs of a packet  *)
(* point into the chain of mbufs of the stack, so the chain may be freed   *)
(* only when the port has transmitted it.  The library is not told of      *)
(* that.  It keeps the chain in a ring, nic_tx_ring, that is meant to move *)
(* in step with the ring of descriptors of the port, and frees a chain     *)
(* when its place is used again.                                           *)
(*                                                                         *)
(* A chain is a model value; the number of its segments is chosen when it  *)
(* is sent.  The port is modelled by how send_burst() uses it: it takes a  *)
(* packet if the next descriptors are done with, and transmits at any time.*)
(***************************************************************************)
EXTENDS Integers, Sequences, FiniteSets

CONSTANTS Chains,    \* chains of mbufs
          Size,      \* TX_QUEUE_SIZE
          NicSize,   \* nb_txd, the descriptors of the port
          MaxSegs,   \* segments of a chain, at most
          Burst,     \* MAX_PKT_BURST
          Responses, \* whether a packet dispatcher sends packets back
          NULL, Other

ASSUME TxRingAssumption ==
  /\ Size \in Nat \ {0} /\ NicSize \in Nat \ {0} /\ Burst \in Nat \ {0}
  /\ MaxSegs \in 1 .. Size /\ MaxSegs <= NicSize
  /\ NULL \notin Chains /\ Other \notin Chains \cup {NULL} /\ Responses \in BOOLEAN

Slots == 0 .. Size - 1
Descs == 0 .. NicSize - 1

VARIABLES
  free,        \* chains that are not allocated
  held,        \* chains that the stack holds
  tx_mbufs,    \* packets that wait for the next burst
  bsd_m_table, \* the chains of the packets; it is never cleared
  taken,       \* packets of the burst that the port has taken, not yet in the ring
  m_table,     \* nic_tx_ring: its places,
  head,        \* and the next one to be used
  desc,        \* the chain that a descriptor refers to, or NULL when it is done
  tail,        \* the next descriptor to be used
  pc,          \* in send_burst(): "tx" in rte_eth_tx_burst(), "ring" after it
  again        \* chains that stood for another packet once more; not in the code

vars == <<free, held, tx_mbufs, bsd_m_table, taken, m_table, head, desc, tail, pc, again>>

\* data is what the rte_mbufs point into: a chain, or memory of DPDK; m is what
\* bsd_m_table says.
Packet == [data : Chains \cup {Other}, m : Chains \cup {NULL}, nb_segs : 1 .. MaxSegs]

\* at is the first descriptor of a packet that the port has taken.
Taken == [data : Chains \cup {Other}, m : Chains \cup {NULL}, nb_segs : 1 .. MaxSegs, at : Descs]

Init ==
  /\ free = Chains /\ held = {} /\ tx_mbufs = <<>> /\ taken = <<>>
  /\ bsd_m_table = [i \in 1 .. Burst |-> NULL]
  /\ m_table = [i \in Slots |-> NULL] /\ head = 0
  /\ desc = [i \in Descs |-> NULL] /\ tail = 0
  /\ pc = "idle" /\ again = {}

-----------------------------------------------------------------------------
\* The stack makes a chain, or is done with one that it has not sent.
m_get(m) ==
  /\ pc = "idle" /\ m \in free
  /\ free' = free \ {m} /\ held' = held \cup {m}
  /\ UNCHANGED <<tx_mbufs, bsd_m_table, taken, m_table, head, desc, tail, pc, again>>

m_freem(m) ==
  /\ pc = "idle" /\ m \in held
  /\ held' = held \ {m} /\ free' = free \cup {m}
  /\ UNCHANGED <<tx_mbufs, bsd_m_table, taken, m_table, head, desc, tail, pc, again>>

\* ff_if_send_onepkt() makes rte_mbufs for the chain, or a clone of the received
\* packet that the chain refers to, and keeps both; a table that is full is sent.
ff_dpdk_if_send(m, data, n) ==
  /\ pc = "idle" /\ m \in held
  /\ held' = held \ {m}
  /\ tx_mbufs' = Append(tx_mbufs, [data |-> data, m |-> m, nb_segs |-> n])
  /\ bsd_m_table' = [bsd_m_table EXCEPT ![Len(tx_mbufs) + 1] = m]
  /\ pc' = IF Len(tx_mbufs) + 1 = Burst THEN "tx" ELSE "idle"
  /\ UNCHANGED <<free, taken, m_table, head, desc, tail, again>>

\* There is no rte_mbuf for the chain: it is freed, and 0 is returned, which
\* becomes the length of the table.
ff_dpdk_if_send_fails(m) ==
  /\ pc = "idle" /\ m \in held
  /\ held' = held \ {m} /\ free' = free \cup {m}
  /\ tx_mbufs' = <<>>
  /\ UNCHANGED <<bsd_m_table, taken, m_table, head, desc, tail, pc, again>>

\* A packet dispatcher sends a received packet back.  The chain in bsd_m_table
\* stays that of an earlier packet.
send_single_packet ==
  /\ Responses /\ pc = "idle"
  /\ tx_mbufs' = Append(tx_mbufs, [data |-> Other, m |-> bsd_m_table[Len(tx_mbufs) + 1],
                                   nb_segs |-> 1])
  /\ pc' = IF Len(tx_mbufs) + 1 = Burst THEN "tx" ELSE "idle"
  /\ again' = again \cup ({bsd_m_table[Len(tx_mbufs) + 1]} \ {NULL})
  /\ UNCHANGED <<free, held, bsd_m_table, taken, m_table, head, desc, tail>>

\* The main loop sends what waits.
drain ==
  /\ pc = "idle" /\ tx_mbufs # <<>>
  /\ pc' = "tx"
  /\ UNCHANGED <<free, held, tx_mbufs, bsd_m_table, taken, m_table, head, desc, tail, again>>

-----------------------------------------------------------------------------
(* The port.                                                               *)

\* The n places from position at of a ring with size places.
Span(at, n, size) == {(at + k) % size : k \in 0 .. n - 1}

\* rte_eth_tx_burst() takes the next packet,
rte_eth_tx_burst ==
  /\ pc = "tx" /\ tx_mbufs # <<>>
  /\ LET p == tx_mbufs[1]
         used == Span(tail, p.nb_segs, NicSize)
     IN /\ \A i \in used : desc[i] = NULL
        /\ desc' = [i \in Descs |-> IF i \in used THEN p.data ELSE desc[i]]
        /\ tail' = (tail + p.nb_segs) % NicSize
        /\ taken' = Append(taken, [data |-> p.data, m |-> p.m, nb_segs |-> p.nb_segs,
                                   at |-> tail])
  /\ tx_mbufs' = Tail(tx_mbufs)
  /\ UNCHANGED <<free, held, bsd_m_table, m_table, head, pc, again>>

\* or returns, because it has taken all or has too few descriptors.
rte_eth_tx_burst_returns ==
  /\ pc = "tx" /\ pc' = "ring"
  /\ UNCHANGED <<free, held, tx_mbufs, bsd_m_table, taken, m_table, head, desc, tail, again>>

\* The port has transmitted a packet that is in a chain,
transmits(m) ==
  /\ \E i \in Descs : desc[i] = m
  /\ desc' = [i \in Descs |-> IF desc[i] = m THEN NULL ELSE desc[i]]
  /\ UNCHANGED <<free, held, tx_mbufs, bsd_m_table, taken, m_table, head, tail, pc, again>>

\* or a segment that is in memory of DPDK.
transmits_other(i) ==
  /\ desc[i] = Other
  /\ desc' = [desc EXCEPT ![i] = NULL]
  /\ UNCHANGED <<free, held, tx_mbufs, bsd_m_table, taken, m_table, head, tail, pc, again>>

-----------------------------------------------------------------------------
\* Slip: a place is left between packets.
SlipPlaceBetween(p) ==
  LET used == Span(head, p.nb_segs + 1, Size)
      last == (head + p.nb_segs) % Size
  IN /\ free' = free \cup ({m_table[i] : i \in used} \ {NULL})
     /\ m_table' = [i \in Slots |-> IF i = last THEN p.m ELSE IF i \in used THEN NULL ELSE m_table[i]]
     /\ head' = (head + p.nb_segs + 1) % Size

\* A packet takes as many places as segments.  The chains that were in them are
\* freed, and its own goes into the last.
ff_txring_enqueue(p) ==
  LET used == Span(head, p.nb_segs, Size)
      last == (head + p.nb_segs - 1) % Size
  IN /\ free' = free \cup ({m_table[i] : i \in used} \ {NULL})
     /\ m_table' = [i \in Slots |-> IF i = last THEN p.m ELSE IF i \in used THEN NULL ELSE m_table[i]]
     /\ head' = (head + p.nb_segs) % Size

\* send_burst() puts the chains of the packets that were taken into the ring,
ff_enq_tx_bsdmbuf ==
  /\ pc = "ring" /\ taken # <<>>
  /\ IF taken[1].m # NULL THEN ff_txring_enqueue(taken[1]) ELSE UNCHANGED <<free, m_table, head>>
  /\ taken' = Tail(taken)
  /\ UNCHANGED <<held, tx_mbufs, bsd_m_table, desc, tail, pc, again>>

\* and frees the others.
send_burst_ends ==
  /\ pc = "ring" /\ taken = <<>>
  /\ free' = free \cup ({tx_mbufs[i].m : i \in DOMAIN tx_mbufs} \ {NULL})
  /\ tx_mbufs' = <<>> /\ pc' = "idle"
  /\ UNCHANGED <<held, bsd_m_table, taken, m_table, head, desc, tail, again>>

-----------------------------------------------------------------------------
Stack ==
  \E m \in Chains :
    \/ m_get(m) \/ m_freem(m) \/ ff_dpdk_if_send_fails(m)
    \/ \E data \in {m, Other}, n \in 1 .. MaxSegs : ff_dpdk_if_send(m, data, n)

Port ==
  \/ rte_eth_tx_burst \/ rte_eth_tx_burst_returns
  \/ \E m \in Chains : transmits(m)
  \/ \E i \in Descs : transmits_other(i)

Next == Stack \/ send_single_packet \/ drain \/ Port \/ ff_enq_tx_bsdmbuf \/ send_burst_ends

Spec == Init /\ [][Next]_vars

-----------------------------------------------------------------------------
(* Properties.                                                             *)

\* Type invariant.
TypeOK ==
  /\ free \subseteq Chains /\ held \subseteq Chains
  /\ bsd_m_table \in [1 .. Burst -> Chains \cup {NULL}]
  /\ tx_mbufs \in Seq(Packet) /\ taken \in Seq(Taken)
  /\ m_table \in [Slots -> Chains \cup {NULL}] /\ head \in Slots
  /\ desc \in [Descs -> Chains \cup {NULL, Other}] /\ tail \in Descs
  /\ again \subseteq Chains
  /\ pc \in {"idle", "tx", "ring"} /\ (pc = "idle" => Len(tx_mbufs) < Burst)

InFlight == {m \in Chains : \E i \in Descs : desc[i] = m}

\* The comment on struct mbuf_txring, "when txring.m_table[x] is reused, the
\* packet in txring.m_table[x] had been transmited by NIC.  that means the mbuf
\* can be freed safely": no chain that a descriptor of the port refers to is free,
\* however bursts, refusals and transmissions interleave, except chains that a
\* packet of a dispatcher has put into the ring again.
TransmittedFirst == InFlight \cap free \subseteq again

=============================================================================
