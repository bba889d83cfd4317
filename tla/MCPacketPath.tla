---------------------------- MODULE MCPacketPath ----------------------------
(* Small instances of PacketPath. *)
EXTENDS PacketPath, TLC

Symmetry == Permutations(Mbufs) \cup Permutations(Bufs)

=============================================================================
