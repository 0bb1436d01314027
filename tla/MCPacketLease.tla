--------------------------- MODULE MCPacketLease ---------------------------
(* PacketLease on small instances. *)
EXTENDS PacketLease, TLC

Symmetry == Permutations(Packet) \cup Permutations(WorkerId)
=============================================================================
