-------------------------- MODULE MCRoomService --------------------------
(* RoomService on small rooms. *)
EXTENDS RoomService, TLC

Symmetry == Permutations(Player) \cup Permutations(Slot)
=============================================================================
