----------------------------- MODULE MCRealtime -----------------------------
(* Sockets, players and sessions are interchangeable; the symmetry is used  *)
(* by the runs that check no liveness.                                      *)
EXTENDS Realtime, TLC

Symmetry == Permutations(Socket) \cup Permutations(Player) \cup Permutations(Session)
=============================================================================
