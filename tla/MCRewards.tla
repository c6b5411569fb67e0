----------------------------- MODULE MCRewards -----------------------------
(* One offer of which there is a single unit, one that a session may have  *)
(* once, and passengers who can just afford one or the other.              *)
EXTENDS Rewards, TLC

CONSTANTS scarce, rationed, first, second

MCCost   == scarce :> 2 @@ rationed :> 1
MCStock  == scarce :> 1 @@ rationed :> None
MCLimit  == scarce :> None @@ rationed :> 1
MCAward  == first :> 2 @@ second :> 1

Symmetry == Permutations(Passenger) \cup Permutations(Session)
              \cup Permutations(Redemption) \cup Permutations(Slot)
=============================================================================
