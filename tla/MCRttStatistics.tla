--------------------------- MODULE MCRttStatistics ---------------------------
(* Instances of RttStatistics for TLC. *)
EXTENDS RttStatistics, TLC

CONSTANTS a, b

PeerSymmetry == Permutations(Peers)

(* One peer's clock is ahead of the other's. *)
Ahead   == {9, 14}
Never   == {}

(* The clock is set back. *)
Back == {4}

(* Fresh memory, and what another object has left in it. *)
Fresh    == {0}
Leftover == {40}
==============================================================================
