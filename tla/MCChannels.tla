---------------------------- MODULE MCChannels ----------------------------
(* Channels with names that are alike, for TLC. *)
EXTENDS Channels, TLC

Symmetry == Permutations(Channels) \cup Permutations(Others)
=============================================================================
