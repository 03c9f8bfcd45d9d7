----------------------------- MODULE MCBrowser -----------------------------
(* Browser with names that are alike, for TLC. *)
EXTENDS Browser, TLC

Symmetry == Permutations(Sockets) \cup Permutations(Sessions)
=============================================================================
