--------------------------- MODULE MCEpollOneShot ---------------------------
(* Clients, descriptors and workers are interchangeable.                   *)
EXTENDS EpollOneShot, TLC

Symmetry == Permutations(Clients) \cup Permutations(Fds) \cup Permutations(Workers)

=============================================================================
