------------------------ MODULE MCDevcontainerVersions ------------------------
(* DevcontainerVersions for TLC: requests and users are interchangeable.     *)
EXTENDS DevcontainerVersions, TLC

Symmetry == Permutations(Requests) \cup Permutations(Orgs)
=============================================================================
