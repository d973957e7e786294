------------------------- MODULE MCCacheCoordinator -------------------------
(* CacheCoordinator for TLC: tabs are interchangeable. *)
EXTENDS CacheCoordinator, TLC

Symmetric == Permutations(Tab)
=============================================================================
