--------------------------- MODULE MCMutationQueue ---------------------------
(* MutationQueue for TLC: clients, mutations and uuids are interchangeable. *)
EXTENDS MutationQueue, TLC

Symmetric == Permutations(Client) \cup Permutations(Mutation) \cup Permutations(Uuid)
=============================================================================
