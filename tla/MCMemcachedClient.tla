------------------------- MODULE MCMemcachedClient -------------------------
(* Instances of MemcachedClient for TLC.                                   *)
EXTENDS MemcachedClient, TLC

\* Callers are interchangeable.
Symmetry == Permutations(Caller)

=============================================================================
