-------------------------- MODULE MCBigcacheWrapper --------------------------
(* Instances of BigcacheWrapper for TLC.                                   *)
EXTENDS BigcacheWrapper, TLC

\* Callers and keys are interchangeable; the faults choose a key, so keys
\* are left out.
Symmetry == Permutations(Caller)

=============================================================================
