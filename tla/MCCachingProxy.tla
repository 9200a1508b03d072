--------------------------- MODULE MCCachingProxy ---------------------------
(* Instances of CachingProxy for TLC.                                      *)
EXTENDS CachingProxy, TLC

\* "/b/a"
OneTarget ==
  {[path |-> <<[char |-> "b", escaped |-> FALSE],
               [char |-> "a", escaped |-> FALSE]>>,
    query |-> <<>>]}

\* Version 1 of every blob has no bytes.
FirstVersionEmpty == Blob \X {1}

\* Readers are interchangeable, and so are writers.
Symmetry == Permutations(Reader) \cup Permutations(Writer)

=============================================================================
