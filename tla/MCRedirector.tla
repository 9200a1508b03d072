---------------------------- MODULE MCRedirector ----------------------------
(* Instances of Redirector for TLC.                                        *)
EXTENDS Redirector, TLC

\* Client sockets, addresses, ports and storage servers are interchangeable.
Symmetry ==
  Permutations(ClientSock) \cup Permutations(Addr) \cup Permutations(Port)
    \cup Permutations(StorageDst)

=============================================================================
