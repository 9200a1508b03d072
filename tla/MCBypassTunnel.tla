--------------------------- MODULE MCBypassTunnel ---------------------------
(* Instances of BypassTunnel for TLC.                                      *)
EXTENDS BypassTunnel

=============================================================================
