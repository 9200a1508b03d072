---------------------------- MODULE MCByteOrder ----------------------------
(* Instances of ByteOrder for TLC.                                         *)
EXTENDS ByteOrder

\* Bytes at both ends of the range and unequal neighbours, so that every
\* exchange of two of them shows.
SomeBytes == {0, 1, 127, 255}
SomeAddress == SomeBytes \X SomeBytes \X {2, 254} \X SomeBytes

\* 9000 and its reflection, and ports at the limits.
SomePorts == {<<35, 40>>, <<40, 35>>, <<0, 80>>, <<128, 0>>, <<255, 254>>}

=============================================================================
