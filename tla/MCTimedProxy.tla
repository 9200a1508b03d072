---------------------------- MODULE MCTimedProxy ----------------------------
(* Instances of TimedProxy for TLC.                                        *)
EXTENDS TimedProxy

Plain(char) == [char |-> char, escaped |-> FALSE]
Escaped(char) == [char |-> char, escaped |-> TRUE]

\* "/b/a%3Fx" and "/b/a"
WithEscape ==
  [path |-> <<Plain("b"), Plain("a"), Escaped("?"), Plain("x")>>,
   query |-> <<>>]
WithNeither == [path |-> <<Plain("b"), Plain("a")>>, query |-> <<>>]

\* "/b?location"
Location == [path |-> <<Plain("b")>>, query |-> <<"location">>]

ThreeTargets == {WithEscape, WithNeither, Location}
NoObject == {Location}

\* Version 1 of every blob has no bytes.
FirstVersionEmpty == Blob \X {1}

=============================================================================
