---------------------------- MODULE MCSessionPool ----------------------------
(* Instances of SessionPool for TLC.                                       *)
EXTENDS SessionPool, TLC

CONSTANTS s1, s2, c1, c2, c3

OneSlot    == {s1}
TwoSlots   == {s1, s2}
TwoCalls   == {c1, c2}
ThreeCalls == {c1, c2, c3}
ImageCalls == {c2}

\* Slots are interchangeable, and so are the streaming calls c1 and c3: no
\* definition tells them apart.  Used by the runs without liveness only.
Symmetry == Permutations({s1, s2}) \cup Permutations({c1, c3})
=============================================================================
