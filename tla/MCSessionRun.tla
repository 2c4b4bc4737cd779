----------------------------- MODULE MCSessionRun -----------------------------
(* Small instances of SessionRun. *)
EXTENDS SessionRun, TLC

CONSTANTS r1, r2, r3, m1, m2, p1

TwoRuns == {r1, r2}
OneModel == {m1}
TwoModels == {m1, m2}
OneProvider == {p1}

\* m2 has a bucket of its own, m1 that of their provider.
SameProvider == [m \in Models |-> p1]
SecondScoped == {m2}
NoneScoped == {}

ZeroOrOne == {0, 1}
NoCost == {0}

\* Runs are interchangeable.
Symmetry == Permutations(Runs)
=============================================================================
