------------------------------ MODULE Scenario ------------------------------
(***************************************************************************)
(* The common ground of the modules about sequential code (requests,       *)
(* errors, prices, lookups, rankings and the like): one variable that      *)
(* holds the case under way, a record whose kind names the module it       *)
(* belongs to.  The modules add their cases and share one run.             *)
(***************************************************************************)
EXTENDS Naturals, Sequences, FiniteSets, SequencesExt

VARIABLE scenario

\* No case has been chosen.
Idle == [kind |-> "idle"]

Init == scenario = Idle

\* The sequences made of s's elements, one after another.
Gather(s, F(_)) == FlattenSeq([i \in DOMAIN s |-> F(s[i])])

\* The elements of s that satisfy P, each as F makes it.
Pick(s, P(_), F(_)) == Gather(s, LAMBDA x : IF P(x) THEN <<F(x)>> ELSE <<>>)
=============================================================================
