-------------------------- MODULE MCAnswerAdapter --------------------------
(***************************************************************************)
(* Small instances of AnswerAdapter.                                       *)
(***************************************************************************)
EXTENDS AnswerAdapter

\* One bill in which every kind of token differs from the others.
MCBills == {[fresh |-> 5, read |-> 2, write |-> 1, message |-> 4, think |-> 3]}

MCBases == {0, 1}
=============================================================================
