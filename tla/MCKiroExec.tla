----------------------------- MODULE MCKiroExec -----------------------------
(* Small instances of KiroExec for TLC.                                     *)
EXTENDS KiroExec, TLC

TwoSteps == <<1, 2>>
OneStep == <<1>>

Symmetry == Permutations(Requests) \cup Permutations(Accounts)
=============================================================================
