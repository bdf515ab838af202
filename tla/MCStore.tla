------------------------------- MODULE MCStore -------------------------------
(* Instances of Store: one key, small values. *)
EXTENDS Store

OneKey == {"k"}
TwoElements == {1, 2}
TwoScores == {0, 1}
=============================================================================
