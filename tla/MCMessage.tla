----------------------------- MODULE MCMessage ------------------------------
(* An instance of Message in which the callers keep to what its theorems   *)
(* ask of them.                                                            *)
EXTENDS Message

ASSUME CallersAssumption == SizesFit
=============================================================================
