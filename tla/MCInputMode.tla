---------------------------- MODULE MCInputMode ----------------------------
(***************************************************************************)
(* Instances of InputMode for TLC.                                         *)
(***************************************************************************)
EXTENDS InputMode

\* Each fault alone, and none.
SingleFaults == {F \in SUBSET FaultKinds : Cardinality(F) <= 1}
=============================================================================
