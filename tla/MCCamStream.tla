---------------------------- MODULE MCCamStream ----------------------------
(***************************************************************************)
(* Instances of CamStream for TLC.                                         *)
(***************************************************************************)
EXTENDS CamStream, TLC

CONSTANTS main, bin, meta1, meta2

Nodes2 == {main, bin}
Nodes3 == {main, bin, meta1}
Nodes4 == {main, bin, meta1, meta2}

\* Every combination of at most five kinds of faults.
FiveFaults == {fs \in SUBSET FaultKinds : Cardinality(fs) <= 5}

\* The nodes other than the main stream are interchangeable.
OtherNodes3 == Permutations({bin, meta1})
OtherNodes4 == Permutations({bin, meta1, meta2})
=============================================================================
