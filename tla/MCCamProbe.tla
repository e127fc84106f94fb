----------------------------- MODULE MCCamProbe -----------------------------
(***************************************************************************)
(* Instances of CamProbe for TLC.                                          *)
(***************************************************************************)
EXTENDS CamProbe, TLC

CONSTANTS front, back

\* The two sensors of the tablet, of which nothing tells one from the other.
Sensors2 == {front, back}
SensorSymmetry == Permutations(Sensors2)

\* Every combination of faults.
AllFaultSets == SUBSET FaultKinds
=============================================================================
