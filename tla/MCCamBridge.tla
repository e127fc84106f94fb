---------------------------- MODULE MCCamBridge ----------------------------
(***************************************************************************)
(* Instances of CamBridge for TLC.                                         *)
(***************************************************************************)
EXTENDS CamBridge

\* The buffer of bridge.c, two of the main stream, and one of the main stream
\* with one of another node.
SomeBufSets ==
  {{Buf0}, {Buf0, <<Main, 1>>}, {Buf0, <<Other, 0>>}, {Buf0, <<Aao, 0>>}}

\* Each fault alone, and none.
SingleFaults == {{}} \cup {{f} : f \in FaultKinds}
=============================================================================
