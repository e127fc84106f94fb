----------------------------- MODULE MCCamMeta -----------------------------
(***************************************************************************)
(* Instances of CamMeta for TLC.                                           *)
(***************************************************************************)
EXTENDS CamMeta

\* Two buffers of either metadata node, one of both, and one with a buffer of
\* a node that has no counter of its own.
SomeBufSets ==
  {{<<3, 1>>, <<3, 2>>}, {<<4, 1>>, <<4, 2>>}, {<<3, 1>>, <<4, 1>>},
   {<<2, 1>>, <<4, 1>>}}

\* Each fault alone, and none.
SingleFaults == {{}} \cup {{f} : f \in FaultKinds}
=============================================================================
