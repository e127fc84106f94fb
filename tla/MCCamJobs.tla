----------------------------- MODULE MCCamJobs -----------------------------
(***************************************************************************)
(* Instances of CamJobs for TLC.                                           *)
(***************************************************************************)
EXTENDS CamJobs, TLC

CONSTANTS b1, b2, b3, r1, r2, r3

Bufs1 == {b1}
Bufs2 == {b1, b2}
Reqs2 == {r1, r2}
Bufs3 == {b1, b2, b3}
Reqs3 == {r1, r2, r3}

\* One kind of fault at a time; a handler that outlives an SCP round trip is
\* excluded.
SingleFaults == {{f} : f \in FaultKinds \ {"slowirq"}}

\* Buffers and request addresses are interchangeable: no action compares them.
Symmetry3 == Permutations(Bufs3) \cup Permutations(Reqs3)
=============================================================================
