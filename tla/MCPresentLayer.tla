--------------------------- MODULE MCPresentLayer ---------------------------
(***************************************************************************)
(* Instances of PresentLayer for TLC.                                      *)
(***************************************************************************)
EXTENDS PresentLayer

\* Synchronised presents paced at an interval, with room for n swapchains.
Paced(interval, n) ==
  [sync |-> TRUE, no_wait |-> FALSE, debug |-> FALSE, interval |-> interval,
   slots |-> n]

With(e, F) == {[env |-> e, faults |-> f] : f \in F}

\* The default; pacing with room for every swapchain or for one; an interval of
\* a second; no wait; tracing alone; the hook out of the way.  Each fault
\* comes with the environments it touches; handles may be reused in most.
MCScenarios ==
  With(Paced(0, 1), {{"reuse"}, {"lost"}, {"queue"}, {"calloc"}})
  \cup With(Paced(1, 2),
            {{}, {"reuse"}, {"race", "reuse"}, {"signal", "reuse"},
             {"preempt", "reuse"}, {"several", "reuse"}})
  \cup With(Paced(1, 1), {{}, {"reuse"}, {"race", "reuse"}})
  \cup With(Paced(2, 2), {{"reuse"}})
  \cup With([Paced(1, 2) EXCEPT !.no_wait = TRUE], {{"reuse"}})
  \cup With([Paced(0, 1) EXCEPT !.debug = TRUE], {{"reuse"}})
  \cup With([Paced(1, 1) EXCEPT !.sync = FALSE], {{"reuse"}})
=============================================================================
