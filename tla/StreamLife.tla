---------------------------- MODULE StreamLife -----------------------------
(***************************************************************************)
(* What the users of the camera's video nodes are promised about           *)
(* streaming, with no pipeline, counter, reference or sub-device in it:    *)
(* frames flow from the moment the last enabled node is started until the  *)
(* first node is stopped, a node that cannot be started changes nothing,   *)
(* and the set of enabled nodes is fixed while one of them streams.        *)
(***************************************************************************)
CONSTANT Nodes

VARIABLES
  links,   \* nodes whose media link is enabled
  on,      \* nodes that stream
  live,    \* frames flow
  refuses  \* the sensor may refuse to stop

lifeVars == <<links, on, live, refuses>>

Init ==
  /\ links \in SUBSET Nodes
  /\ on = {}
  /\ live = FALSE
  /\ refuses \in BOOLEAN

Link ==
  /\ on = {}
  /\ links' \in SUBSET Nodes
  /\ UNCHANGED <<on, live>>

Start(n) ==
  /\ n \in links \ on
  /\ on' = on \cup {n}
  /\ live' = (live \/ on' = links)
  /\ UNCHANGED links

Stop(n) ==
  /\ n \in on
  /\ on' = on \ {n}
  /\ live' = FALSE \/ (refuses /\ live' = live)
  /\ UNCHANGED links

Next == UNCHANGED refuses /\ (Link \/ \E n \in Nodes : Start(n) \/ Stop(n))

Spec == Init /\ [][Next]_lifeVars
=============================================================================
