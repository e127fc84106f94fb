---------------------------- MODULE MCCamConfig ----------------------------
(***************************************************************************)
(* Instances of CamConfig for TLC.  Limits of 4x1 to 8x2 pixels keep       *)
(* buffers of a few sizes apart; Small is below the largest output, so     *)
(* that stream-on is sometimes refused, Odd has a code the ISP refuses.    *)
(***************************************************************************)
EXTENDS CamConfig

Large == [code |-> [order |-> 0, bits |-> 10], w |-> 8, h |-> 2]
Small == [code |-> [order |-> 0, bits |-> 10], w |-> 6, h |-> 2]
Odd == [code |-> NoCode, w |-> 8, h |-> 2]

TwoFmts == {Large, Small}
ThreeFmts == {Large, Small, Odd}

Raw10 == [pack |-> "MB", order |-> 0, bits |-> 10]
FullG12 == [pack |-> "MF", order |-> 0, bits |-> 12]

Formats == {[f |-> Raw10, w |-> 8, h |-> 2], [f |-> FullG12, w |-> 4, h |-> 1]}
SomeRequests == Formats \cup {[f |-> Raw10, w |-> 4, h |-> 1]}
SomeSizes == {8, 24, 48}

TwoPorts == {0, 1}
Both == {"main", "bin"}

\* Two sensors and pad formats, one image node that keeps its format.
PadScope == [ports |-> TwoPorts, nodes |-> {"main"}, fmts |-> ThreeFmts,
             requests |-> SomeRequests \ Formats, exclusive |-> TRUE,
             late |-> FALSE]

\* The same with formats set at any time.
LateScope == [PadScope EXCEPT !.late = TRUE, !.fmts = {Large, Odd}]

\* One sensor, both image nodes, their formats and buffers.
BufScope == [ports |-> {0}, nodes |-> Both, fmts |-> TwoFmts,
             requests |-> Formats, exclusive |-> TRUE, late |-> FALSE]

\* Links of both sensors enabled together, and formats set at any time.
LinkScope == [PadScope EXCEPT !.fmts = TwoFmts, !.exclusive = FALSE,
                              !.late = TRUE]

AllScopes == {PadScope, LateScope, BufScope, LinkScope}
=============================================================================
