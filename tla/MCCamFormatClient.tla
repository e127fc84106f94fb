------------------------- MODULE MCCamFormatClient -------------------------
(***************************************************************************)
(* An instance of CamFormatClient for TLC: the driver's limits, and widths *)
(* around every alignment boundary and both ends of the range.             *)
(***************************************************************************)
EXTENDS CamFormatClient

SomeWidths == {0, 79} \cup (80 .. 100) \cup (1596 .. 1604) \cup (5370 .. 5380)
SomeHeights == {0, 60, 1200, 4033}
=============================================================================
