------------------------- MODULE MCNautobotPipeline -------------------------
(***************************************************************************)
(* A small instance of NautobotPipeline for TLC.                            *)
(***************************************************************************)
EXTENDS NautobotPipeline, TLC

\* Drives with and without their nodes, then everything again or nothing.
Full == {"nodes", "drives"}
PartialThenFull == <<{Full, {"drives"}}, {Full, {}}>>
=============================================================================
