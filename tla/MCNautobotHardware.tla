------------------------- MODULE MCNautobotHardware -------------------------
(***************************************************************************)
(* A small instance of NautobotHardware for TLC: one row, of drives (in a   *)
(* chassis that reports no drives it is treated like any other row).        *)
(***************************************************************************)
EXTENDS NautobotHardware, TLC

CONSTANTS r1, c1, c2, s1, w1, f1, v1, v2

\* One drive, as its node reports it on a SAS and on a SATA port.
BothReports == {[serial |-> w1, wwn |-> w1], [serial |-> s1, wwn |-> w1]}
=============================================================================
