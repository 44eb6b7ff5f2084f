-------------------------- MODULE MCNtfyZammadBridge --------------------------
(***************************************************************************)
(* Small instances of NtfyZammadBridge for TLC.                            *)
(***************************************************************************)
EXTENDS NtfyZammadBridge, TLC

CONSTANTS k1, k2, s1, s2

OneKey == {k1}
TwoKeys == {k1, k2}
OneSev == {s1}
TwoSevs == {s1, s2}

Symmetric == Permutations(Keys) \cup Permutations(Sevs)

NoTickets == {}

\* A ticket with the alert's title that an operator opened, or opened and tagged.
ForeignTickets ==
    [key : {k1}, state : {"open"}, managed : BOOLEAN, closedAt : {0}, log : {<<>>}]

NoDenied == {}
FirstDenied == {1}
=============================================================================
