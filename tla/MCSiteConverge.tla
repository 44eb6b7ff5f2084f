--------------------------- MODULE MCSiteConverge ---------------------------
(***************************************************************************)
(* Small sites for TLC, one play of each form that site.yml has.           *)
(***************************************************************************)
EXTENDS SiteConverge, TLC

CONSTANTS h1, h2, ctl

TwoHosts == {h1, h2}

Plain(on, list) == [on |-> on, isolated |-> FALSE, tasks |-> list]
Isolated(on, list) == [on |-> on, isolated |-> TRUE, tasks |-> list]

Publish == Plain({ctl}, <<"publish">>)
Budget == Plain({ctl}, <<"budget">>)
Gate == Plain({ctl}, <<"gate">>)

\* Configuration, an isolated play that gathers, a budget gate, an isolated play
\* that does not gather, the play for VDI guests, and the final gate.
SmallSite ==
    << Publish, Isolated({h1}, <<"gather", "verify", "work">>), Budget,
       Isolated({h1, h2}, <<"work">>), Plain({h2}, <<"local", "away">>), Gate >>

\* A baseline play for all hosts, a budget gate, and a host's own play.
BudgetSite == << Publish, Plain({h1, h2}, <<"work">>), Budget, Plain({h1}, <<"work">>) >>

\* A run with --tags vdi.
VdiSite == << Publish, Plain({h2}, <<"local", "away">>), Gate >>
=============================================================================
