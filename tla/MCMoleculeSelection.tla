------------------------ MODULE MCMoleculeSelection ------------------------
EXTENDS MoleculeSelection

MCRoles == {"docker_engine", "postgres", "nautobot"}
MCScenarios == {"default", "homarr", "homarr_v2"}

\* A chain of references, and a cycle whose scenario runs another's playbooks.
Chain == [roles |-> MCRoles, scenarios |-> MCScenarios,
          refs |-> [r \in MCRoles |-> CASE r = "nautobot" -> {"postgres"}
                                        [] r = "postgres" -> {"docker_engine"}
                                        [] OTHER -> {}],
          uses |-> [s \in MCScenarios |-> IF s = "homarr" THEN {"nautobot"} ELSE {}],
          reuses |-> [s \in MCScenarios |-> IF s = "homarr_v2" THEN {"homarr"} ELSE {}]]
Cycle == [Chain EXCEPT !.refs["docker_engine"] = {"nautobot"}, !.uses["default"] = {"docker_engine"}]
MCTrees == {Chain, Cycle}
=============================================================================
