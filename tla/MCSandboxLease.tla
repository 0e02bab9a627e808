--------------------------- MODULE MCSandboxLease ---------------------------
(* An episode with a solver and a separate verifier: what EpisodeProtocol   *)
(* leases, in the order in which it leases them.                            *)
EXTENDS SandboxLease

CONSTANTS solver, verifier

MCSandboxes == {solver, verifier}
MCOrder     == [s \in MCSandboxes |-> IF s = solver THEN 0 ELSE 1]
MCPolicies  == [s \in MCSandboxes |-> IF s = solver THEN {"destroy", "keep", "snapshot"}
                                     ELSE {"destroy", "keep"}]

BothFaults == {"deadline", "signal"}
Signals    == {"signal"}
=============================================================================
