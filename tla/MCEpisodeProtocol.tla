------------------------- MODULE MCEpisodeProtocol -------------------------
(* Every kind of run: shared and separate verification, each harness, a     *)
(* fresh and a continued solver.                                            *)
EXTENDS EpisodeProtocol

CONSTANTS solver, verifier

MCSandboxes == {solver, verifier}
MCOrder     == [s \in MCSandboxes |-> IF s = solver THEN 0 ELSE 1]
MCPolicies  == [s \in MCSandboxes |-> IF s = solver THEN {"destroy", "snapshot"} ELSE {"destroy", "keep"}]
BothFaults == {"deadline", "signal"}
NoFaults   == {}

Run(mode, harness, resume) ==
  [mode |-> mode, harness |-> harness, collect |-> mode = "separate", resume |-> resume]

MCPlans == {Run("shared", "autonomous", FALSE), Run("shared", "policy", FALSE),
            Run("separate", "autonomous", TRUE), Run("separate", "policy", FALSE),
            Run("separate", "oracle", FALSE), Run("shared", "none", FALSE)}
OnePlan == {Run("separate", "autonomous", FALSE)}
=============================================================================
