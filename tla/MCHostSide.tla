----------------------------- MODULE MCHostSide -----------------------------
(* What the Host keeps of its episodes: the rows and records of a run       *)
(* directory, and the sandboxes of one episode with their outcomes.  Each   *)
(* behaviour is about one of the two; the other keeps one first value.      *)
EXTENDS MCRunLedger, MCSandboxLease

VARIABLE part

sideVars == <<part, ledgerVars, vars>>

HostInit ==
  /\ part \in {"ledger", "lease"} /\ LedgerInit /\ Init
  /\ part = "ledger" => ~destroyFailed /\ requested = [s \in Sandboxes |-> "destroy"]

HostNext ==
  \/ part = "ledger" /\ LedgerNext /\ UNCHANGED <<part, vars>>
  \/ part = "lease" /\ Next /\ UNCHANGED <<part, ledgerVars>>

HostSpec == HostInit /\ [][HostNext]_sideVars
=============================================================================
