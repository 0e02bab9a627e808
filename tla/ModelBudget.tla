----------------------------- MODULE ModelBudget -----------------------------
(***************************************************************************)
(* What one Gateway session promises about model traffic, with no handler, *)
(* future or cache in sight.  A request (named by its digest) is sampled   *)
(* upstream at most once until it has an answer worth keeping; each sample *)
(* is charged once, when it starts; and once the session has refused, it   *)
(* never starts another sample.                                            *)
(*                                                                         *)
(* GatewaySession implements this specification (see GatewaySession!Budget *)
(* and the theorem in GatewaySessionProofs).                               *)
(***************************************************************************)
EXTENDS Integers

CONSTANTS Keys,       \* request digests
          MaxCharged, \* the ceiling on samples, or Unlimited
          Unlimited   \* no ceiling

VARIABLES charged,    \* samples started so far
          exhausted,  \* a token ceiling has been reached
          refused,    \* some request has been refused
          sample      \* per request: "idle", "open" or "kept"

budgetVars == <<charged, exhausted, refused, sample>>

Spent == exhausted \/ (MaxCharged # Unlimited /\ charged >= MaxCharged)

Init == /\ charged = 0
        /\ exhausted \in BOOLEAN
        /\ refused = FALSE
        /\ sample = [k \in Keys |-> "idle"]

(* A sample starts: the only step that charges, and never on a spent budget. *)
Start(k) == /\ ~Spent
            /\ sample[k] = "idle"
            /\ charged' = charged + 1
            /\ sample' = [sample EXCEPT ![k] = "open"]
            /\ UNCHANGED <<exhausted, refused>>

(* A sample is charged but fails before it reaches the provider. *)
Spoil(k) == /\ ~Spent
            /\ sample[k] = "idle"
            /\ charged' = charged + 1
            /\ UNCHANGED <<exhausted, refused, sample>>

(* An open sample ends: its answer is kept, or the request may be sampled  *)
(* again.  The tokens it reports may exhaust the budget, never restore it. *)
Settle(k) == /\ sample[k] = "open"
             /\ \E s \in {"idle", "kept"} : sample' = [sample EXCEPT ![k] = s]
             /\ exhausted' \in {exhausted, TRUE}
             /\ UNCHANGED <<charged, refused>>

(* A request meets a spent budget.  The refusal itself may be kept. *)
Refuse(k) == /\ Spent
             /\ sample[k] = "idle"
             /\ \E s \in {"idle", "kept"} : sample' = [sample EXCEPT ![k] = s]
             /\ refused' = TRUE
             /\ UNCHANGED <<charged, exhausted>>

Next == \E k \in Keys : Start(k) \/ Spoil(k) \/ Settle(k) \/ Refuse(k)

Spec == Init /\ [][Next]_budgetVars
=============================================================================
