------------------------- MODULE SandboxLeaseProofs -------------------------
(***************************************************************************)
(* Theorems about SandboxLease: for every set of sandboxes, every retention *)
(* policy and every cancellation.  The inductive invariant is               *)
(* LeaseInvariant; each of its parts has a lemma, with one step per action. *)
(***************************************************************************)
EXTENDS SandboxLease, TLAPS

Labels == Outcomes \cup {"none"}

(* A recorded outcome stays a count of outcomes (_destroy, finalize). *)
LEMMA AddOutcomeType ==
  ASSUME outcomes \in [Sandboxes -> [Outcomes -> Nat]], NEW s \in Sandboxes,
         NEW label \in Labels, AddOutcome(s, label)
  PROVE  outcomes' \in [Sandboxes -> [Outcomes -> Nat]]
BY DEF AddOutcome, Labels

(* What a task awaits is one of the lease's operations, or nothing. *)
LEMMA NoWaitType ==
  ASSUME TypeOK, NEW t \in Tasks
  PROVE  /\ [call EXCEPT ![t] = NoWait] \in [Tasks -> Calls]
         /\ call[t].label \in Labels
<1>1. NoWait \in Calls
  BY DEF NoWait, Calls
<1>2. call \in [Tasks -> Calls]
  BY DEF TypeOK
<1>3. call[t] \in Calls
  BY <1>2
<1>4. call[t].label \in Labels
  BY <1>3 DEF Calls, Labels
<1>5. QED BY <1>1, <1>2, <1>4

(* A task that awaits the provider has a call of the types. *)
LEMMA CallType ==
  ASSUME TypeOK, NEW t \in Tasks, NEW s \in Sandboxes, NEW label \in Labels,
         NEW u \in {"destroy", "retain", "snapshot", "unsave"}
  PROVE  [call EXCEPT ![t] = [await |-> u, box |-> s, label |-> label]] \in [Tasks -> Calls]
<1>1. [await |-> u, box |-> s, label |-> label] \in Calls
  BY DEF Calls, Labels
<1>2. call \in [Tasks -> Calls]
  BY DEF TypeOK
<1>3. QED BY <1>1, <1>2

(* The ways into and out of sandbox.destroy() keep the types. *)
LEMMA StartDestroyType ==
  ASSUME TypeOK, NEW t \in Tasks, NEW s \in Sandboxes, NEW label \in Labels,
         StartDestroy(t, s, label)
  PROVE  /\ closing' \in [Sandboxes -> BOOLEAN]
         /\ call' \in [Tasks -> Calls]
<1>1. call' \in [Tasks -> Calls]
  BY CallType DEF StartDestroy
<1>2. closing' \in [Sandboxes -> BOOLEAN]
  BY DEF StartDestroy, TypeOK
<1>3. QED BY <1>1, <1>2

(* A destroy that finds another one under way keeps the types. *)
LEMMA AlreadyDestroyedType ==
  ASSUME TypeOK, NEW t \in Tasks, NEW s \in Sandboxes, NEW label \in Labels,
         AlreadyDestroyed(t, s, label)
  PROVE  /\ live' \subseteq Sandboxes
         /\ outcomes' \in [Sandboxes -> [Outcomes -> Nat]]
         /\ call' \in [Tasks -> Calls]
<1>1. call' \in [Tasks -> Calls]
  BY NoWaitType DEF AlreadyDestroyed
<1>2. outcomes' \in [Sandboxes -> [Outcomes -> Nat]]
  BY AddOutcomeType DEF AlreadyDestroyed, TypeOK
<1>3. live' \subseteq Sandboxes
  BY DEF AlreadyDestroyed, TypeOK
<1>4. QED BY <1>1, <1>2, <1>3

(* A destroy that returns or raises keeps the types. *)
LEMMA DestroyReturnsType ==
  ASSUME TypeOK, NEW t \in Tasks, NEW s \in Sandboxes, NEW ok \in BOOLEAN,
         DestroyReturns(t, s, ok)
  PROVE  /\ machine' \in [Sandboxes -> {"none", "up", "stuck", "gone"}]
         /\ live' \subseteq Sandboxes
         /\ outcomes' \in [Sandboxes -> [Outcomes -> Nat]]
         /\ call' \in [Tasks -> Calls]
<1>1. call' \in [Tasks -> Calls]
  BY NoWaitType DEF DestroyReturns
<1>2. outcomes' \in [Sandboxes -> [Outcomes -> Nat]]
  <2>1. call[t].label \in Labels
    BY NoWaitType
  <2>2. QED BY <2>1, AddOutcomeType DEF DestroyReturns, TypeOK
<1>3. live' \subseteq Sandboxes
  BY DEF DestroyReturns, TypeOK
<1>4. machine' \in [Sandboxes -> {"none", "up", "stuck", "gone"}]
  BY DEF DestroyReturns, TypeOK
<1>5. QED BY <1>1, <1>2, <1>3, <1>4

(* A destroy that is cancelled keeps the types. *)
LEMMA DestroyCancelledType ==
  ASSUME TypeOK, NEW t \in Tasks, NEW s \in Sandboxes, DestroyCancelled(t, s)
  PROVE  /\ machine' \in [Sandboxes -> {"none", "up", "stuck", "gone"}]
         /\ live' \subseteq Sandboxes
         /\ outcomes' \in [Sandboxes -> [Outcomes -> Nat]]
         /\ call' \in [Tasks -> Calls]
<1>1. call' \in [Tasks -> Calls]
  BY NoWaitType DEF DestroyCancelled
<1>2. /\ live' \subseteq Sandboxes
      /\ machine' \in [Sandboxes -> {"none", "up", "stuck", "gone"}]
      /\ outcomes' \in [Sandboxes -> [Outcomes -> Nat]]
  BY DEF DestroyCancelled, TypeOK
<1>3. QED BY <1>1, <1>2

-----------------------------------------------------------------------------
(* Type correctness. *)

(* A new lease has the types. *)
LEMMA InitTypeOK == Init => TypeOK
<1> SUFFICES ASSUME Init PROVE TypeOK
  OBVIOUS
<1>1. NoWait \in Calls
  BY DEF NoWait, Calls
<1>2. call \in [Tasks -> Calls]
  BY <1>1 DEF Init
<1>3. outcomes \in [Sandboxes -> [Outcomes -> Nat]]
  BY DEF Init, NoOutcome
<1>4. QED BY <1>2, <1>3 DEF Init, TypeOK

(* Every action keeps the types. *)
LEMMA NextTypeOK ==
  ASSUME TypeOK, [Next]_vars
  PROVE  TypeOK'
<1> DEFINE CallsOK    == call' \in [Tasks -> Calls]
           OutcomesOK == outcomes' \in [Sandboxes -> [Outcomes -> Nat]]
           PhasesOK   == /\ main' \in {"protocol", "awaiting_teardown", "finalizing", "releasing",
                                       "recording", "undoing", "exited"}
                         /\ teardown' \in {"idle", "running", "done"}
                         /\ verdict' \in {"none", "completed", "timeout", "failed"}
                         /\ unwinding' \in {"none", "timeout", "failed", "cancelled"}
           FlagsOK    == /\ todo' \subseteq Sandboxes /\ disturbed' \subseteq {"deadline", "signal"}
                         /\ allow' \in BOOLEAN /\ failed' \in BOOLEAN /\ destroyFailed' \in BOOLEAN
<1>0. /\ \A s \in Sandboxes : {ReleaseLabel(s), DoomLabel(s)} \subseteq Labels
      /\ {"none", "destroyed", "retention-failed", "retained", "snapshotted"} \subseteq Labels
      /\ "main" \in Tasks /\ "teardown" \in Tasks
  BY DEF Tasks, Labels, Outcomes, ReleaseLabel, DoomLabel
<1>1. ASSUME NEW s \in Sandboxes, Acquire(s) PROVE TypeOK'
  BY <1>0, <1>1 DEF TypeOK, Acquire, InProtocol, runVars, leaseVars, boxVars, mainVars
<1>2. ASSUME NEW s \in Sandboxes, DeadlineInRelease(s) PROVE TypeOK'
  BY <1>0, <1>2, DestroyCancelledType DEF DeadlineInRelease, TypeOK, runVars, leaseVars, boxVars, mainVars
<1>3. ASSUME NEW t \in Tasks, NEW s \in Sandboxes, MarkSanitized(t, s) PROVE TypeOK'
  <2>1. sanitation' \in [Sandboxes -> {"not-run", "succeeded", "failed"}]
    BY <1>3 DEF TypeOK, MarkSanitized
  <2>2. /\ UNCHANGED runVars /\ UNCHANGED boxVars /\ UNCHANGED mainVars
        /\ UNCHANGED <<live, retained, outcomes, call, teardown, unwinding, disturbed>>
    BY <1>3 DEF MarkSanitized
  <2>3. UNCHANGED <<requested, machine, closing, saved, main, todo, allow, verdict, failed,
                    destroyFailed>>
    BY <2>2 DEF runVars, boxVars, mainVars
  <2>4. /\ requested' \in [Sandboxes -> Policies] /\ live' \subseteq Sandboxes
        /\ retained' \subseteq Sandboxes /\ CallsOK /\ OutcomesOK
    BY <2>2, <2>3 DEF TypeOK
  <2>5. /\ machine' \in [Sandboxes -> {"none", "up", "stuck", "gone"}]
        /\ closing' \in [Sandboxes -> BOOLEAN] /\ saved' \in [Sandboxes -> BOOLEAN]
    BY <2>3 DEF TypeOK
  <2>6. PhasesOK /\ FlagsOK
    BY <2>2, <2>3 DEF TypeOK
  <2>7. QED BY <2>1, <2>4, <2>5, <2>6 DEF TypeOK
<1>4. ASSUME NEW t \in Tasks, NEW s \in Sandboxes, Release(t, s) PROVE TypeOK'
  <2>1. ReleaseLabel(s) \in Labels
    BY <1>0
  <2>2. CallsOK /\ OutcomesOK /\ live' \subseteq Sandboxes /\ closing' \in [Sandboxes -> BOOLEAN]
    <3>1. CASE StartDestroy(t, s, ReleaseLabel(s)) /\ UNCHANGED <<live, outcomes>>
      BY <2>1, <3>1, StartDestroyType DEF TypeOK
    <3>2. CASE AlreadyDestroyed(t, s, ReleaseLabel(s)) /\ UNCHANGED closing
      BY <2>1, <3>2, AlreadyDestroyedType DEF TypeOK
    <3>3. QED BY <1>4, <3>1, <3>2 DEF Release
  <2>3. /\ UNCHANGED runVars /\ UNCHANGED mainVars
        /\ UNCHANGED <<sanitation, retained, machine, saved, teardown, unwinding, disturbed>>
    BY <1>4 DEF Release
  <2>4. UNCHANGED <<requested, main, todo, allow, verdict, failed, destroyFailed>>
    BY <2>3 DEF runVars, mainVars
  <2>5. /\ requested' \in [Sandboxes -> Policies] /\ retained' \subseteq Sandboxes
        /\ sanitation' \in [Sandboxes -> {"not-run", "succeeded", "failed"}]
    BY <2>3, <2>4 DEF TypeOK
  <2>6. /\ machine' \in [Sandboxes -> {"none", "up", "stuck", "gone"}]
        /\ saved' \in [Sandboxes -> BOOLEAN]
    BY <2>3 DEF TypeOK
  <2>7. PhasesOK /\ FlagsOK
    BY <2>3, <2>4 DEF TypeOK
  <2>8. QED BY <2>2, <2>5, <2>6, <2>7 DEF TypeOK
<1>5. ASSUME NEW t \in Tasks, NEW s \in Sandboxes, Released(t, s) PROVE TypeOK'
  <2>1. /\ CallsOK /\ OutcomesOK /\ live' \subseteq Sandboxes
        /\ machine' \in [Sandboxes -> {"none", "up", "stuck", "gone"}]
    BY <1>5, DestroyReturnsType DEF Released
  <2>2. unwinding' \in {"none", "timeout", "failed", "cancelled"}
    BY <1>5 DEF Released, TypeOK
  <2>3. QED BY <1>5, <2>1, <2>2 DEF Released, TypeOK, runVars, mainVars
<1>6. ASSUME ProtocolFails PROVE TypeOK'
  BY <1>0, <1>6 DEF TypeOK, ProtocolFails, InProtocol, runVars, leaseVars, boxVars, mainVars
<1>7. ASSUME StartTeardown PROVE TypeOK'
  BY <1>0, <1>7 DEF TypeOK, StartTeardown, runVars, leaseVars, boxVars, mainVars
<1>8. ASSUME TeardownEnds PROVE TypeOK'
  BY <1>0, <1>8 DEF TypeOK, TeardownEnds, runVars, leaseVars, boxVars, mainVars
<1>9. ASSUME SignalInProtocol PROVE TypeOK'
  <2>1. CallsOK /\ OutcomesOK /\ live' \subseteq Sandboxes /\ machine' \in [Sandboxes -> {"none", "up", "stuck", "gone"}]
    BY <1>0, <1>9, DestroyCancelledType DEF SignalInProtocol, TypeOK
  <2>2. QED BY <1>9, <2>1 DEF SignalInProtocol, TypeOK, runVars, leaseVars, boxVars, mainVars
<1>10. ASSUME ProtocolEnds PROVE TypeOK'
  <2>1. PICK v \in VerdictsOf(unwinding) : verdict' = v /\ allow' = MayRetain(v)
    BY <1>10 DEF ProtocolEnds
  <2>2. v \in {"none", "completed", "timeout", "failed"}
    BY DEF VerdictsOf, TypeOK
  <2>3. QED BY <1>10, <2>1, <2>2 DEF ProtocolEnds, MayRetain, TypeOK, runVars, leaseVars, boxVars
<1>11. ASSUME FinalizeEnds PROVE TypeOK'
  BY <1>0, <1>11 DEF TypeOK, FinalizeEnds, runVars, leaseVars, boxVars, mainVars
<1>12. ASSUME ReleaseEnds PROVE TypeOK'
  BY <1>0, <1>12 DEF TypeOK, ReleaseEnds, runVars, leaseVars, boxVars, mainVars
<1>13. ASSUME Record PROVE TypeOK'
  BY <1>0, <1>13 DEF TypeOK, Record, runVars, leaseVars, boxVars, mainVars
<1>14. ASSUME UndoEnds PROVE TypeOK'
  BY <1>0, <1>14 DEF TypeOK, UndoEnds, runVars, leaseVars, boxVars, mainVars
<1>15. ASSUME NEW s \in Sandboxes, FinalizeEntry(s) PROVE TypeOK'
  <2>1. CASE Doomed(s)
    BY <1>0, <1>15, <2>1, StartDestroyType, AlreadyDestroyedType
       DEF FinalizeEntry, Turn, TypeOK, runVars
  <2>2. CASE ~Doomed(s)
    <3>1. PICK u \in {"snapshot", "retain"} :
            call' = [call EXCEPT !["main"] = [await |-> u, box |-> s, label |-> "none"]]
      BY <1>15, <2>2 DEF FinalizeEntry
    <3>2. CallsOK
      BY <1>0, <3>1, CallType
    <3>3. QED BY <1>15, <2>2, <3>2 DEF FinalizeEntry, TypeOK, runVars
  <2>3. QED BY <2>1, <2>2
<1>16. ASSUME NEW s \in Sandboxes, RetainReturns(s) PROVE TypeOK'
  <2>1. CASE StartDestroy("main", s, "retention-failed") /\ UNCHANGED <<live, retained, outcomes, todo>>
    BY <1>0, <1>16, <2>1, StartDestroyType DEF RetainReturns, TypeOK, runVars
  <2>2. CASE AddOutcome(s, "retained") /\ call' = [call EXCEPT !["main"] = NoWait] /\ UNCHANGED closing
    <3>1. CallsOK /\ OutcomesOK
      BY <1>0, <1>16, <2>2, AddOutcomeType, NoWaitType DEF TypeOK
    <3>2. QED BY <1>16, <2>2, <3>1 DEF RetainReturns, TypeOK, runVars
  <2>3. QED BY <1>16, <2>1, <2>2 DEF RetainReturns
<1>17. ASSUME NEW s \in Sandboxes, SnapshotReturns(s) PROVE TypeOK'
  <2>1. OutcomesOK
    BY <1>0, <1>17, AddOutcomeType DEF SnapshotReturns, TypeOK
  <2>2. CallsOK /\ closing' \in [Sandboxes -> BOOLEAN]
    BY <1>0, <1>17, StartDestroyType DEF SnapshotReturns
  <2>3. saved' \in [Sandboxes -> BOOLEAN] /\ retained' \subseteq Sandboxes
    BY <1>17 DEF SnapshotReturns, TypeOK
  <2>4. /\ UNCHANGED runVars /\ UNCHANGED mainVars
        /\ UNCHANGED <<live, sanitation, machine, teardown, unwinding, disturbed>>
    BY <1>17 DEF SnapshotReturns
  <2>5. UNCHANGED <<requested, main, todo, allow, verdict, failed, destroyFailed>>
    BY <2>4 DEF runVars, mainVars
  <2>6. /\ requested' \in [Sandboxes -> Policies] /\ live' \subseteq Sandboxes
        /\ sanitation' \in [Sandboxes -> {"not-run", "succeeded", "failed"}]
        /\ machine' \in [Sandboxes -> {"none", "up", "stuck", "gone"}]
    BY <2>4, <2>5 DEF TypeOK
  <2>7. PhasesOK /\ FlagsOK
    BY <2>4, <2>5 DEF TypeOK
  <2>8. QED BY <2>1, <2>2, <2>3, <2>6, <2>7 DEF TypeOK
<1>18. ASSUME NEW s \in Sandboxes, FinalizeDestroyed(s) PROVE TypeOK'
  BY <1>0, <1>18, DestroyReturnsType DEF FinalizeDestroyed, TypeOK, runVars, leaseVars, boxVars, mainVars
<1>19. ASSUME NEW s \in Sandboxes, ReleaseEntry(s) PROVE TypeOK'
  BY <1>0, <1>19, StartDestroyType, AlreadyDestroyedType DEF Turn, ReleaseEntry, TypeOK, runVars, leaseVars, boxVars, mainVars
<1>20. ASSUME NEW s \in Sandboxes, ReleaseDestroyed(s) PROVE TypeOK'
  BY <1>0, <1>20, DestroyReturnsType DEF ReleaseDestroyed, TypeOK, runVars, leaseVars, boxVars, mainVars
<1>21. ASSUME NEW s \in Sandboxes, UndoEntry(s) PROVE TypeOK'
  <2>1. OutcomesOK
    <3>1. Withdrawn(s) \in [Outcomes -> Nat]
      BY DEF Withdrawn, Outcomes, TypeOK
    <3>2. outcomes' = [outcomes EXCEPT ![s] = Withdrawn(s)]
      BY <1>21 DEF UndoEntry
    <3>3. QED BY <3>1, <3>2 DEF TypeOK
  <2>2. CASE saved[s]
    <3>1. call' = [call EXCEPT !["main"] = [await |-> "unsave", box |-> s, label |-> "destroyed"]]
      BY <1>21, <2>2 DEF UndoEntry
    <3>2. CallsOK
      BY <1>0, <3>1, CallType
    <3>3. QED BY <1>21, <2>1, <2>2, <3>2 DEF UndoEntry, TypeOK, runVars, mainVars
  <2>3. CASE ~saved[s]
    <3>1. CallsOK /\ closing' \in [Sandboxes -> BOOLEAN]
      BY <1>0, <1>21, <2>3, StartDestroyType DEF UndoEntry
    <3>2. QED BY <1>21, <2>1, <3>1 DEF UndoEntry, TypeOK, runVars, mainVars
  <2>4. QED BY <2>2, <2>3
<1>22. ASSUME NEW s \in Sandboxes, UndoReturns(s) PROVE TypeOK'
  <2>1. PICK ok \in BOOLEAN :
          /\ \/ DestroyReturns("main", s, ok) /\ UNCHANGED saved
             \/ /\ saved' = IF ok THEN [saved EXCEPT ![s] = FALSE] ELSE saved
                /\ AddOutcome(s, "destroyed")
                /\ call' = [call EXCEPT !["main"] = NoWait]
                /\ UNCHANGED <<machine, live>>
          /\ verdict' = IF ok THEN verdict ELSE "failed"
    BY <1>22 DEF UndoReturns
  <2>2. CallsOK /\ OutcomesOK /\ live' \subseteq Sandboxes /\ machine' \in [Sandboxes -> {"none", "up", "stuck", "gone"}]
    <3>1. outcomes \in [Sandboxes -> [Outcomes -> Nat]] /\ live \subseteq Sandboxes
          /\ machine \in [Sandboxes -> {"none", "up", "stuck", "gone"}]
      BY DEF TypeOK
    <3>2. QED BY <1>0, <2>1, <3>1, DestroyReturnsType, AddOutcomeType, NoWaitType
  <2>3. saved' \in [Sandboxes -> BOOLEAN] /\ verdict' \in {"none", "completed", "timeout", "failed"}
    BY <2>1 DEF TypeOK
  <2>4. QED BY <1>22, <2>2, <2>3 DEF UndoReturns, TypeOK, runVars
<1>23. ASSUME SignalInFinalize PROVE TypeOK'
  <2>1. CallsOK /\ OutcomesOK /\ live' \subseteq Sandboxes /\ machine' \in [Sandboxes -> {"none", "up", "stuck", "gone"}]
    <3>1. outcomes \in [Sandboxes -> [Outcomes -> Nat]] /\ live \subseteq Sandboxes
          /\ machine \in [Sandboxes -> {"none", "up", "stuck", "gone"}]
      BY DEF TypeOK
    <3>2. PICK s \in Sandboxes :
            \/ DestroyCancelled("main", s)
            \/ /\ call' = [call EXCEPT !["main"] = NoWait]
               /\ AddOutcome(s, "destroyed") \/ UNCHANGED outcomes
               /\ UNCHANGED <<machine, live>>
      BY <1>23 DEF SignalInFinalize
    <3>3. CASE DestroyCancelled("main", s)
      BY <1>0, <3>3, DestroyCancelledType
    <3>4. CASE /\ call' = [call EXCEPT !["main"] = NoWait]
               /\ AddOutcome(s, "destroyed") \/ UNCHANGED outcomes
               /\ UNCHANGED <<machine, live>>
      <4>1. CallsOK
        BY <1>0, <3>4, NoWaitType
      <4>2. OutcomesOK
        BY <1>0, <3>1, <3>4, AddOutcomeType
      <4>3. QED BY <3>1, <3>4, <4>1, <4>2
    <3>5. QED BY <3>2, <3>3, <3>4
  <2>2. saved' \in [Sandboxes -> BOOLEAN]
    BY <1>23 DEF SignalInFinalize, TypeOK
  <2>3. QED BY <1>23, <2>1, <2>2 DEF SignalInFinalize, TypeOK, runVars
<1>24. ASSUME LoopCloses PROVE TypeOK'
  <2>1. CallsOK /\ OutcomesOK /\ live' \subseteq Sandboxes /\ machine' \in [Sandboxes -> {"none", "up", "stuck", "gone"}]
    BY <1>0, <1>24, DestroyCancelledType DEF LoopCloses, TypeOK
  <2>2. QED BY <1>24, <2>1 DEF LoopCloses, TypeOK, runVars, leaseVars, boxVars, mainVars
<1>25. CASE UNCHANGED vars
  <2>1. /\ UNCHANGED runVars /\ UNCHANGED leaseVars /\ UNCHANGED boxVars /\ UNCHANGED mainVars
        /\ UNCHANGED <<call, teardown, unwinding, disturbed>>
    BY <1>25 DEF vars
  <2>2. /\ UNCHANGED <<requested, live, sanitation, retained, outcomes>>
        /\ UNCHANGED <<machine, closing, saved, main, todo, allow, verdict, failed, destroyFailed>>
    BY <2>1 DEF runVars, leaseVars, boxVars, mainVars
  <2>3. /\ requested' \in [Sandboxes -> Policies] /\ live' \subseteq Sandboxes
        /\ retained' \subseteq Sandboxes /\ CallsOK /\ OutcomesOK
    BY <2>1, <2>2 DEF TypeOK
  <2>4. /\ sanitation' \in [Sandboxes -> {"not-run", "succeeded", "failed"}]
        /\ machine' \in [Sandboxes -> {"none", "up", "stuck", "gone"}]
        /\ closing' \in [Sandboxes -> BOOLEAN] /\ saved' \in [Sandboxes -> BOOLEAN]
    BY <2>2 DEF TypeOK
  <2>5. PhasesOK /\ FlagsOK
    BY <2>1, <2>2 DEF TypeOK
  <2>6. QED BY <2>3, <2>4, <2>5 DEF TypeOK
<1>26. QED
  BY <1>1, <1>2, <1>3, <1>4, <1>5, <1>6, <1>7, <1>8, <1>9, <1>10, <1>11, <1>12, <1>13, <1>14, <1>15, <1>16, <1>17, <1>18, <1>19, <1>20, <1>21, <1>22, <1>23, <1>24, <1>25 DEF Next, Protocol, Finalization

-----------------------------------------------------------------------------
(* What the ways into and out of destroy() do to what the parts of the      *)
(* invariant speak of.                                                      *)

WaitIsOver(t) == /\ call'[t].await = "none" /\ call'[t].box = NoBox
                 /\ \A u \in Tasks \ {t} : call'[u] = call[u]

(* A destroy starts on a sandbox nobody is closing, and closes it. *)
LEMMA StartDestroyEffect ==
  ASSUME TypeOK, NEW t \in Tasks, NEW s \in Sandboxes, NEW label, StartDestroy(t, s, label)
  PROVE  /\ ~closing[s]
         /\ \A r \in Sandboxes : closing'[r] = (closing[r] \/ r = s)
         /\ call'[t].await = "destroy" /\ call'[t].box = s
         /\ \A u \in Tasks \ {t} : call'[u] = call[u]
BY DEF TypeOK, StartDestroy

(* A task whose call is taken back waits no more. *)
LEMMA NoWaitEffect ==
  ASSUME TypeOK, NEW t \in Tasks, call' = [call EXCEPT ![t] = NoWait]
  PROVE  WaitIsOver(t)
<1>1. NoWait.await = "none" /\ NoWait.box = NoBox
  BY DEF NoWait
<1>2. QED BY <1>1 DEF TypeOK, WaitIsOver

(* A destroy that finds the sandbox closed drops it from the lease. *)
LEMMA AlreadyDestroyedEffect ==
  ASSUME TypeOK, NEW t \in Tasks, NEW s \in Sandboxes, NEW label, AlreadyDestroyed(t, s, label)
  PROVE  closing[s] /\ live' = live \ {s} /\ WaitIsOver(t)
BY NoWaitEffect DEF AlreadyDestroyed

(* A destroy that comes back drops the sandbox, whose machine is gone or stuck. *)
LEMMA DestroyReturnsEffect ==
  ASSUME TypeOK, NEW t \in Tasks, NEW s \in Sandboxes, NEW ok, DestroyReturns(t, s, ok)
  PROVE  /\ call[t].await = "destroy" /\ call[t].box = s
         /\ live' = live \ {s}
         /\ machine'[s] \in {"gone", "stuck"}
         /\ \A r \in Sandboxes \ {s} : machine'[r] = machine[r]
         /\ WaitIsOver(t)
<1>1. WaitIsOver(t)
  BY NoWaitEffect DEF DestroyReturns
<1>2. QED BY <1>1 DEF DestroyReturns, TypeOK

(* A cancelled destroy drops the sandbox, whose machine may still be up. *)
LEMMA DestroyCancelledEffect ==
  ASSUME TypeOK, NEW t \in Tasks, NEW s \in Sandboxes, DestroyCancelled(t, s)
  PROVE  /\ call[t].await = "destroy" /\ call[t].box = s
         /\ live' = live \ {s}
         /\ machine'[s] \in {"up", "gone"}
         /\ \A r \in Sandboxes \ {s} : machine'[r] = machine[r]
         /\ WaitIsOver(t)
<1>1. WaitIsOver(t)
  BY NoWaitEffect DEF DestroyCancelled
<1>2. QED BY <1>1 DEF DestroyCancelled, TypeOK

(* A cancelled finalize leaves by way of the one operation it awaits. *)
LEMMA SignalInFinalizeEffect ==
  ASSUME TypeOK, CallsAreOwned, SignalInFinalize
  PROVE  /\ WaitIsOver("main") /\ live' \subseteq live
         /\ \A r \in Sandboxes :
              /\ saved'[r] /\ ~saved[r] => call["main"].await = "snapshot" /\ call["main"].box = r
              /\ saved[r] /\ ~saved'[r] => main = "undoing"
              /\ machine'[r] # machine[r] => call["main"].box = r /\ machine'[r] # "none"
<1>0. "main" \in Tasks /\ saved \in [Sandboxes -> BOOLEAN]
  BY DEF Tasks, TypeOK
<1>1. CASE \E s \in Sandboxes : DestroyCancelled("main", s) /\ UNCHANGED saved
  BY <1>0, <1>1, DestroyCancelledEffect
<1>2. CASE \E s \in Sandboxes :
         /\ call["main"].await \in {"retain", "snapshot", "unsave"} /\ call["main"].box = s
         /\ call' = [call EXCEPT !["main"] = NoWait]
         /\ \/ UNCHANGED saved
            \/ /\ call["main"].await # "retain"
               /\ saved' = [saved EXCEPT ![s] = call["main"].await = "snapshot"]
         /\ UNCHANGED <<machine, live>>
  <2>1. PICK s \in Sandboxes :
         /\ call["main"].await \in {"retain", "snapshot", "unsave"} /\ call["main"].box = s
         /\ call' = [call EXCEPT !["main"] = NoWait]
         /\ \/ UNCHANGED saved
            \/ /\ call["main"].await # "retain"
               /\ saved' = [saved EXCEPT ![s] = call["main"].await = "snapshot"]
         /\ UNCHANGED <<machine, live>>
    BY <1>2
  <2>2. WaitIsOver("main")
    BY <1>0, <2>1, NoWaitEffect
  <2>3. call["main"].await = "unsave" => main = "undoing"
    BY DEF CallsAreOwned
  <2>4. QED BY <1>0, <2>1, <2>2, <2>3
<1>3. QED BY <1>1, <1>2 DEF SignalInFinalize

-----------------------------------------------------------------------------
(* The other parts of the invariant. *)

(* Each task starts and leaves the awaits of its own program (release,      *)
(* finalize, release_all, destroy_retained).                                *)
LEMMA NextCallsAreOwned ==
  ASSUME TypeOK, CallsAreOwned, [Next]_vars
  PROVE  CallsAreOwned'
<1>0. /\ TypeOK /\ call \in [Tasks -> Calls]
      /\ "main" \in Tasks /\ "teardown" \in Tasks /\ \A u \in Tasks : u \in {"main", "teardown"}
  BY DEF TypeOK, Tasks
<1>1. ASSUME NEW s \in Sandboxes, Acquire(s) PROVE CallsAreOwned'
  BY <1>0, <1>1 DEF CallsAreOwned, Idle, WaitIsOver, Acquire, InProtocol, runVars, leaseVars, boxVars, mainVars
<1>2. ASSUME NEW s \in Sandboxes, DeadlineInRelease(s) PROVE CallsAreOwned'
  BY <1>0, <1>2, DestroyCancelledEffect DEF CallsAreOwned, Idle, WaitIsOver, DeadlineInRelease, runVars, leaseVars, boxVars, mainVars
<1>3. ASSUME NEW t \in Tasks, NEW s \in Sandboxes, MarkSanitized(t, s) PROVE CallsAreOwned'
  BY <1>0, <1>3 DEF CallsAreOwned, Idle, WaitIsOver, MarkSanitized, InProtocol, runVars, leaseVars, boxVars, mainVars
<1>4. ASSUME NEW t \in Tasks, NEW s \in Sandboxes, Release(t, s) PROVE CallsAreOwned'
  <2>1. CASE StartDestroy(t, s, ReleaseLabel(s))
    <3>1. CASE t = "main"
      BY <1>0, <1>4, <2>1, <3>1, StartDestroyEffect DEF Release, InProtocol, CallsAreOwned, Idle, mainVars
    <3>2. CASE t = "teardown"
      <4>1. teardown = "running" /\ UNCHANGED <<main, teardown>>
        BY <1>4, <3>2 DEF Release, InProtocol, mainVars
      <4>2. /\ call'["teardown"].await = "destroy" /\ call'["teardown"].box = s
            /\ call'["main"] = call["main"]
        BY <1>0, <2>1, <3>2, StartDestroyEffect
      <4>3. QED BY <1>0, <4>1, <4>2 DEF CallsAreOwned, Idle
    <3>3. QED BY <1>0, <3>1, <3>2
  <2>2. CASE AlreadyDestroyed(t, s, ReleaseLabel(s))
    BY <1>0, <1>4, <2>2, AlreadyDestroyedEffect DEF Release, InProtocol, CallsAreOwned, Idle, WaitIsOver, mainVars
  <2>3. QED BY <1>4, <2>1, <2>2 DEF Release
<1>5. ASSUME NEW t \in Tasks, NEW s \in Sandboxes, Released(t, s) PROVE CallsAreOwned'
  <2>1. WaitIsOver(t) /\ UNCHANGED <<main, teardown>>
    BY <1>0, <1>5, DestroyReturnsEffect DEF Released, mainVars
  <2>2. QED BY <1>0, <2>1 DEF CallsAreOwned, Idle, WaitIsOver
<1>6. ASSUME ProtocolFails PROVE CallsAreOwned'
  BY <1>0, <1>6 DEF CallsAreOwned, Idle, WaitIsOver, ProtocolFails, InProtocol, runVars, leaseVars, boxVars, mainVars
<1>7. ASSUME StartTeardown PROVE CallsAreOwned'
  BY <1>0, <1>7 DEF CallsAreOwned, Idle, WaitIsOver, StartTeardown, runVars, leaseVars, boxVars, mainVars
<1>8. ASSUME TeardownEnds PROVE CallsAreOwned'
  BY <1>0, <1>8 DEF CallsAreOwned, Idle, WaitIsOver, TeardownEnds, runVars, leaseVars, boxVars, mainVars
<1>9. ASSUME SignalInProtocol PROVE CallsAreOwned'
  BY <1>0, <1>9, DestroyCancelledEffect DEF CallsAreOwned, Idle, WaitIsOver, SignalInProtocol, runVars, leaseVars, boxVars, mainVars
<1>10. ASSUME ProtocolEnds PROVE CallsAreOwned'
  BY <1>0, <1>10 DEF CallsAreOwned, Idle, WaitIsOver, ProtocolEnds, MayRetain, runVars, leaseVars, boxVars, mainVars
<1>11. ASSUME FinalizeEnds PROVE CallsAreOwned'
  BY <1>0, <1>11 DEF CallsAreOwned, Idle, WaitIsOver, FinalizeEnds, runVars, leaseVars, boxVars, mainVars
<1>12. ASSUME ReleaseEnds PROVE CallsAreOwned'
  BY <1>0, <1>12 DEF CallsAreOwned, Idle, WaitIsOver, ReleaseEnds, runVars, leaseVars, boxVars, mainVars
<1>13. ASSUME Record PROVE CallsAreOwned'
  BY <1>0, <1>13 DEF CallsAreOwned, Idle, WaitIsOver, Record, runVars, leaseVars, boxVars, mainVars
<1>14. ASSUME UndoEnds PROVE CallsAreOwned'
  BY <1>0, <1>14 DEF CallsAreOwned, Idle, WaitIsOver, UndoEnds, runVars, leaseVars, boxVars, mainVars
<1>15. ASSUME NEW s \in Sandboxes, FinalizeEntry(s) PROVE CallsAreOwned'
  BY <1>0, <1>15, StartDestroyEffect, AlreadyDestroyedEffect DEF CallsAreOwned, Idle, WaitIsOver, FinalizeEntry, Turn, Doomed, runVars, leaseVars, boxVars, mainVars
<1>16. ASSUME NEW s \in Sandboxes, RetainReturns(s) PROVE CallsAreOwned'
  BY <1>0, <1>16, StartDestroyEffect, NoWaitEffect DEF CallsAreOwned, Idle, WaitIsOver, RetainReturns, runVars, leaseVars, boxVars, mainVars
<1>17. ASSUME NEW s \in Sandboxes, SnapshotReturns(s) PROVE CallsAreOwned'
  BY <1>0, <1>17, StartDestroyEffect DEF CallsAreOwned, Idle, WaitIsOver, SnapshotReturns, runVars, leaseVars, boxVars, mainVars
<1>18. ASSUME NEW s \in Sandboxes, FinalizeDestroyed(s) PROVE CallsAreOwned'
  BY <1>0, <1>18, DestroyReturnsEffect DEF CallsAreOwned, Idle, WaitIsOver, FinalizeDestroyed, runVars, leaseVars, boxVars, mainVars
<1>19. ASSUME NEW s \in Sandboxes, ReleaseEntry(s) PROVE CallsAreOwned'
  BY <1>0, <1>19, StartDestroyEffect, AlreadyDestroyedEffect DEF CallsAreOwned, Idle, WaitIsOver, ReleaseEntry, Turn, runVars, leaseVars, boxVars, mainVars
<1>20. ASSUME NEW s \in Sandboxes, ReleaseDestroyed(s) PROVE CallsAreOwned'
  BY <1>0, <1>20, DestroyReturnsEffect DEF CallsAreOwned, Idle, WaitIsOver, ReleaseDestroyed, runVars, leaseVars, boxVars, mainVars
<1>21. ASSUME NEW s \in Sandboxes, UndoEntry(s) PROVE CallsAreOwned'
  BY <1>0, <1>21, StartDestroyEffect DEF CallsAreOwned, Idle, WaitIsOver, UndoEntry, Turn, runVars, leaseVars, boxVars, mainVars
<1>22. ASSUME NEW s \in Sandboxes, UndoReturns(s) PROVE CallsAreOwned'
  BY <1>0, <1>22, DestroyReturnsEffect, NoWaitEffect DEF CallsAreOwned, Idle, WaitIsOver, UndoReturns, runVars, leaseVars, boxVars, mainVars
<1>23. ASSUME SignalInFinalize PROVE CallsAreOwned'
  BY <1>0, <1>23, DestroyCancelledEffect, NoWaitEffect DEF CallsAreOwned, Idle, WaitIsOver, SignalInFinalize, runVars, leaseVars, boxVars, mainVars
<1>24. ASSUME LoopCloses PROVE CallsAreOwned'
  BY <1>0, <1>24, DestroyCancelledEffect DEF CallsAreOwned, Idle, WaitIsOver, LoopCloses, runVars, leaseVars, boxVars, mainVars
<1>25. CASE UNCHANGED vars
  BY <1>0, <1>25 DEF vars, CallsAreOwned, Idle, WaitIsOver, runVars, leaseVars, boxVars, mainVars
<1>26. QED
  BY <1>1, <1>2, <1>3, <1>4, <1>5, <1>6, <1>7, <1>8, <1>9, <1>10, <1>11, <1>12, <1>13, <1>14, <1>15, <1>16, <1>17, <1>18, <1>19, <1>20, <1>21, <1>22, <1>23, <1>24, <1>25 DEF Next, Protocol, Finalization

(* Nothing is retained before finalize, which a teardown that still runs     *)
(* keeps from retaining anything (the cancelled verdict is None).            *)
LEMMA NextRetentionIsLast ==
  ASSUME TypeOK, CallsAreOwned, RetentionIsLast, [Next]_vars
  PROVE  RetentionIsLast'
<1>0. /\ TypeOK /\ call \in [Tasks -> Calls]
      /\ "main" \in Tasks /\ "teardown" \in Tasks /\ \A u \in Tasks : u \in {"main", "teardown"}
      /\ sanitation \in [Sandboxes -> {"not-run", "succeeded", "failed"}]
      /\ saved \in [Sandboxes -> BOOLEAN] /\ closing \in [Sandboxes -> BOOLEAN]
      /\ machine \in [Sandboxes -> {"none", "up", "stuck", "gone"}]
      /\ live \subseteq Sandboxes /\ todo \subseteq Sandboxes /\ retained \subseteq Sandboxes
      /\ NoBox \notin Sandboxes
  BY LeaseAssumption DEF TypeOK, Tasks
<1>1. ASSUME NEW s \in Sandboxes, Acquire(s) PROVE RetentionIsLast'
  BY <1>0, <1>1 DEF Idle, WaitIsOver, RetentionIsLast, CallsAreOwned, Acquire, InProtocol, runVars, leaseVars, boxVars, mainVars
<1>2. ASSUME NEW s \in Sandboxes, DeadlineInRelease(s) PROVE RetentionIsLast'
  BY <1>0, <1>2, DestroyCancelledEffect DEF Idle, WaitIsOver, RetentionIsLast, CallsAreOwned, DeadlineInRelease, runVars, leaseVars, boxVars, mainVars
<1>3. ASSUME NEW t \in Tasks, NEW s \in Sandboxes, MarkSanitized(t, s) PROVE RetentionIsLast'
  BY <1>0, <1>3 DEF Idle, WaitIsOver, RetentionIsLast, CallsAreOwned, MarkSanitized, InProtocol, runVars, leaseVars, boxVars, mainVars
<1>4. ASSUME NEW t \in Tasks, NEW s \in Sandboxes, Release(t, s) PROVE RetentionIsLast'
  <2>1. \/ StartDestroy(t, s, ReleaseLabel(s)) /\ UNCHANGED <<live, outcomes>>
        \/ AlreadyDestroyed(t, s, ReleaseLabel(s)) /\ UNCHANGED closing
    BY <1>4 DEF Release
  <2>2. CASE StartDestroy(t, s, ReleaseLabel(s)) /\ UNCHANGED <<live, outcomes>>
    BY <1>0, <1>4, <2>2, StartDestroyEffect DEF Release, InProtocol, Idle, WaitIsOver, RetentionIsLast, CallsAreOwned, runVars, leaseVars, boxVars, mainVars
  <2>3. CASE AlreadyDestroyed(t, s, ReleaseLabel(s)) /\ UNCHANGED closing
    BY <1>0, <1>4, <2>3, AlreadyDestroyedEffect DEF Release, InProtocol, Idle, WaitIsOver, RetentionIsLast, CallsAreOwned, runVars, leaseVars, boxVars, mainVars
  <2>4. QED BY <2>1, <2>2, <2>3
<1>5. ASSUME NEW t \in Tasks, NEW s \in Sandboxes, Released(t, s) PROVE RetentionIsLast'
  BY <1>0, <1>5, DestroyReturnsEffect DEF Idle, WaitIsOver, RetentionIsLast, CallsAreOwned, Released, runVars, leaseVars, boxVars, mainVars
<1>6. ASSUME ProtocolFails PROVE RetentionIsLast'
  BY <1>0, <1>6 DEF Idle, WaitIsOver, RetentionIsLast, CallsAreOwned, ProtocolFails, InProtocol, runVars, leaseVars, boxVars, mainVars
<1>7. ASSUME StartTeardown PROVE RetentionIsLast'
  BY <1>0, <1>7 DEF Idle, WaitIsOver, RetentionIsLast, CallsAreOwned, StartTeardown, runVars, leaseVars, boxVars, mainVars
<1>8. ASSUME TeardownEnds PROVE RetentionIsLast'
  BY <1>0, <1>8 DEF Idle, WaitIsOver, RetentionIsLast, CallsAreOwned, TeardownEnds, runVars, leaseVars, boxVars, mainVars
<1>9. ASSUME SignalInProtocol PROVE RetentionIsLast'
  BY <1>0, <1>9, DestroyCancelledEffect DEF Idle, WaitIsOver, RetentionIsLast, CallsAreOwned, SignalInProtocol, runVars, leaseVars, boxVars, mainVars
<1>10. ASSUME ProtocolEnds PROVE RetentionIsLast'
  BY <1>0, <1>10 DEF Idle, WaitIsOver, RetentionIsLast, CallsAreOwned, ProtocolEnds, MayRetain, runVars, leaseVars, boxVars, mainVars
<1>11. ASSUME FinalizeEnds PROVE RetentionIsLast'
  BY <1>0, <1>11 DEF Idle, WaitIsOver, RetentionIsLast, CallsAreOwned, FinalizeEnds, runVars, leaseVars, boxVars, mainVars
<1>12. ASSUME ReleaseEnds PROVE RetentionIsLast'
  BY <1>0, <1>12 DEF Idle, WaitIsOver, RetentionIsLast, CallsAreOwned, ReleaseEnds, runVars, leaseVars, boxVars, mainVars
<1>13. ASSUME Record PROVE RetentionIsLast'
  BY <1>0, <1>13 DEF Idle, WaitIsOver, RetentionIsLast, CallsAreOwned, Record, runVars, leaseVars, boxVars, mainVars
<1>14. ASSUME UndoEnds PROVE RetentionIsLast'
  BY <1>0, <1>14 DEF Idle, WaitIsOver, RetentionIsLast, CallsAreOwned, UndoEnds, runVars, leaseVars, boxVars, mainVars
<1>15. ASSUME NEW s \in Sandboxes, FinalizeEntry(s) PROVE RetentionIsLast'
  BY <1>0, <1>15, StartDestroyEffect, AlreadyDestroyedEffect DEF Idle, WaitIsOver, RetentionIsLast, CallsAreOwned, FinalizeEntry, Turn, Doomed, runVars, leaseVars, boxVars, mainVars
<1>16. ASSUME NEW s \in Sandboxes, RetainReturns(s) PROVE RetentionIsLast'
  BY <1>0, <1>16, StartDestroyEffect, NoWaitEffect DEF Idle, WaitIsOver, RetentionIsLast, CallsAreOwned, RetainReturns, runVars, leaseVars, boxVars, mainVars
<1>17. ASSUME NEW s \in Sandboxes, SnapshotReturns(s) PROVE RetentionIsLast'
  BY <1>0, <1>17, StartDestroyEffect DEF Idle, WaitIsOver, RetentionIsLast, CallsAreOwned, SnapshotReturns, runVars, leaseVars, boxVars, mainVars
<1>18. ASSUME NEW s \in Sandboxes, FinalizeDestroyed(s) PROVE RetentionIsLast'
  BY <1>0, <1>18, DestroyReturnsEffect DEF Idle, WaitIsOver, RetentionIsLast, CallsAreOwned, FinalizeDestroyed, runVars, leaseVars, boxVars, mainVars
<1>19. ASSUME NEW s \in Sandboxes, ReleaseEntry(s) PROVE RetentionIsLast'
  BY <1>0, <1>19, StartDestroyEffect, AlreadyDestroyedEffect DEF Idle, WaitIsOver, RetentionIsLast, CallsAreOwned, ReleaseEntry, Turn, runVars, leaseVars, boxVars, mainVars
<1>20. ASSUME NEW s \in Sandboxes, ReleaseDestroyed(s) PROVE RetentionIsLast'
  BY <1>0, <1>20, DestroyReturnsEffect DEF Idle, WaitIsOver, RetentionIsLast, CallsAreOwned, ReleaseDestroyed, runVars, leaseVars, boxVars, mainVars
<1>21. ASSUME NEW s \in Sandboxes, UndoEntry(s) PROVE RetentionIsLast'
  BY <1>0, <1>21, StartDestroyEffect DEF Idle, WaitIsOver, RetentionIsLast, CallsAreOwned, UndoEntry, Turn, runVars, leaseVars, boxVars, mainVars
<1>22. ASSUME NEW s \in Sandboxes, UndoReturns(s) PROVE RetentionIsLast'
  BY <1>0, <1>22, DestroyReturnsEffect, NoWaitEffect DEF Idle, WaitIsOver, RetentionIsLast, CallsAreOwned, UndoReturns, runVars, leaseVars, boxVars, mainVars
<1>23. ASSUME SignalInFinalize PROVE RetentionIsLast'
  BY <1>0, <1>23, SignalInFinalizeEffect DEF SignalInFinalize, runVars, Idle, WaitIsOver, RetentionIsLast, CallsAreOwned
<1>24. ASSUME LoopCloses PROVE RetentionIsLast'
  BY <1>0, <1>24, DestroyCancelledEffect DEF Idle, WaitIsOver, RetentionIsLast, CallsAreOwned, LoopCloses, runVars, leaseVars, boxVars, mainVars
<1>25. CASE UNCHANGED vars
  BY <1>0, <1>25 DEF vars, Idle, WaitIsOver, RetentionIsLast, CallsAreOwned, runVars, leaseVars, boxVars, mainVars
<1>26. QED
  BY <1>1, <1>2, <1>3, <1>4, <1>5, <1>6, <1>7, <1>8, <1>9, <1>10, <1>11, <1>12, <1>13, <1>14, <1>15, <1>16, <1>17, <1>18, <1>19, <1>20, <1>21, <1>22, <1>23, <1>24, <1>25 DEF Next, Protocol, Finalization

(* What finalize retains was sanitized, and stays so: nothing marks a       *)
(* sandbox once finalize may retain.                                        *)
LEMMA NextRetainingIsAllowed ==
  ASSUME TypeOK, CallsAreOwned, RetentionIsLast, RetainingIsAllowed, [Next]_vars
  PROVE  RetainingIsAllowed'
<1>0. /\ TypeOK /\ call \in [Tasks -> Calls]
      /\ "main" \in Tasks /\ "teardown" \in Tasks /\ \A u \in Tasks : u \in {"main", "teardown"}
      /\ sanitation \in [Sandboxes -> {"not-run", "succeeded", "failed"}]
      /\ saved \in [Sandboxes -> BOOLEAN] /\ closing \in [Sandboxes -> BOOLEAN]
      /\ machine \in [Sandboxes -> {"none", "up", "stuck", "gone"}]
      /\ live \subseteq Sandboxes /\ todo \subseteq Sandboxes /\ retained \subseteq Sandboxes
      /\ NoBox \notin Sandboxes
  BY LeaseAssumption DEF TypeOK, Tasks
<1>1. ASSUME NEW s \in Sandboxes, Acquire(s) PROVE RetainingIsAllowed'
  BY <1>0, <1>1 DEF Idle, WaitIsOver, RetainingIsAllowed, CallsAreOwned, RetentionIsLast, Acquire, InProtocol, runVars, leaseVars, boxVars, mainVars
<1>2. ASSUME NEW s \in Sandboxes, DeadlineInRelease(s) PROVE RetainingIsAllowed'
  BY <1>0, <1>2, DestroyCancelledEffect DEF Idle, WaitIsOver, RetainingIsAllowed, CallsAreOwned, RetentionIsLast, DeadlineInRelease, runVars, leaseVars, boxVars, mainVars
<1>3. ASSUME NEW t \in Tasks, NEW s \in Sandboxes, MarkSanitized(t, s) PROVE RetainingIsAllowed'
  BY <1>0, <1>3 DEF Idle, WaitIsOver, RetainingIsAllowed, CallsAreOwned, RetentionIsLast, MarkSanitized, InProtocol, runVars, leaseVars, boxVars, mainVars
<1>4. ASSUME NEW t \in Tasks, NEW s \in Sandboxes, Release(t, s) PROVE RetainingIsAllowed'
  <2>1. \/ StartDestroy(t, s, ReleaseLabel(s)) /\ UNCHANGED <<live, outcomes>>
        \/ AlreadyDestroyed(t, s, ReleaseLabel(s)) /\ UNCHANGED closing
    BY <1>4 DEF Release
  <2>2. CASE StartDestroy(t, s, ReleaseLabel(s)) /\ UNCHANGED <<live, outcomes>>
    BY <1>0, <1>4, <2>2, StartDestroyEffect DEF Release, InProtocol, Idle, WaitIsOver, RetainingIsAllowed, CallsAreOwned, RetentionIsLast, runVars, leaseVars, boxVars, mainVars
  <2>3. CASE AlreadyDestroyed(t, s, ReleaseLabel(s)) /\ UNCHANGED closing
    BY <1>0, <1>4, <2>3, AlreadyDestroyedEffect DEF Release, InProtocol, Idle, WaitIsOver, RetainingIsAllowed, CallsAreOwned, RetentionIsLast, runVars, leaseVars, boxVars, mainVars
  <2>4. QED BY <2>1, <2>2, <2>3
<1>5. ASSUME NEW t \in Tasks, NEW s \in Sandboxes, Released(t, s) PROVE RetainingIsAllowed'
  <2>1. UNCHANGED <<main, sanitation, saved, requested>>
    BY <1>5 DEF Released, mainVars, runVars
  <2>2. \E ok \in BOOLEAN : DestroyReturns(t, s, ok)
    BY <1>5 DEF Released
  <2>3. WaitIsOver(t)
    BY <1>0, <2>2, DestroyReturnsEffect
  <2>4. QED BY <1>0, <2>1, <2>3 DEF RetainingIsAllowed, WaitIsOver
<1>6. ASSUME ProtocolFails PROVE RetainingIsAllowed'
  BY <1>0, <1>6 DEF Idle, WaitIsOver, RetainingIsAllowed, CallsAreOwned, RetentionIsLast, ProtocolFails, InProtocol, runVars, leaseVars, boxVars, mainVars
<1>7. ASSUME StartTeardown PROVE RetainingIsAllowed'
  BY <1>0, <1>7 DEF Idle, WaitIsOver, RetainingIsAllowed, CallsAreOwned, RetentionIsLast, StartTeardown, runVars, leaseVars, boxVars, mainVars
<1>8. ASSUME TeardownEnds PROVE RetainingIsAllowed'
  BY <1>0, <1>8 DEF Idle, WaitIsOver, RetainingIsAllowed, CallsAreOwned, RetentionIsLast, TeardownEnds, runVars, leaseVars, boxVars, mainVars
<1>9. ASSUME SignalInProtocol PROVE RetainingIsAllowed'
  BY <1>0, <1>9, DestroyCancelledEffect DEF Idle, WaitIsOver, RetainingIsAllowed, CallsAreOwned, RetentionIsLast, SignalInProtocol, runVars, leaseVars, boxVars, mainVars
<1>10. ASSUME ProtocolEnds PROVE RetainingIsAllowed'
  BY <1>0, <1>10 DEF Idle, WaitIsOver, RetainingIsAllowed, CallsAreOwned, RetentionIsLast, ProtocolEnds, MayRetain, runVars, leaseVars, boxVars, mainVars
<1>11. ASSUME FinalizeEnds PROVE RetainingIsAllowed'
  BY <1>0, <1>11 DEF Idle, WaitIsOver, RetainingIsAllowed, CallsAreOwned, RetentionIsLast, FinalizeEnds, runVars, leaseVars, boxVars, mainVars
<1>12. ASSUME ReleaseEnds PROVE RetainingIsAllowed'
  BY <1>0, <1>12 DEF Idle, WaitIsOver, RetainingIsAllowed, CallsAreOwned, RetentionIsLast, ReleaseEnds, runVars, leaseVars, boxVars, mainVars
<1>13. ASSUME Record PROVE RetainingIsAllowed'
  BY <1>0, <1>13 DEF Idle, WaitIsOver, RetainingIsAllowed, CallsAreOwned, RetentionIsLast, Record, runVars, leaseVars, boxVars, mainVars
<1>14. ASSUME UndoEnds PROVE RetainingIsAllowed'
  BY <1>0, <1>14 DEF Idle, WaitIsOver, RetainingIsAllowed, CallsAreOwned, RetentionIsLast, UndoEnds, runVars, leaseVars, boxVars, mainVars
<1>15. ASSUME NEW s \in Sandboxes, FinalizeEntry(s) PROVE RetainingIsAllowed'
  <2>1. CASE Doomed(s)
    BY <1>0, <1>15, <2>1, StartDestroyEffect, AlreadyDestroyedEffect
       DEF FinalizeEntry, Turn, Idle, WaitIsOver, RetainingIsAllowed, runVars
  <2>2. CASE ~Doomed(s)
    <3>1. /\ call'["main"].box = s
          /\ call'["main"].await = IF requested[s] = "snapshot" THEN "snapshot" ELSE "retain"
      BY <1>0, <1>15, <2>2 DEF FinalizeEntry
    <3>2. sanitation[s] = "succeeded" /\ requested[s] \in {"keep", "snapshot"}
      BY <2>2 DEF Doomed, TypeOK, Policies
    <3>3. QED BY <1>0, <1>15, <3>1, <3>2 DEF FinalizeEntry, RetainingIsAllowed, runVars
  <2>3. QED BY <2>1, <2>2
<1>16. ASSUME NEW s \in Sandboxes, RetainReturns(s) PROVE RetainingIsAllowed'
  BY <1>0, <1>16, StartDestroyEffect, NoWaitEffect DEF Idle, WaitIsOver, RetainingIsAllowed, CallsAreOwned, RetentionIsLast, RetainReturns, runVars, leaseVars, boxVars, mainVars
<1>17. ASSUME NEW s \in Sandboxes, SnapshotReturns(s) PROVE RetainingIsAllowed'
  BY <1>0, <1>17, StartDestroyEffect DEF Idle, WaitIsOver, RetainingIsAllowed, CallsAreOwned, RetentionIsLast, SnapshotReturns, runVars, leaseVars, boxVars, mainVars
<1>18. ASSUME NEW s \in Sandboxes, FinalizeDestroyed(s) PROVE RetainingIsAllowed'
  BY <1>0, <1>18, DestroyReturnsEffect DEF Idle, WaitIsOver, RetainingIsAllowed, CallsAreOwned, RetentionIsLast, FinalizeDestroyed, runVars, leaseVars, boxVars, mainVars
<1>19. ASSUME NEW s \in Sandboxes, ReleaseEntry(s) PROVE RetainingIsAllowed'
  BY <1>0, <1>19, StartDestroyEffect, AlreadyDestroyedEffect DEF Idle, WaitIsOver, RetainingIsAllowed, CallsAreOwned, RetentionIsLast, ReleaseEntry, Turn, runVars, leaseVars, boxVars, mainVars
<1>20. ASSUME NEW s \in Sandboxes, ReleaseDestroyed(s) PROVE RetainingIsAllowed'
  BY <1>0, <1>20, DestroyReturnsEffect DEF Idle, WaitIsOver, RetainingIsAllowed, CallsAreOwned, RetentionIsLast, ReleaseDestroyed, runVars, leaseVars, boxVars, mainVars
<1>21. ASSUME NEW s \in Sandboxes, UndoEntry(s) PROVE RetainingIsAllowed'
  BY <1>0, <1>21, StartDestroyEffect DEF Idle, WaitIsOver, RetainingIsAllowed, CallsAreOwned, RetentionIsLast, UndoEntry, Turn, runVars, leaseVars, boxVars, mainVars
<1>22. ASSUME NEW s \in Sandboxes, UndoReturns(s) PROVE RetainingIsAllowed'
  BY <1>0, <1>22, DestroyReturnsEffect, NoWaitEffect DEF Idle, WaitIsOver, RetainingIsAllowed, CallsAreOwned, RetentionIsLast, UndoReturns, runVars, leaseVars, boxVars, mainVars
<1>23. ASSUME SignalInFinalize PROVE RetainingIsAllowed'
  <2>1. call'["main"].await = "none"
    BY <1>0, <1>23, SignalInFinalizeEffect DEF WaitIsOver
  <2>2. UNCHANGED requested
    BY <1>23 DEF SignalInFinalize, runVars
  <2>3. ASSUME NEW s \in Sandboxes, saved'[s] PROVE requested[s] = "snapshot"
    <3>1. CASE saved[s]
      BY <3>1 DEF RetainingIsAllowed
    <3>2. CASE ~saved[s]
      <4>1. call["main"].await = "snapshot" /\ call["main"].box = s
        BY <1>23, <2>3, <3>2, SignalInFinalizeEffect
      <4>2. QED BY <4>1 DEF RetainingIsAllowed
    <3>3. QED BY <3>1, <3>2
  <2>4. QED BY <2>1, <2>2, <2>3 DEF RetainingIsAllowed
<1>24. ASSUME LoopCloses PROVE RetainingIsAllowed'
  BY <1>0, <1>24, DestroyCancelledEffect DEF Idle, WaitIsOver, RetainingIsAllowed, CallsAreOwned, RetentionIsLast, LoopCloses, runVars, leaseVars, boxVars, mainVars
<1>25. CASE UNCHANGED vars
  BY <1>0, <1>25 DEF vars, Idle, WaitIsOver, RetainingIsAllowed, CallsAreOwned, RetentionIsLast, runVars, leaseVars, boxVars, mainVars
<1>26. QED
  BY <1>1, <1>2, <1>3, <1>4, <1>5, <1>6, <1>7, <1>8, <1>9, <1>10, <1>11, <1>12, <1>13, <1>14, <1>15, <1>16, <1>17, <1>18, <1>19, <1>20, <1>21, <1>22, <1>23, <1>24, <1>25 DEF Next, Protocol, Finalization

(* What was retained stays retained only while it is clean.                  *)
LEMMA NextRetainedIsSanitized ==
  ASSUME TypeOK, CallsAreOwned, RetentionIsLast, RetainingIsAllowed, RetainedIsSanitized, [Next]_vars
  PROVE  RetainedIsSanitized'
<1>0. /\ TypeOK /\ call \in [Tasks -> Calls]
      /\ "main" \in Tasks /\ "teardown" \in Tasks /\ \A u \in Tasks : u \in {"main", "teardown"}
      /\ sanitation \in [Sandboxes -> {"not-run", "succeeded", "failed"}]
      /\ saved \in [Sandboxes -> BOOLEAN] /\ closing \in [Sandboxes -> BOOLEAN]
      /\ machine \in [Sandboxes -> {"none", "up", "stuck", "gone"}]
      /\ live \subseteq Sandboxes /\ todo \subseteq Sandboxes /\ retained \subseteq Sandboxes
      /\ NoBox \notin Sandboxes
  BY LeaseAssumption DEF TypeOK, Tasks
<1>1. ASSUME NEW s \in Sandboxes, Acquire(s) PROVE RetainedIsSanitized'
  BY <1>0, <1>1 DEF Idle, WaitIsOver, RetainedIsSanitized, RetainingIsAllowed, RetentionIsLast, Acquire, InProtocol, runVars, leaseVars, boxVars, mainVars
<1>2. ASSUME NEW s \in Sandboxes, DeadlineInRelease(s) PROVE RetainedIsSanitized'
  BY <1>0, <1>2, DestroyCancelledEffect DEF Idle, WaitIsOver, RetainedIsSanitized, RetainingIsAllowed, RetentionIsLast, DeadlineInRelease, runVars, leaseVars, boxVars, mainVars
<1>3. ASSUME NEW t \in Tasks, NEW s \in Sandboxes, MarkSanitized(t, s) PROVE RetainedIsSanitized'
  BY <1>0, <1>3 DEF Idle, WaitIsOver, RetainedIsSanitized, RetainingIsAllowed, RetentionIsLast, MarkSanitized, InProtocol, runVars, leaseVars, boxVars, mainVars
<1>4. ASSUME NEW t \in Tasks, NEW s \in Sandboxes, Release(t, s) PROVE RetainedIsSanitized'
  <2>1. \/ StartDestroy(t, s, ReleaseLabel(s)) /\ UNCHANGED <<live, outcomes>>
        \/ AlreadyDestroyed(t, s, ReleaseLabel(s)) /\ UNCHANGED closing
    BY <1>4 DEF Release
  <2>2. CASE StartDestroy(t, s, ReleaseLabel(s)) /\ UNCHANGED <<live, outcomes>>
    BY <1>0, <1>4, <2>2, StartDestroyEffect DEF Release, InProtocol, Idle, WaitIsOver, RetainedIsSanitized, RetainingIsAllowed, RetentionIsLast, runVars, leaseVars, boxVars, mainVars
  <2>3. CASE AlreadyDestroyed(t, s, ReleaseLabel(s)) /\ UNCHANGED closing
    BY <1>0, <1>4, <2>3, AlreadyDestroyedEffect DEF Release, InProtocol, Idle, WaitIsOver, RetainedIsSanitized, RetainingIsAllowed, RetentionIsLast, runVars, leaseVars, boxVars, mainVars
  <2>4. QED BY <2>1, <2>2, <2>3
<1>5. ASSUME NEW t \in Tasks, NEW s \in Sandboxes, Released(t, s) PROVE RetainedIsSanitized'
  BY <1>0, <1>5, DestroyReturnsEffect DEF Idle, WaitIsOver, RetainedIsSanitized, RetainingIsAllowed, RetentionIsLast, Released, runVars, leaseVars, boxVars, mainVars
<1>6. ASSUME ProtocolFails PROVE RetainedIsSanitized'
  BY <1>0, <1>6 DEF Idle, WaitIsOver, RetainedIsSanitized, RetainingIsAllowed, RetentionIsLast, ProtocolFails, InProtocol, runVars, leaseVars, boxVars, mainVars
<1>7. ASSUME StartTeardown PROVE RetainedIsSanitized'
  BY <1>0, <1>7 DEF Idle, WaitIsOver, RetainedIsSanitized, RetainingIsAllowed, RetentionIsLast, StartTeardown, runVars, leaseVars, boxVars, mainVars
<1>8. ASSUME TeardownEnds PROVE RetainedIsSanitized'
  BY <1>0, <1>8 DEF Idle, WaitIsOver, RetainedIsSanitized, RetainingIsAllowed, RetentionIsLast, TeardownEnds, runVars, leaseVars, boxVars, mainVars
<1>9. ASSUME SignalInProtocol PROVE RetainedIsSanitized'
  BY <1>0, <1>9, DestroyCancelledEffect DEF Idle, WaitIsOver, RetainedIsSanitized, RetainingIsAllowed, RetentionIsLast, SignalInProtocol, runVars, leaseVars, boxVars, mainVars
<1>10. ASSUME ProtocolEnds PROVE RetainedIsSanitized'
  BY <1>0, <1>10 DEF Idle, WaitIsOver, RetainedIsSanitized, RetainingIsAllowed, RetentionIsLast, ProtocolEnds, MayRetain, runVars, leaseVars, boxVars, mainVars
<1>11. ASSUME FinalizeEnds PROVE RetainedIsSanitized'
  BY <1>0, <1>11 DEF Idle, WaitIsOver, RetainedIsSanitized, RetainingIsAllowed, RetentionIsLast, FinalizeEnds, runVars, leaseVars, boxVars, mainVars
<1>12. ASSUME ReleaseEnds PROVE RetainedIsSanitized'
  BY <1>0, <1>12 DEF Idle, WaitIsOver, RetainedIsSanitized, RetainingIsAllowed, RetentionIsLast, ReleaseEnds, runVars, leaseVars, boxVars, mainVars
<1>13. ASSUME Record PROVE RetainedIsSanitized'
  BY <1>0, <1>13 DEF Idle, WaitIsOver, RetainedIsSanitized, RetainingIsAllowed, RetentionIsLast, Record, runVars, leaseVars, boxVars, mainVars
<1>14. ASSUME UndoEnds PROVE RetainedIsSanitized'
  BY <1>0, <1>14 DEF Idle, WaitIsOver, RetainedIsSanitized, RetainingIsAllowed, RetentionIsLast, UndoEnds, runVars, leaseVars, boxVars, mainVars
<1>15. ASSUME NEW s \in Sandboxes, FinalizeEntry(s) PROVE RetainedIsSanitized'
  BY <1>0, <1>15, StartDestroyEffect, AlreadyDestroyedEffect DEF Idle, WaitIsOver, RetainedIsSanitized, RetainingIsAllowed, RetentionIsLast, FinalizeEntry, Turn, Doomed, runVars, leaseVars, boxVars, mainVars
<1>16. ASSUME NEW s \in Sandboxes, RetainReturns(s) PROVE RetainedIsSanitized'
  BY <1>0, <1>16, StartDestroyEffect, NoWaitEffect DEF Idle, WaitIsOver, RetainedIsSanitized, RetainingIsAllowed, RetentionIsLast, RetainReturns, runVars, leaseVars, boxVars, mainVars
<1>17. ASSUME NEW s \in Sandboxes, SnapshotReturns(s) PROVE RetainedIsSanitized'
  BY <1>0, <1>17, StartDestroyEffect DEF Idle, WaitIsOver, RetainedIsSanitized, RetainingIsAllowed, RetentionIsLast, SnapshotReturns, runVars, leaseVars, boxVars, mainVars
<1>18. ASSUME NEW s \in Sandboxes, FinalizeDestroyed(s) PROVE RetainedIsSanitized'
  BY <1>0, <1>18, DestroyReturnsEffect DEF Idle, WaitIsOver, RetainedIsSanitized, RetainingIsAllowed, RetentionIsLast, FinalizeDestroyed, runVars, leaseVars, boxVars, mainVars
<1>19. ASSUME NEW s \in Sandboxes, ReleaseEntry(s) PROVE RetainedIsSanitized'
  BY <1>0, <1>19, StartDestroyEffect, AlreadyDestroyedEffect DEF Idle, WaitIsOver, RetainedIsSanitized, RetainingIsAllowed, RetentionIsLast, ReleaseEntry, Turn, runVars, leaseVars, boxVars, mainVars
<1>20. ASSUME NEW s \in Sandboxes, ReleaseDestroyed(s) PROVE RetainedIsSanitized'
  BY <1>0, <1>20, DestroyReturnsEffect DEF Idle, WaitIsOver, RetainedIsSanitized, RetainingIsAllowed, RetentionIsLast, ReleaseDestroyed, runVars, leaseVars, boxVars, mainVars
<1>21. ASSUME NEW s \in Sandboxes, UndoEntry(s) PROVE RetainedIsSanitized'
  BY <1>0, <1>21, StartDestroyEffect DEF Idle, WaitIsOver, RetainedIsSanitized, RetainingIsAllowed, RetentionIsLast, UndoEntry, Turn, runVars, leaseVars, boxVars, mainVars
<1>22. ASSUME NEW s \in Sandboxes, UndoReturns(s) PROVE RetainedIsSanitized'
  BY <1>0, <1>22, DestroyReturnsEffect, NoWaitEffect DEF Idle, WaitIsOver, RetainedIsSanitized, RetainingIsAllowed, RetentionIsLast, UndoReturns, runVars, leaseVars, boxVars, mainVars
<1>23. ASSUME SignalInFinalize PROVE RetainedIsSanitized'
  BY <1>0, <1>23, SignalInFinalizeEffect DEF SignalInFinalize, runVars, Idle, WaitIsOver, RetainedIsSanitized, RetainingIsAllowed, RetentionIsLast
<1>24. ASSUME LoopCloses PROVE RetainedIsSanitized'
  BY <1>0, <1>24, DestroyCancelledEffect DEF Idle, WaitIsOver, RetainedIsSanitized, RetainingIsAllowed, RetentionIsLast, LoopCloses, runVars, leaseVars, boxVars, mainVars
<1>25. CASE UNCHANGED vars
  BY <1>0, <1>25 DEF vars, Idle, WaitIsOver, RetainedIsSanitized, RetainingIsAllowed, RetentionIsLast, runVars, leaseVars, boxVars, mainVars
<1>26. QED
  BY <1>1, <1>2, <1>3, <1>4, <1>5, <1>6, <1>7, <1>8, <1>9, <1>10, <1>11, <1>12, <1>13, <1>14, <1>15, <1>16, <1>17, <1>18, <1>19, <1>20, <1>21, <1>22, <1>23, <1>24, <1>25 DEF Next, Protocol, Finalization

(* release_all takes all of live, and nothing is leased after it.            *)
LEMMA NextReleaseIsComplete ==
  ASSUME TypeOK, CallsAreOwned, RetentionIsLast, ReleaseIsComplete, [Next]_vars
  PROVE  ReleaseIsComplete'
<1>0. /\ TypeOK /\ call \in [Tasks -> Calls]
      /\ "main" \in Tasks /\ "teardown" \in Tasks /\ \A u \in Tasks : u \in {"main", "teardown"}
      /\ sanitation \in [Sandboxes -> {"not-run", "succeeded", "failed"}]
      /\ saved \in [Sandboxes -> BOOLEAN] /\ closing \in [Sandboxes -> BOOLEAN]
      /\ machine \in [Sandboxes -> {"none", "up", "stuck", "gone"}]
      /\ live \subseteq Sandboxes /\ todo \subseteq Sandboxes /\ retained \subseteq Sandboxes
      /\ NoBox \notin Sandboxes
  BY LeaseAssumption DEF TypeOK, Tasks
<1>1. ASSUME NEW s \in Sandboxes, Acquire(s) PROVE ReleaseIsComplete'
  BY <1>0, <1>1 DEF Idle, WaitIsOver, ReleaseIsComplete, RetentionIsLast, Acquire, InProtocol, runVars, leaseVars, boxVars, mainVars
<1>2. ASSUME NEW s \in Sandboxes, DeadlineInRelease(s) PROVE ReleaseIsComplete'
  BY <1>0, <1>2, DestroyCancelledEffect DEF Idle, WaitIsOver, ReleaseIsComplete, RetentionIsLast, DeadlineInRelease, runVars, leaseVars, boxVars, mainVars
<1>3. ASSUME NEW t \in Tasks, NEW s \in Sandboxes, MarkSanitized(t, s) PROVE ReleaseIsComplete'
  BY <1>0, <1>3 DEF Idle, WaitIsOver, ReleaseIsComplete, RetentionIsLast, MarkSanitized, InProtocol, runVars, leaseVars, boxVars, mainVars
<1>4. ASSUME NEW t \in Tasks, NEW s \in Sandboxes, Release(t, s) PROVE ReleaseIsComplete'
  <2>1. \/ StartDestroy(t, s, ReleaseLabel(s)) /\ UNCHANGED <<live, outcomes>>
        \/ AlreadyDestroyed(t, s, ReleaseLabel(s)) /\ UNCHANGED closing
    BY <1>4 DEF Release
  <2>2. CASE StartDestroy(t, s, ReleaseLabel(s)) /\ UNCHANGED <<live, outcomes>>
    BY <1>0, <1>4, <2>2, StartDestroyEffect DEF Release, InProtocol, Idle, WaitIsOver, ReleaseIsComplete, RetentionIsLast, runVars, leaseVars, boxVars, mainVars
  <2>3. CASE AlreadyDestroyed(t, s, ReleaseLabel(s)) /\ UNCHANGED closing
    BY <1>0, <1>4, <2>3, AlreadyDestroyedEffect DEF Release, InProtocol, Idle, WaitIsOver, ReleaseIsComplete, RetentionIsLast, runVars, leaseVars, boxVars, mainVars
  <2>4. QED BY <2>1, <2>2, <2>3
<1>5. ASSUME NEW t \in Tasks, NEW s \in Sandboxes, Released(t, s) PROVE ReleaseIsComplete'
  <2>1. main' = main /\ todo' = todo
    BY <1>5 DEF Released, mainVars
  <2>2. \E ok \in BOOLEAN : DestroyReturns(t, s, ok)
    BY <1>5 DEF Released
  <2>3. live' = live \ {s}
    BY <1>0, <2>2, DestroyReturnsEffect
  <2>4. QED BY <2>1, <2>3 DEF ReleaseIsComplete
<1>6. ASSUME ProtocolFails PROVE ReleaseIsComplete'
  BY <1>0, <1>6 DEF Idle, WaitIsOver, ReleaseIsComplete, RetentionIsLast, ProtocolFails, InProtocol, runVars, leaseVars, boxVars, mainVars
<1>7. ASSUME StartTeardown PROVE ReleaseIsComplete'
  BY <1>0, <1>7 DEF Idle, WaitIsOver, ReleaseIsComplete, RetentionIsLast, StartTeardown, runVars, leaseVars, boxVars, mainVars
<1>8. ASSUME TeardownEnds PROVE ReleaseIsComplete'
  BY <1>0, <1>8 DEF Idle, WaitIsOver, ReleaseIsComplete, RetentionIsLast, TeardownEnds, runVars, leaseVars, boxVars, mainVars
<1>9. ASSUME SignalInProtocol PROVE ReleaseIsComplete'
  BY <1>0, <1>9, DestroyCancelledEffect DEF Idle, WaitIsOver, ReleaseIsComplete, RetentionIsLast, SignalInProtocol, runVars, leaseVars, boxVars, mainVars
<1>10. ASSUME ProtocolEnds PROVE ReleaseIsComplete'
  BY <1>0, <1>10 DEF Idle, WaitIsOver, ReleaseIsComplete, RetentionIsLast, ProtocolEnds, MayRetain, runVars, leaseVars, boxVars, mainVars
<1>11. ASSUME FinalizeEnds PROVE ReleaseIsComplete'
  BY <1>0, <1>11 DEF Idle, WaitIsOver, ReleaseIsComplete, RetentionIsLast, FinalizeEnds, runVars, leaseVars, boxVars, mainVars
<1>12. ASSUME ReleaseEnds PROVE ReleaseIsComplete'
  BY <1>0, <1>12 DEF Idle, WaitIsOver, ReleaseIsComplete, RetentionIsLast, ReleaseEnds, runVars, leaseVars, boxVars, mainVars
<1>13. ASSUME Record PROVE ReleaseIsComplete'
  BY <1>0, <1>13 DEF Idle, WaitIsOver, ReleaseIsComplete, RetentionIsLast, Record, runVars, leaseVars, boxVars, mainVars
<1>14. ASSUME UndoEnds PROVE ReleaseIsComplete'
  BY <1>0, <1>14 DEF Idle, WaitIsOver, ReleaseIsComplete, RetentionIsLast, UndoEnds, runVars, leaseVars, boxVars, mainVars
<1>15. ASSUME NEW s \in Sandboxes, FinalizeEntry(s) PROVE ReleaseIsComplete'
  BY <1>0, <1>15, StartDestroyEffect, AlreadyDestroyedEffect DEF Idle, WaitIsOver, ReleaseIsComplete, RetentionIsLast, FinalizeEntry, Turn, Doomed, runVars, leaseVars, boxVars, mainVars
<1>16. ASSUME NEW s \in Sandboxes, RetainReturns(s) PROVE ReleaseIsComplete'
  BY <1>0, <1>16, StartDestroyEffect, NoWaitEffect DEF Idle, WaitIsOver, ReleaseIsComplete, RetentionIsLast, RetainReturns, runVars, leaseVars, boxVars, mainVars
<1>17. ASSUME NEW s \in Sandboxes, SnapshotReturns(s) PROVE ReleaseIsComplete'
  BY <1>0, <1>17, StartDestroyEffect DEF Idle, WaitIsOver, ReleaseIsComplete, RetentionIsLast, SnapshotReturns, runVars, leaseVars, boxVars, mainVars
<1>18. ASSUME NEW s \in Sandboxes, FinalizeDestroyed(s) PROVE ReleaseIsComplete'
  BY <1>0, <1>18, DestroyReturnsEffect DEF Idle, WaitIsOver, ReleaseIsComplete, RetentionIsLast, FinalizeDestroyed, runVars, leaseVars, boxVars, mainVars
<1>19. ASSUME NEW s \in Sandboxes, ReleaseEntry(s) PROVE ReleaseIsComplete'
  BY <1>0, <1>19, StartDestroyEffect, AlreadyDestroyedEffect DEF Idle, WaitIsOver, ReleaseIsComplete, RetentionIsLast, ReleaseEntry, Turn, runVars, leaseVars, boxVars, mainVars
<1>20. ASSUME NEW s \in Sandboxes, ReleaseDestroyed(s) PROVE ReleaseIsComplete'
  BY <1>0, <1>20, DestroyReturnsEffect DEF Idle, WaitIsOver, ReleaseIsComplete, RetentionIsLast, ReleaseDestroyed, runVars, leaseVars, boxVars, mainVars
<1>21. ASSUME NEW s \in Sandboxes, UndoEntry(s) PROVE ReleaseIsComplete'
  BY <1>0, <1>21, StartDestroyEffect DEF Idle, WaitIsOver, ReleaseIsComplete, RetentionIsLast, UndoEntry, Turn, runVars, leaseVars, boxVars, mainVars
<1>22. ASSUME NEW s \in Sandboxes, UndoReturns(s) PROVE ReleaseIsComplete'
  BY <1>0, <1>22, DestroyReturnsEffect, NoWaitEffect DEF Idle, WaitIsOver, ReleaseIsComplete, RetentionIsLast, UndoReturns, runVars, leaseVars, boxVars, mainVars
<1>23. ASSUME SignalInFinalize PROVE ReleaseIsComplete'
  BY <1>0, <1>23, SignalInFinalizeEffect DEF SignalInFinalize, runVars, Idle, WaitIsOver, ReleaseIsComplete, RetentionIsLast
<1>24. ASSUME LoopCloses PROVE ReleaseIsComplete'
  BY <1>0, <1>24, DestroyCancelledEffect DEF Idle, WaitIsOver, ReleaseIsComplete, RetentionIsLast, LoopCloses, runVars, leaseVars, boxVars, mainVars
<1>25. CASE UNCHANGED vars
  BY <1>0, <1>25 DEF vars, Idle, WaitIsOver, ReleaseIsComplete, RetentionIsLast, runVars, leaseVars, boxVars, mainVars
<1>26. QED
  BY <1>1, <1>2, <1>3, <1>4, <1>5, <1>6, <1>7, <1>8, <1>9, <1>10, <1>11, <1>12, <1>13, <1>14, <1>15, <1>16, <1>17, <1>18, <1>19, <1>20, <1>21, <1>22, <1>23, <1>24, <1>25 DEF Next, Protocol, Finalization

(* A kept sandbox is on no list that is still worked off.                    *)
LEMMA NextKeptIsLetGo ==
  ASSUME TypeOK, CallsAreOwned, RetentionIsLast, RetainingIsAllowed, ReleaseIsComplete, KeptIsLetGo, [Next]_vars
  PROVE  KeptIsLetGo'
<1>0. /\ TypeOK /\ call \in [Tasks -> Calls]
      /\ "main" \in Tasks /\ "teardown" \in Tasks /\ \A u \in Tasks : u \in {"main", "teardown"}
      /\ sanitation \in [Sandboxes -> {"not-run", "succeeded", "failed"}]
      /\ saved \in [Sandboxes -> BOOLEAN] /\ closing \in [Sandboxes -> BOOLEAN]
      /\ machine \in [Sandboxes -> {"none", "up", "stuck", "gone"}]
      /\ live \subseteq Sandboxes /\ todo \subseteq Sandboxes /\ retained \subseteq Sandboxes
      /\ NoBox \notin Sandboxes
  BY LeaseAssumption DEF TypeOK, Tasks
<1>1. ASSUME NEW s \in Sandboxes, Acquire(s) PROVE KeptIsLetGo'
  BY <1>0, <1>1 DEF Idle, WaitIsOver, KeptIsLetGo, RetentionIsLast, ReleaseIsComplete, CallsAreOwned, RetainingIsAllowed, Acquire, InProtocol, runVars, leaseVars, boxVars, mainVars
<1>2. ASSUME NEW s \in Sandboxes, DeadlineInRelease(s) PROVE KeptIsLetGo'
  BY <1>0, <1>2, DestroyCancelledEffect DEF Idle, WaitIsOver, KeptIsLetGo, RetentionIsLast, ReleaseIsComplete, CallsAreOwned, RetainingIsAllowed, DeadlineInRelease, runVars, leaseVars, boxVars, mainVars
<1>3. ASSUME NEW t \in Tasks, NEW s \in Sandboxes, MarkSanitized(t, s) PROVE KeptIsLetGo'
  BY <1>0, <1>3 DEF Idle, WaitIsOver, KeptIsLetGo, RetentionIsLast, ReleaseIsComplete, CallsAreOwned, RetainingIsAllowed, MarkSanitized, InProtocol, runVars, leaseVars, boxVars, mainVars
<1>4. ASSUME NEW t \in Tasks, NEW s \in Sandboxes, Release(t, s) PROVE KeptIsLetGo'
  <2>1. \/ StartDestroy(t, s, ReleaseLabel(s)) /\ UNCHANGED <<live, outcomes>>
        \/ AlreadyDestroyed(t, s, ReleaseLabel(s)) /\ UNCHANGED closing
    BY <1>4 DEF Release
  <2>2. CASE StartDestroy(t, s, ReleaseLabel(s)) /\ UNCHANGED <<live, outcomes>>
    BY <1>0, <1>4, <2>2, StartDestroyEffect DEF Release, InProtocol, Idle, WaitIsOver, KeptIsLetGo, RetentionIsLast, ReleaseIsComplete, CallsAreOwned, RetainingIsAllowed, runVars, leaseVars, boxVars, mainVars
  <2>3. CASE AlreadyDestroyed(t, s, ReleaseLabel(s)) /\ UNCHANGED closing
    BY <1>0, <1>4, <2>3, AlreadyDestroyedEffect DEF Release, InProtocol, Idle, WaitIsOver, KeptIsLetGo, RetentionIsLast, ReleaseIsComplete, CallsAreOwned, RetainingIsAllowed, runVars, leaseVars, boxVars, mainVars
  <2>4. QED BY <2>1, <2>2, <2>3
<1>5. ASSUME NEW t \in Tasks, NEW s \in Sandboxes, Released(t, s) PROVE KeptIsLetGo'
  BY <1>0, <1>5, DestroyReturnsEffect DEF Idle, WaitIsOver, KeptIsLetGo, RetentionIsLast, ReleaseIsComplete, CallsAreOwned, RetainingIsAllowed, Released, runVars, leaseVars, boxVars, mainVars
<1>6. ASSUME ProtocolFails PROVE KeptIsLetGo'
  BY <1>0, <1>6 DEF Idle, WaitIsOver, KeptIsLetGo, RetentionIsLast, ReleaseIsComplete, CallsAreOwned, RetainingIsAllowed, ProtocolFails, InProtocol, runVars, leaseVars, boxVars, mainVars
<1>7. ASSUME StartTeardown PROVE KeptIsLetGo'
  BY <1>0, <1>7 DEF Idle, WaitIsOver, KeptIsLetGo, RetentionIsLast, ReleaseIsComplete, CallsAreOwned, RetainingIsAllowed, StartTeardown, runVars, leaseVars, boxVars, mainVars
<1>8. ASSUME TeardownEnds PROVE KeptIsLetGo'
  BY <1>0, <1>8 DEF Idle, WaitIsOver, KeptIsLetGo, RetentionIsLast, ReleaseIsComplete, CallsAreOwned, RetainingIsAllowed, TeardownEnds, runVars, leaseVars, boxVars, mainVars
<1>9. ASSUME SignalInProtocol PROVE KeptIsLetGo'
  BY <1>0, <1>9, DestroyCancelledEffect DEF Idle, WaitIsOver, KeptIsLetGo, RetentionIsLast, ReleaseIsComplete, CallsAreOwned, RetainingIsAllowed, SignalInProtocol, runVars, leaseVars, boxVars, mainVars
<1>10. ASSUME ProtocolEnds PROVE KeptIsLetGo'
  BY <1>0, <1>10 DEF Idle, WaitIsOver, KeptIsLetGo, RetentionIsLast, ReleaseIsComplete, CallsAreOwned, RetainingIsAllowed, ProtocolEnds, MayRetain, runVars, leaseVars, boxVars, mainVars
<1>11. ASSUME FinalizeEnds PROVE KeptIsLetGo'
  BY <1>0, <1>11 DEF Idle, WaitIsOver, KeptIsLetGo, RetentionIsLast, ReleaseIsComplete, CallsAreOwned, RetainingIsAllowed, FinalizeEnds, runVars, leaseVars, boxVars, mainVars
<1>12. ASSUME ReleaseEnds PROVE KeptIsLetGo'
  BY <1>0, <1>12 DEF Idle, WaitIsOver, KeptIsLetGo, RetentionIsLast, ReleaseIsComplete, CallsAreOwned, RetainingIsAllowed, ReleaseEnds, runVars, leaseVars, boxVars, mainVars
<1>13. ASSUME Record PROVE KeptIsLetGo'
  BY <1>0, <1>13 DEF Idle, WaitIsOver, KeptIsLetGo, RetentionIsLast, ReleaseIsComplete, CallsAreOwned, RetainingIsAllowed, Record, runVars, leaseVars, boxVars, mainVars
<1>14. ASSUME UndoEnds PROVE KeptIsLetGo'
  BY <1>0, <1>14 DEF Idle, WaitIsOver, KeptIsLetGo, RetentionIsLast, ReleaseIsComplete, CallsAreOwned, RetainingIsAllowed, UndoEnds, runVars, leaseVars, boxVars, mainVars
<1>15. ASSUME NEW s \in Sandboxes, FinalizeEntry(s) PROVE KeptIsLetGo'
  BY <1>0, <1>15, StartDestroyEffect, AlreadyDestroyedEffect DEF Idle, WaitIsOver, KeptIsLetGo, RetentionIsLast, ReleaseIsComplete, CallsAreOwned, RetainingIsAllowed, FinalizeEntry, Turn, Doomed, runVars, leaseVars, boxVars, mainVars
<1>16. ASSUME NEW s \in Sandboxes, RetainReturns(s) PROVE KeptIsLetGo'
  BY <1>0, <1>16, StartDestroyEffect, NoWaitEffect DEF Idle, WaitIsOver, KeptIsLetGo, RetentionIsLast, ReleaseIsComplete, CallsAreOwned, RetainingIsAllowed, RetainReturns, runVars, leaseVars, boxVars, mainVars
<1>17. ASSUME NEW s \in Sandboxes, SnapshotReturns(s) PROVE KeptIsLetGo'
  BY <1>0, <1>17, StartDestroyEffect DEF Idle, WaitIsOver, KeptIsLetGo, RetentionIsLast, ReleaseIsComplete, CallsAreOwned, RetainingIsAllowed, SnapshotReturns, runVars, leaseVars, boxVars, mainVars
<1>18. ASSUME NEW s \in Sandboxes, FinalizeDestroyed(s) PROVE KeptIsLetGo'
  <2>0. \E ok \in BOOLEAN : DestroyReturns("main", s, ok)
    BY <1>18 DEF FinalizeDestroyed
  <2>1. /\ live' = live \ {s} /\ WaitIsOver("main")
        /\ todo' \subseteq todo \/ todo' = live'
    <3>1. live' = live \ {s} /\ WaitIsOver("main")
      BY <1>0, <2>0, DestroyReturnsEffect
    <3>2. todo' \subseteq todo \/ todo' = live'
      BY <1>18 DEF FinalizeDestroyed
    <3>3. QED BY <3>1, <3>2
  <2>2. main = "finalizing" /\ UNCHANGED <<retained, saved>>
    BY <1>18 DEF FinalizeDestroyed
  <2>3. QED BY <2>1, <2>2 DEF KeptIsLetGo, WaitIsOver
<1>19. ASSUME NEW s \in Sandboxes, ReleaseEntry(s) PROVE KeptIsLetGo'
  BY <1>0, <1>19, StartDestroyEffect, AlreadyDestroyedEffect DEF Idle, WaitIsOver, KeptIsLetGo, RetentionIsLast, ReleaseIsComplete, CallsAreOwned, RetainingIsAllowed, ReleaseEntry, Turn, runVars, leaseVars, boxVars, mainVars
<1>20. ASSUME NEW s \in Sandboxes, ReleaseDestroyed(s) PROVE KeptIsLetGo'
  BY <1>0, <1>20, DestroyReturnsEffect DEF Idle, WaitIsOver, KeptIsLetGo, RetentionIsLast, ReleaseIsComplete, CallsAreOwned, RetainingIsAllowed, ReleaseDestroyed, runVars, leaseVars, boxVars, mainVars
<1>21. ASSUME NEW s \in Sandboxes, UndoEntry(s) PROVE KeptIsLetGo'
  BY <1>0, <1>21, StartDestroyEffect DEF Idle, WaitIsOver, KeptIsLetGo, RetentionIsLast, ReleaseIsComplete, CallsAreOwned, RetainingIsAllowed, UndoEntry, Turn, runVars, leaseVars, boxVars, mainVars
<1>22. ASSUME NEW s \in Sandboxes, UndoReturns(s) PROVE KeptIsLetGo'
  BY <1>0, <1>22, DestroyReturnsEffect, NoWaitEffect DEF Idle, WaitIsOver, KeptIsLetGo, RetentionIsLast, ReleaseIsComplete, CallsAreOwned, RetainingIsAllowed, UndoReturns, runVars, leaseVars, boxVars, mainVars
<1>23. ASSUME SignalInFinalize PROVE KeptIsLetGo'
  BY <1>0, <1>23, SignalInFinalizeEffect DEF SignalInFinalize, runVars, Idle, WaitIsOver, KeptIsLetGo, RetentionIsLast, ReleaseIsComplete, CallsAreOwned, RetainingIsAllowed
<1>24. ASSUME LoopCloses PROVE KeptIsLetGo'
  BY <1>0, <1>24, DestroyCancelledEffect DEF Idle, WaitIsOver, KeptIsLetGo, RetentionIsLast, ReleaseIsComplete, CallsAreOwned, RetainingIsAllowed, LoopCloses, runVars, leaseVars, boxVars, mainVars
<1>25. CASE UNCHANGED vars
  BY <1>0, <1>25 DEF vars, Idle, WaitIsOver, KeptIsLetGo, RetentionIsLast, ReleaseIsComplete, CallsAreOwned, RetainingIsAllowed, runVars, leaseVars, boxVars, mainVars
<1>26. QED
  BY <1>1, <1>2, <1>3, <1>4, <1>5, <1>6, <1>7, <1>8, <1>9, <1>10, <1>11, <1>12, <1>13, <1>14, <1>15, <1>16, <1>17, <1>18, <1>19, <1>20, <1>21, <1>22, <1>23, <1>24, <1>25 DEF Next, Protocol, Finalization

(* The end of an await hands nobody a sandbox that was never leased. *)
LEMMA EndedAwaitHandlesOnlyLeased ==
  ASSUME TypeOK, OnlyLeasedIsHandled, NEW t \in Tasks, WaitIsOver(t),
         live' \subseteq live, todo' \subseteq todo \cup live, retained' = retained,
         closing' = closing,
         \A r \in Sandboxes : machine'[r] # machine[r] => machine'[r] # "none"
  PROVE  OnlyLeasedIsHandled'
<1> SUFFICES ASSUME NEW r \in Sandboxes, machine'[r] = "none"
             PROVE  /\ r \notin live' \cup todo' \cup retained'
                    /\ ~closing'[r]
                    /\ \A u \in Tasks : call'[u].box # r
  BY DEF OnlyLeasedIsHandled
<1>1. machine[r] = "none"
  OBVIOUS
<1>2. /\ r \notin live \cup todo \cup retained
      /\ ~closing[r]
      /\ \A u \in Tasks : call[u].box # r
  BY <1>1 DEF OnlyLeasedIsHandled
<1>3. \A u \in Tasks : call'[u].box # r
  BY <1>2, LeaseAssumption DEF WaitIsOver
<1>4. QED BY <1>2, <1>3

(* A sandbox that was never leased is on no list and in no call.             *)
LEMMA NextOnlyLeasedIsHandled ==
  ASSUME TypeOK, CallsAreOwned, OnlyLeasedIsHandled, [Next]_vars
  PROVE  OnlyLeasedIsHandled'
<1> SUFFICES ASSUME NEW r \in Sandboxes, machine'[r] = "none"
             PROVE  /\ r \notin live' \cup todo' \cup retained'
                    /\ ~closing'[r]
                    /\ \A t \in Tasks : call'[t].box # r
  BY DEF OnlyLeasedIsHandled
<1> DEFINE Untouched == /\ r \notin live' \cup todo' \cup retained'
                        /\ ~closing'[r]
                        /\ \A t \in Tasks : call'[t].box # r
           WasUntouched == /\ machine[r] = "none"
                           /\ r \notin live \cup todo \cup retained
                           /\ ~closing[r]
                           /\ \A t \in Tasks : call[t].box # r
<1>0. /\ TypeOK /\ call \in [Tasks -> Calls]
      /\ "main" \in Tasks /\ "teardown" \in Tasks /\ \A u \in Tasks : u \in {"main", "teardown"}
      /\ sanitation \in [Sandboxes -> {"not-run", "succeeded", "failed"}]
      /\ saved \in [Sandboxes -> BOOLEAN] /\ closing \in [Sandboxes -> BOOLEAN]
      /\ machine \in [Sandboxes -> {"none", "up", "stuck", "gone"}]
      /\ live \subseteq Sandboxes /\ todo \subseteq Sandboxes /\ retained \subseteq Sandboxes
      /\ NoBox \notin Sandboxes
  BY LeaseAssumption DEF TypeOK, Tasks
<1>1. ASSUME NEW s \in Sandboxes, Acquire(s) PROVE Untouched
  BY <1>0, <1>1 DEF Idle, WaitIsOver, OnlyLeasedIsHandled, CallsAreOwned, Acquire, InProtocol, runVars, leaseVars, boxVars, mainVars
<1>2. ASSUME NEW s \in Sandboxes, DeadlineInRelease(s) PROVE Untouched
  BY <1>0, <1>2, DestroyCancelledEffect DEF Idle, WaitIsOver, OnlyLeasedIsHandled, CallsAreOwned, DeadlineInRelease, runVars, leaseVars, boxVars, mainVars
<1>3. ASSUME NEW t \in Tasks, NEW s \in Sandboxes, MarkSanitized(t, s) PROVE Untouched
  BY <1>0, <1>3 DEF Idle, WaitIsOver, OnlyLeasedIsHandled, CallsAreOwned, MarkSanitized, InProtocol, runVars, leaseVars, boxVars, mainVars
<1>4. ASSUME NEW t \in Tasks, NEW s \in Sandboxes, Release(t, s) PROVE Untouched
  <2>1. /\ s \in live
        /\ UNCHANGED <<retained, machine, todo>>
        /\ \/ StartDestroy(t, s, ReleaseLabel(s)) /\ UNCHANGED <<live, outcomes>>
           \/ AlreadyDestroyed(t, s, ReleaseLabel(s)) /\ UNCHANGED closing
    BY <1>4 DEF Release, mainVars
  <2>2. WasUntouched /\ s # r
    BY <1>0, <2>1 DEF OnlyLeasedIsHandled
  <2>3. CASE StartDestroy(t, s, ReleaseLabel(s)) /\ UNCHANGED live
    <3>1. /\ \A q \in Sandboxes : closing'[q] = (closing[q] \/ q = s)
          /\ call'[t].box = s /\ \A u \in Tasks \ {t} : call'[u] = call[u]
      BY <1>0, <2>3, StartDestroyEffect
    <3>2. \A u \in Tasks : call'[u].box # r
      BY <2>2, <3>1
    <3>3. QED BY <2>1, <2>2, <2>3, <3>1, <3>2
  <2>4. CASE AlreadyDestroyed(t, s, ReleaseLabel(s)) /\ UNCHANGED closing
    <3>1. live' = live \ {s} /\ WaitIsOver(t)
      BY <1>0, <2>4, AlreadyDestroyedEffect
    <3>2. \A u \in Tasks : call'[u].box # r
      BY <1>0, <2>2, <3>1 DEF WaitIsOver
    <3>3. QED BY <2>1, <2>2, <2>4, <3>1, <3>2
  <2>5. QED BY <2>1, <2>3, <2>4
<1>5. ASSUME NEW t \in Tasks, NEW s \in Sandboxes, Released(t, s) PROVE Untouched
  <2>1. /\ UNCHANGED <<retained, closing, todo>>
        /\ \E ok \in BOOLEAN : DestroyReturns(t, s, ok)
    BY <1>5 DEF Released, mainVars
  <2>2. /\ live' \subseteq live /\ WaitIsOver(t)
        /\ \A q \in Sandboxes : machine'[q] # machine[q] => machine'[q] # "none"
    BY <1>0, <2>1, DestroyReturnsEffect
  <2>3. OnlyLeasedIsHandled'
    BY <1>0, <2>1, <2>2, EndedAwaitHandlesOnlyLeased
  <2>4. QED BY <2>3 DEF OnlyLeasedIsHandled
<1>6. ASSUME ProtocolFails PROVE Untouched
  BY <1>0, <1>6 DEF Idle, WaitIsOver, OnlyLeasedIsHandled, CallsAreOwned, ProtocolFails, InProtocol, runVars, leaseVars, boxVars, mainVars
<1>7. ASSUME StartTeardown PROVE Untouched
  BY <1>0, <1>7 DEF Idle, WaitIsOver, OnlyLeasedIsHandled, CallsAreOwned, StartTeardown, runVars, leaseVars, boxVars, mainVars
<1>8. ASSUME TeardownEnds PROVE Untouched
  BY <1>0, <1>8 DEF Idle, WaitIsOver, OnlyLeasedIsHandled, CallsAreOwned, TeardownEnds, runVars, leaseVars, boxVars, mainVars
<1>9. ASSUME SignalInProtocol PROVE Untouched
  <2>1. UNCHANGED <<retained, closing>> /\ todo' \subseteq todo \cup live
    BY <1>9 DEF SignalInProtocol
  <2>2. CASE UNCHANGED <<live, machine, call>>
    BY <1>0, <2>1, <2>2 DEF OnlyLeasedIsHandled
  <2>3. CASE \E s \in Sandboxes : DestroyCancelled("main", s)
    <3>1. /\ live' \subseteq live /\ WaitIsOver("main")
          /\ \A q \in Sandboxes : machine'[q] # machine[q] => machine'[q] # "none"
      BY <1>0, <2>3, DestroyCancelledEffect
    <3>2. OnlyLeasedIsHandled'
      BY <1>0, <2>1, <3>1, EndedAwaitHandlesOnlyLeased
    <3>3. QED BY <3>2 DEF OnlyLeasedIsHandled
  <2>4. QED BY <1>9, <2>2, <2>3 DEF SignalInProtocol
<1>10. ASSUME ProtocolEnds PROVE Untouched
  BY <1>0, <1>10 DEF Idle, WaitIsOver, OnlyLeasedIsHandled, CallsAreOwned, ProtocolEnds, MayRetain, runVars, leaseVars, boxVars, mainVars
<1>11. ASSUME FinalizeEnds PROVE Untouched
  BY <1>0, <1>11 DEF Idle, WaitIsOver, OnlyLeasedIsHandled, CallsAreOwned, FinalizeEnds, runVars, leaseVars, boxVars, mainVars
<1>12. ASSUME ReleaseEnds PROVE Untouched
  BY <1>0, <1>12 DEF Idle, WaitIsOver, OnlyLeasedIsHandled, CallsAreOwned, ReleaseEnds, runVars, leaseVars, boxVars, mainVars
<1>13. ASSUME Record PROVE Untouched
  BY <1>0, <1>13 DEF Idle, WaitIsOver, OnlyLeasedIsHandled, CallsAreOwned, Record, runVars, leaseVars, boxVars, mainVars
<1>14. ASSUME UndoEnds PROVE Untouched
  BY <1>0, <1>14 DEF Idle, WaitIsOver, OnlyLeasedIsHandled, CallsAreOwned, UndoEnds, runVars, leaseVars, boxVars, mainVars
<1>15. ASSUME NEW s \in Sandboxes, FinalizeEntry(s) PROVE Untouched
  BY <1>0, <1>15, StartDestroyEffect, AlreadyDestroyedEffect DEF Idle, WaitIsOver, OnlyLeasedIsHandled, CallsAreOwned, FinalizeEntry, Turn, Doomed, runVars, leaseVars, boxVars, mainVars
<1>16. ASSUME NEW s \in Sandboxes, RetainReturns(s) PROVE Untouched
  BY <1>0, <1>16, StartDestroyEffect, NoWaitEffect DEF Idle, WaitIsOver, OnlyLeasedIsHandled, CallsAreOwned, RetainReturns, runVars, leaseVars, boxVars, mainVars
<1>17. ASSUME NEW s \in Sandboxes, SnapshotReturns(s) PROVE Untouched
  BY <1>0, <1>17, StartDestroyEffect DEF Idle, WaitIsOver, OnlyLeasedIsHandled, CallsAreOwned, SnapshotReturns, runVars, leaseVars, boxVars, mainVars
<1>18. ASSUME NEW s \in Sandboxes, FinalizeDestroyed(s) PROVE Untouched
  <2>1. /\ UNCHANGED <<retained, closing>>
        /\ todo' \subseteq todo \/ todo' = live'
        /\ \E ok \in BOOLEAN : DestroyReturns("main", s, ok)
    BY <1>18 DEF FinalizeDestroyed
  <2>2. /\ live' \subseteq live /\ WaitIsOver("main")
        /\ \A q \in Sandboxes : machine'[q] # machine[q] => machine'[q] # "none"
    BY <1>0, <2>1, DestroyReturnsEffect
  <2>3. OnlyLeasedIsHandled'
    BY <1>0, <2>1, <2>2, EndedAwaitHandlesOnlyLeased
  <2>4. QED BY <2>3 DEF OnlyLeasedIsHandled
<1>19. ASSUME NEW s \in Sandboxes, ReleaseEntry(s) PROVE Untouched
  BY <1>0, <1>19, StartDestroyEffect, AlreadyDestroyedEffect DEF Idle, WaitIsOver, OnlyLeasedIsHandled, CallsAreOwned, ReleaseEntry, Turn, runVars, leaseVars, boxVars, mainVars
<1>20. ASSUME NEW s \in Sandboxes, ReleaseDestroyed(s) PROVE Untouched
  BY <1>0, <1>20, DestroyReturnsEffect DEF Idle, WaitIsOver, OnlyLeasedIsHandled, CallsAreOwned, ReleaseDestroyed, runVars, leaseVars, boxVars, mainVars
<1>21. ASSUME NEW s \in Sandboxes, UndoEntry(s) PROVE Untouched
  BY <1>0, <1>21, StartDestroyEffect DEF Idle, WaitIsOver, OnlyLeasedIsHandled, CallsAreOwned, UndoEntry, Turn, runVars, leaseVars, boxVars, mainVars
<1>22. ASSUME NEW s \in Sandboxes, UndoReturns(s) PROVE Untouched
  BY <1>0, <1>22, DestroyReturnsEffect, NoWaitEffect DEF Idle, WaitIsOver, OnlyLeasedIsHandled, CallsAreOwned, UndoReturns, runVars, leaseVars, boxVars, mainVars
<1>23. ASSUME SignalInFinalize PROVE Untouched
  <2>1. UNCHANGED <<retained, closing, todo>>
    BY <1>23 DEF SignalInFinalize
  <2>2. /\ live' \subseteq live /\ WaitIsOver("main")
        /\ \A q \in Sandboxes : machine'[q] # machine[q] => machine'[q] # "none"
    BY <1>0, <1>23, SignalInFinalizeEffect
  <2>3. OnlyLeasedIsHandled'
    BY <1>0, <2>1, <2>2, EndedAwaitHandlesOnlyLeased
  <2>4. QED BY <2>3 DEF OnlyLeasedIsHandled
<1>24. ASSUME LoopCloses PROVE Untouched
  BY <1>0, <1>24, DestroyCancelledEffect DEF Idle, WaitIsOver, OnlyLeasedIsHandled, CallsAreOwned, LoopCloses, runVars, leaseVars, boxVars, mainVars
<1>25. CASE UNCHANGED vars
  BY <1>0, <1>25 DEF vars, Idle, WaitIsOver, OnlyLeasedIsHandled, CallsAreOwned, runVars, leaseVars, boxVars, mainVars
<1>26. QED
  BY <1>1, <1>2, <1>3, <1>4, <1>5, <1>6, <1>7, <1>8, <1>9, <1>10, <1>11, <1>12, <1>13, <1>14, <1>15, <1>16, <1>17, <1>18, <1>19, <1>20, <1>21, <1>22, <1>23, <1>24, <1>25 DEF Next, Protocol, Finalization

(* Without a cancellation main does not leave while the teardown runs, nor   *)
(* before its lists are worked off.                                         *)
LEMMA NextTeardownIsAwaited ==
  ASSUME TypeOK, CallsAreOwned, RetentionIsLast, RetainingIsAllowed, ReleaseIsComplete, OnlyLeasedIsHandled, UndisturbedCustody, disturbed' = {}, [Next]_vars
  PROVE  disturbed = {} /\ TeardownIsAwaited' /\ NothingIsLeftLive'
<1> DEFINE Awaited == disturbed = {} /\ TeardownIsAwaited' /\ NothingIsLeftLive'
<1>0. /\ TypeOK /\ call \in [Tasks -> Calls]
      /\ "main" \in Tasks /\ "teardown" \in Tasks /\ \A u \in Tasks : u \in {"main", "teardown"}
      /\ sanitation \in [Sandboxes -> {"not-run", "succeeded", "failed"}]
      /\ saved \in [Sandboxes -> BOOLEAN] /\ closing \in [Sandboxes -> BOOLEAN]
      /\ machine \in [Sandboxes -> {"none", "up", "stuck", "gone"}]
      /\ live \subseteq Sandboxes /\ todo \subseteq Sandboxes /\ retained \subseteq Sandboxes
      /\ NoBox \notin Sandboxes
  BY LeaseAssumption DEF TypeOK, Tasks
<1>1. ASSUME NEW s \in Sandboxes, Acquire(s) PROVE Awaited
  BY <1>0, <1>1 DEF Idle, WaitIsOver, CallsAreOwned, UndisturbedCustody, TeardownIsAwaited, NothingIsLeftLive, ReleaseIsComplete, Acquire, InProtocol, runVars, leaseVars, boxVars, mainVars
<1>2. ASSUME NEW s \in Sandboxes, DeadlineInRelease(s) PROVE Awaited
  BY <1>0, <1>2, DestroyCancelledEffect DEF Idle, WaitIsOver, CallsAreOwned, UndisturbedCustody, TeardownIsAwaited, NothingIsLeftLive, ReleaseIsComplete, DeadlineInRelease, runVars, leaseVars, boxVars, mainVars
<1>3. ASSUME NEW t \in Tasks, NEW s \in Sandboxes, MarkSanitized(t, s) PROVE Awaited
  BY <1>0, <1>3 DEF Idle, WaitIsOver, CallsAreOwned, UndisturbedCustody, TeardownIsAwaited, NothingIsLeftLive, ReleaseIsComplete, MarkSanitized, InProtocol, runVars, leaseVars, boxVars, mainVars
<1>4. ASSUME NEW t \in Tasks, NEW s \in Sandboxes, Release(t, s) PROVE Awaited
  <2>1. \/ StartDestroy(t, s, ReleaseLabel(s)) /\ UNCHANGED <<live, outcomes>>
        \/ AlreadyDestroyed(t, s, ReleaseLabel(s)) /\ UNCHANGED closing
    BY <1>4 DEF Release
  <2>2. CASE StartDestroy(t, s, ReleaseLabel(s)) /\ UNCHANGED <<live, outcomes>>
    BY <1>0, <1>4, <2>2, StartDestroyEffect DEF Release, InProtocol, Idle, WaitIsOver, CallsAreOwned, UndisturbedCustody, TeardownIsAwaited, NothingIsLeftLive, ReleaseIsComplete, runVars, leaseVars, boxVars, mainVars
  <2>3. CASE AlreadyDestroyed(t, s, ReleaseLabel(s)) /\ UNCHANGED closing
    BY <1>0, <1>4, <2>3, AlreadyDestroyedEffect DEF Release, InProtocol, Idle, WaitIsOver, CallsAreOwned, UndisturbedCustody, TeardownIsAwaited, NothingIsLeftLive, ReleaseIsComplete, runVars, leaseVars, boxVars, mainVars
  <2>4. QED BY <2>1, <2>2, <2>3
<1>5. ASSUME NEW t \in Tasks, NEW s \in Sandboxes, Released(t, s) PROVE Awaited
  BY <1>0, <1>5, DestroyReturnsEffect DEF Idle, WaitIsOver, CallsAreOwned, UndisturbedCustody, TeardownIsAwaited, NothingIsLeftLive, ReleaseIsComplete, Released, runVars, leaseVars, boxVars, mainVars
<1>6. ASSUME ProtocolFails PROVE Awaited
  BY <1>0, <1>6 DEF Idle, WaitIsOver, CallsAreOwned, UndisturbedCustody, TeardownIsAwaited, NothingIsLeftLive, ReleaseIsComplete, ProtocolFails, InProtocol, runVars, leaseVars, boxVars, mainVars
<1>7. ASSUME StartTeardown PROVE Awaited
  BY <1>0, <1>7 DEF Idle, WaitIsOver, CallsAreOwned, UndisturbedCustody, TeardownIsAwaited, NothingIsLeftLive, ReleaseIsComplete, StartTeardown, runVars, leaseVars, boxVars, mainVars
<1>8. ASSUME TeardownEnds PROVE Awaited
  BY <1>0, <1>8 DEF Idle, WaitIsOver, CallsAreOwned, UndisturbedCustody, TeardownIsAwaited, NothingIsLeftLive, ReleaseIsComplete, TeardownEnds, runVars, leaseVars, boxVars, mainVars
<1>9. ASSUME SignalInProtocol PROVE Awaited
  BY <1>0, <1>9, DestroyCancelledEffect DEF Idle, WaitIsOver, CallsAreOwned, UndisturbedCustody, TeardownIsAwaited, NothingIsLeftLive, ReleaseIsComplete, SignalInProtocol, runVars, leaseVars, boxVars, mainVars
<1>10. ASSUME ProtocolEnds PROVE Awaited
  BY <1>0, <1>10 DEF Idle, WaitIsOver, CallsAreOwned, UndisturbedCustody, TeardownIsAwaited, NothingIsLeftLive, ReleaseIsComplete, ProtocolEnds, MayRetain, runVars, leaseVars, boxVars, mainVars
<1>11. ASSUME FinalizeEnds PROVE Awaited
  BY <1>0, <1>11 DEF Idle, WaitIsOver, CallsAreOwned, UndisturbedCustody, TeardownIsAwaited, NothingIsLeftLive, ReleaseIsComplete, FinalizeEnds, runVars, leaseVars, boxVars, mainVars
<1>12. ASSUME ReleaseEnds PROVE Awaited
  BY <1>0, <1>12 DEF Idle, WaitIsOver, CallsAreOwned, UndisturbedCustody, TeardownIsAwaited, NothingIsLeftLive, ReleaseIsComplete, ReleaseEnds, runVars, leaseVars, boxVars, mainVars
<1>13. ASSUME Record PROVE Awaited
  BY <1>0, <1>13 DEF Idle, WaitIsOver, CallsAreOwned, UndisturbedCustody, TeardownIsAwaited, NothingIsLeftLive, ReleaseIsComplete, Record, runVars, leaseVars, boxVars, mainVars
<1>14. ASSUME UndoEnds PROVE Awaited
  BY <1>0, <1>14 DEF Idle, WaitIsOver, CallsAreOwned, UndisturbedCustody, TeardownIsAwaited, NothingIsLeftLive, ReleaseIsComplete, UndoEnds, runVars, leaseVars, boxVars, mainVars
<1>15. ASSUME NEW s \in Sandboxes, FinalizeEntry(s) PROVE Awaited
  BY <1>0, <1>15, StartDestroyEffect, AlreadyDestroyedEffect DEF Idle, WaitIsOver, CallsAreOwned, UndisturbedCustody, TeardownIsAwaited, NothingIsLeftLive, ReleaseIsComplete, FinalizeEntry, Turn, Doomed, runVars, leaseVars, boxVars, mainVars
<1>16. ASSUME NEW s \in Sandboxes, RetainReturns(s) PROVE Awaited
  BY <1>0, <1>16, StartDestroyEffect, NoWaitEffect DEF Idle, WaitIsOver, CallsAreOwned, UndisturbedCustody, TeardownIsAwaited, NothingIsLeftLive, ReleaseIsComplete, RetainReturns, runVars, leaseVars, boxVars, mainVars
<1>17. ASSUME NEW s \in Sandboxes, SnapshotReturns(s) PROVE Awaited
  BY <1>0, <1>17, StartDestroyEffect DEF Idle, WaitIsOver, CallsAreOwned, UndisturbedCustody, TeardownIsAwaited, NothingIsLeftLive, ReleaseIsComplete, SnapshotReturns, runVars, leaseVars, boxVars, mainVars
<1>18. ASSUME NEW s \in Sandboxes, FinalizeDestroyed(s) PROVE Awaited
  BY <1>0, <1>18, DestroyReturnsEffect DEF Idle, WaitIsOver, CallsAreOwned, UndisturbedCustody, TeardownIsAwaited, NothingIsLeftLive, ReleaseIsComplete, FinalizeDestroyed, runVars, leaseVars, boxVars, mainVars
<1>19. ASSUME NEW s \in Sandboxes, ReleaseEntry(s) PROVE Awaited
  BY <1>0, <1>19, StartDestroyEffect, AlreadyDestroyedEffect DEF Idle, WaitIsOver, CallsAreOwned, UndisturbedCustody, TeardownIsAwaited, NothingIsLeftLive, ReleaseIsComplete, ReleaseEntry, Turn, runVars, leaseVars, boxVars, mainVars
<1>20. ASSUME NEW s \in Sandboxes, ReleaseDestroyed(s) PROVE Awaited
  BY <1>0, <1>20, DestroyReturnsEffect DEF Idle, WaitIsOver, CallsAreOwned, UndisturbedCustody, TeardownIsAwaited, NothingIsLeftLive, ReleaseIsComplete, ReleaseDestroyed, runVars, leaseVars, boxVars, mainVars
<1>21. ASSUME NEW s \in Sandboxes, UndoEntry(s) PROVE Awaited
  BY <1>0, <1>21, StartDestroyEffect DEF Idle, WaitIsOver, CallsAreOwned, UndisturbedCustody, TeardownIsAwaited, NothingIsLeftLive, ReleaseIsComplete, UndoEntry, Turn, runVars, leaseVars, boxVars, mainVars
<1>22. ASSUME NEW s \in Sandboxes, UndoReturns(s) PROVE Awaited
  BY <1>0, <1>22, DestroyReturnsEffect, NoWaitEffect DEF Idle, WaitIsOver, CallsAreOwned, UndisturbedCustody, TeardownIsAwaited, NothingIsLeftLive, ReleaseIsComplete, UndoReturns, runVars, leaseVars, boxVars, mainVars
<1>23. ASSUME SignalInFinalize PROVE Awaited
  BY <1>0, <1>23, SignalInFinalizeEffect DEF SignalInFinalize, runVars, Idle, WaitIsOver, CallsAreOwned, UndisturbedCustody, TeardownIsAwaited, NothingIsLeftLive, ReleaseIsComplete
<1>24. ASSUME LoopCloses PROVE Awaited
  BY <1>0, <1>24, DestroyCancelledEffect DEF Idle, WaitIsOver, CallsAreOwned, UndisturbedCustody, TeardownIsAwaited, NothingIsLeftLive, ReleaseIsComplete, LoopCloses, runVars, leaseVars, boxVars, mainVars
<1>25. CASE UNCHANGED vars
  BY <1>0, <1>25 DEF vars, Idle, WaitIsOver, CallsAreOwned, UndisturbedCustody, TeardownIsAwaited, NothingIsLeftLive, ReleaseIsComplete, runVars, leaseVars, boxVars, mainVars
<1>26. QED
  BY <1>1, <1>2, <1>3, <1>4, <1>5, <1>6, <1>7, <1>8, <1>9, <1>10, <1>11, <1>12, <1>13, <1>14, <1>15, <1>16, <1>17, <1>18, <1>19, <1>20, <1>21, <1>22, <1>23, <1>24, <1>25 DEF Next, Protocol, Finalization

(* Nothing drops a running sandbox: destroy() returns for one that is gone   *)
(* or refused, and retention takes over from the lease.                      *)
LEMMA NextRunningIsHeld ==
  ASSUME TypeOK, CallsAreOwned, RetentionIsLast, RetainingIsAllowed, ReleaseIsComplete, OnlyLeasedIsHandled, UndisturbedCustody, disturbed' = {}, TeardownIsAwaited, NothingIsLeftLive, [Next]_vars
  PROVE  \A r \in Sandboxes : RunningIsHeld(r)'
<1> SUFFICES ASSUME NEW r \in Sandboxes, machine'[r] = "up"
             PROVE  /\ r \in live' \/ (r \in retained' /\ requested'[r] = "keep")
                    /\ closing'[r] => \E t \in Tasks : call'[t].await = "destroy" /\ call'[t].box = r
                    /\ main' = "undoing" => r \in todo'
  BY DEF RunningIsHeld
<1> DEFINE Held == /\ r \in live' \/ (r \in retained' /\ requested'[r] = "keep")
                   /\ closing'[r] => \E t \in Tasks : call'[t].await = "destroy" /\ call'[t].box = r
                   /\ main' = "undoing" => r \in todo'
<1>h. disturbed = {} /\ TeardownIsAwaited /\ \A s \in Sandboxes : RunningIsHeld(s)
  BY NextTeardownIsAwaited DEF UndisturbedCustody
<1>0. /\ TypeOK /\ call \in [Tasks -> Calls]
      /\ "main" \in Tasks /\ "teardown" \in Tasks /\ \A u \in Tasks : u \in {"main", "teardown"}
      /\ sanitation \in [Sandboxes -> {"not-run", "succeeded", "failed"}]
      /\ saved \in [Sandboxes -> BOOLEAN] /\ closing \in [Sandboxes -> BOOLEAN]
      /\ machine \in [Sandboxes -> {"none", "up", "stuck", "gone"}]
      /\ live \subseteq Sandboxes /\ todo \subseteq Sandboxes /\ retained \subseteq Sandboxes
      /\ NoBox \notin Sandboxes
  BY LeaseAssumption DEF TypeOK, Tasks
<1>1. ASSUME NEW s \in Sandboxes, Acquire(s) PROVE Held
  BY <1>0, <1>1 DEF Idle, WaitIsOver, CallsAreOwned, UndisturbedCustody, TeardownIsAwaited, RunningIsHeld, RetentionIsLast, ReleaseIsComplete, RetainingIsAllowed, OnlyLeasedIsHandled, Acquire, InProtocol, runVars, leaseVars, boxVars, mainVars
<1>2. ASSUME NEW s \in Sandboxes, DeadlineInRelease(s) PROVE Held
  BY <1>0, <1>2, DestroyCancelledEffect DEF Idle, WaitIsOver, CallsAreOwned, UndisturbedCustody, TeardownIsAwaited, RunningIsHeld, RetentionIsLast, ReleaseIsComplete, RetainingIsAllowed, OnlyLeasedIsHandled, DeadlineInRelease, runVars, leaseVars, boxVars, mainVars
<1>3. ASSUME NEW t \in Tasks, NEW s \in Sandboxes, MarkSanitized(t, s) PROVE Held
  <2>1. UNCHANGED <<machine, live, retained, requested, closing, call, main, todo>>
    BY <1>3 DEF MarkSanitized, boxVars, mainVars, runVars
  <2>2. machine[r] = "up" /\ RunningIsHeld(r)
    BY <1>0, <1>h, <2>1
  <2>3. QED BY <1>0, <2>1, <2>2 DEF RunningIsHeld
<1>4. ASSUME NEW t \in Tasks, NEW s \in Sandboxes, Release(t, s) PROVE Held
  <2>1. /\ UNCHANGED <<retained, requested, machine, main>>
        /\ main \in {"protocol", "awaiting_teardown"} /\ Idle(t)
    BY <1>4, <1>0, <1>h DEF Release, InProtocol, TeardownIsAwaited, runVars, mainVars
  <2>2. machine[r] = "up" /\ RunningIsHeld(r)
    BY <1>0, <1>h, <2>1
  <2>3. \A u \in Tasks : Idle(u)
    <3>1. CASE t = "main"
      BY <1>4, <1>0, <2>1, <3>1 DEF Release, InProtocol, CallsAreOwned, Idle
    <3>2. CASE t = "teardown"
      BY <1>4, <1>0, <1>h, <2>1, <3>2 DEF Release, InProtocol, CallsAreOwned, TeardownIsAwaited, Idle
    <3>3. QED BY <1>0, <3>1, <3>2
  <2>4. ~closing[r] /\ (r \in live \/ (r \in retained /\ requested[r] = "keep"))
    BY <2>2, <2>3 DEF RunningIsHeld, Idle
  <2>5. CASE StartDestroy(t, s, ReleaseLabel(s)) /\ UNCHANGED live
    <3>1. /\ call'[t].await = "destroy" /\ call'[t].box = s
          /\ \A q \in Sandboxes : closing'[q] = (closing[q] \/ q = s)
      BY <2>5, StartDestroyEffect
    <3>2. QED BY <1>0, <2>1, <2>4, <2>5, <3>1
  <2>6. CASE AlreadyDestroyed(t, s, ReleaseLabel(s)) /\ UNCHANGED closing
    BY <1>0, <2>1, <2>4, <2>6, AlreadyDestroyedEffect
  <2>7. QED BY <1>4, <2>5, <2>6 DEF Release
<1>5. ASSUME NEW t \in Tasks, NEW s \in Sandboxes, Released(t, s) PROVE Held
  <2>1. UNCHANGED <<retained, requested, closing, main, todo>>
    BY <1>5 DEF Released, runVars, mainVars
  <2>2. \E ok \in BOOLEAN : DestroyReturns(t, s, ok)
    BY <1>5 DEF Released
  <2>3. /\ machine[r] = "up" /\ RunningIsHeld(r)
        /\ r \in live' <=> r \in live
        /\ \A u \in Tasks : call[u].box = r => call'[u] = call[u]
    BY <1>0, <1>h, <2>2, DestroyReturnsEffect DEF WaitIsOver
  <2>4. QED BY <2>1, <2>3 DEF RunningIsHeld
<1>6. ASSUME ProtocolFails PROVE Held
  BY <1>0, <1>6 DEF Idle, WaitIsOver, CallsAreOwned, UndisturbedCustody, TeardownIsAwaited, RunningIsHeld, RetentionIsLast, ReleaseIsComplete, RetainingIsAllowed, OnlyLeasedIsHandled, ProtocolFails, InProtocol, runVars, leaseVars, boxVars, mainVars
<1>7. ASSUME StartTeardown PROVE Held
  BY <1>0, <1>7 DEF Idle, WaitIsOver, CallsAreOwned, UndisturbedCustody, TeardownIsAwaited, RunningIsHeld, RetentionIsLast, ReleaseIsComplete, RetainingIsAllowed, OnlyLeasedIsHandled, StartTeardown, runVars, leaseVars, boxVars, mainVars
<1>8. ASSUME TeardownEnds PROVE Held
  <2>1. UNCHANGED <<machine, live, retained, requested, closing, call, main, todo>>
    BY <1>8 DEF TeardownEnds, boxVars, leaseVars, mainVars, runVars
  <2>2. machine[r] = "up" /\ RunningIsHeld(r)
    BY <1>0, <1>h, <2>1
  <2>3. QED BY <1>0, <2>1, <2>2 DEF RunningIsHeld
<1>9. ASSUME SignalInProtocol PROVE Held
  BY <1>0, <1>9, DestroyCancelledEffect DEF Idle, WaitIsOver, CallsAreOwned, UndisturbedCustody, TeardownIsAwaited, RunningIsHeld, RetentionIsLast, ReleaseIsComplete, RetainingIsAllowed, OnlyLeasedIsHandled, SignalInProtocol, runVars, leaseVars, boxVars, mainVars
<1>10. ASSUME ProtocolEnds PROVE Held
  <2>1. UNCHANGED <<machine, live, retained, requested, closing, call>> /\ main' # "undoing"
    BY <1>10 DEF ProtocolEnds, boxVars, leaseVars, runVars
  <2>2. machine[r] = "up" /\ RunningIsHeld(r)
    BY <1>0, <1>h, <2>1
  <2>3. QED BY <2>1, <2>2 DEF RunningIsHeld
<1>11. ASSUME FinalizeEnds PROVE Held
  BY <1>0, <1>11 DEF Idle, WaitIsOver, CallsAreOwned, UndisturbedCustody, TeardownIsAwaited, RunningIsHeld, RetentionIsLast, ReleaseIsComplete, RetainingIsAllowed, OnlyLeasedIsHandled, FinalizeEnds, runVars, leaseVars, boxVars, mainVars
<1>12. ASSUME ReleaseEnds PROVE Held
  BY <1>0, <1>12 DEF Idle, WaitIsOver, CallsAreOwned, UndisturbedCustody, TeardownIsAwaited, RunningIsHeld, RetentionIsLast, ReleaseIsComplete, RetainingIsAllowed, OnlyLeasedIsHandled, ReleaseEnds, runVars, leaseVars, boxVars, mainVars
<1>13. ASSUME Record PROVE Held
  BY <1>0, <1>13 DEF Idle, WaitIsOver, CallsAreOwned, UndisturbedCustody, TeardownIsAwaited, RunningIsHeld, RetentionIsLast, ReleaseIsComplete, RetainingIsAllowed, OnlyLeasedIsHandled, Record, runVars, leaseVars, boxVars, mainVars
<1>14. ASSUME UndoEnds PROVE Held
  BY <1>0, <1>14 DEF Idle, WaitIsOver, CallsAreOwned, UndisturbedCustody, TeardownIsAwaited, RunningIsHeld, RetentionIsLast, ReleaseIsComplete, RetainingIsAllowed, OnlyLeasedIsHandled, UndoEnds, runVars, leaseVars, boxVars, mainVars
<1>15. ASSUME NEW s \in Sandboxes, FinalizeEntry(s) PROVE Held
  BY <1>0, <1>15, StartDestroyEffect, AlreadyDestroyedEffect DEF Idle, WaitIsOver, CallsAreOwned, UndisturbedCustody, TeardownIsAwaited, RunningIsHeld, RetentionIsLast, ReleaseIsComplete, RetainingIsAllowed, OnlyLeasedIsHandled, FinalizeEntry, Turn, Doomed, runVars, leaseVars, boxVars, mainVars
<1>16. ASSUME NEW s \in Sandboxes, RetainReturns(s) PROVE Held
  BY <1>0, <1>16, StartDestroyEffect, NoWaitEffect DEF Idle, WaitIsOver, CallsAreOwned, UndisturbedCustody, TeardownIsAwaited, RunningIsHeld, RetentionIsLast, ReleaseIsComplete, RetainingIsAllowed, OnlyLeasedIsHandled, RetainReturns, runVars, leaseVars, boxVars, mainVars
<1>17. ASSUME NEW s \in Sandboxes, SnapshotReturns(s) PROVE Held
  BY <1>0, <1>17, StartDestroyEffect DEF Idle, WaitIsOver, CallsAreOwned, UndisturbedCustody, TeardownIsAwaited, RunningIsHeld, RetentionIsLast, ReleaseIsComplete, RetainingIsAllowed, OnlyLeasedIsHandled, SnapshotReturns, runVars, leaseVars, boxVars, mainVars
<1>18. ASSUME NEW s \in Sandboxes, FinalizeDestroyed(s) PROVE Held
  <2>1. UNCHANGED <<retained, requested, closing>> /\ main' # "undoing"
    BY <1>18 DEF FinalizeDestroyed, runVars
  <2>2. \E ok \in BOOLEAN : DestroyReturns("main", s, ok)
    BY <1>18 DEF FinalizeDestroyed
  <2>3. /\ machine[r] = "up" /\ RunningIsHeld(r)
        /\ r \in live' <=> r \in live
        /\ \A u \in Tasks : call[u].box = r => call'[u] = call[u]
    BY <1>0, <1>h, <2>2, DestroyReturnsEffect DEF WaitIsOver
  <2>4. QED BY <2>1, <2>3 DEF RunningIsHeld
<1>19. ASSUME NEW s \in Sandboxes, ReleaseEntry(s) PROVE Held
  BY <1>0, <1>19, StartDestroyEffect, AlreadyDestroyedEffect DEF Idle, WaitIsOver, CallsAreOwned, UndisturbedCustody, TeardownIsAwaited, RunningIsHeld, RetentionIsLast, ReleaseIsComplete, RetainingIsAllowed, OnlyLeasedIsHandled, ReleaseEntry, Turn, runVars, leaseVars, boxVars, mainVars
<1>20. ASSUME NEW s \in Sandboxes, ReleaseDestroyed(s) PROVE Held
  BY <1>0, <1>20, DestroyReturnsEffect DEF Idle, WaitIsOver, CallsAreOwned, UndisturbedCustody, TeardownIsAwaited, RunningIsHeld, RetentionIsLast, ReleaseIsComplete, RetainingIsAllowed, OnlyLeasedIsHandled, ReleaseDestroyed, runVars, leaseVars, boxVars, mainVars
<1>21. ASSUME NEW s \in Sandboxes, UndoEntry(s) PROVE Held
  BY <1>0, <1>21, StartDestroyEffect DEF Idle, WaitIsOver, CallsAreOwned, UndisturbedCustody, TeardownIsAwaited, RunningIsHeld, RetentionIsLast, ReleaseIsComplete, RetainingIsAllowed, OnlyLeasedIsHandled, UndoEntry, Turn, runVars, leaseVars, boxVars, mainVars
<1>22. ASSUME NEW s \in Sandboxes, UndoReturns(s) PROVE Held
  BY <1>0, <1>22, DestroyReturnsEffect, NoWaitEffect DEF Idle, WaitIsOver, CallsAreOwned, UndisturbedCustody, TeardownIsAwaited, RunningIsHeld, RetentionIsLast, ReleaseIsComplete, RetainingIsAllowed, OnlyLeasedIsHandled, UndoReturns, runVars, leaseVars, boxVars, mainVars
<1>23. ASSUME SignalInFinalize PROVE Held
  BY <1>0, <1>23, SignalInFinalizeEffect DEF SignalInFinalize, runVars, Idle, WaitIsOver, CallsAreOwned, UndisturbedCustody, TeardownIsAwaited, RunningIsHeld, RetentionIsLast, ReleaseIsComplete, RetainingIsAllowed, OnlyLeasedIsHandled
<1>24. ASSUME LoopCloses PROVE Held
  BY <1>0, <1>24, DestroyCancelledEffect DEF Idle, WaitIsOver, CallsAreOwned, UndisturbedCustody, TeardownIsAwaited, RunningIsHeld, RetentionIsLast, ReleaseIsComplete, RetainingIsAllowed, OnlyLeasedIsHandled, LoopCloses, runVars, leaseVars, boxVars, mainVars
<1>25. CASE UNCHANGED vars
  BY <1>0, <1>25 DEF vars, Idle, WaitIsOver, CallsAreOwned, UndisturbedCustody, TeardownIsAwaited, RunningIsHeld, RetentionIsLast, ReleaseIsComplete, RetainingIsAllowed, OnlyLeasedIsHandled, runVars, leaseVars, boxVars, mainVars
<1>26. QED
  BY <1>1, <1>2, <1>3, <1>4, <1>5, <1>6, <1>7, <1>8, <1>9, <1>10, <1>11, <1>12, <1>13, <1>14, <1>15, <1>16, <1>17, <1>18, <1>19, <1>20, <1>21, <1>22, <1>23, <1>24, <1>25 DEF Next, Protocol, Finalization

-----------------------------------------------------------------------------
(* The theorems. *)

(* An episode starts with no sandbox and no call.                            *)
LEMMA InitLeaseInvariant == Init => LeaseInvariant
<1> SUFFICES ASSUME Init PROVE LeaseInvariant
  OBVIOUS
<1>1. TypeOK
  BY InitTypeOK
<1>2. \A s \in Sandboxes : machine[s] = "none" /\ ~saved[s] /\ ~closing[s]
  BY DEF Init
<1>3. \A t \in Tasks : call[t].await = "none" /\ call[t].box = NoBox
  BY DEF Init, NoWait
<1>4. main = "protocol" /\ teardown = "idle" /\ live = {} /\ todo = {} /\ retained = {}
  BY DEF Init
<1>5. CallsAreOwned /\ RetentionIsLast /\ RetainingIsAllowed
  BY <1>2, <1>3, <1>4 DEF CallsAreOwned, RetentionIsLast, RetainingIsAllowed, Idle, Tasks
<1>6. RetainedIsSanitized /\ KeptIsLetGo /\ ReleaseIsComplete /\ OnlyLeasedIsHandled
  BY <1>2, <1>3, <1>4, LeaseAssumption
     DEF RetainedIsSanitized, KeptIsLetGo, ReleaseIsComplete, OnlyLeasedIsHandled
<1>7. UndisturbedCustody
  BY <1>2, <1>3, <1>4
     DEF UndisturbedCustody, TeardownIsAwaited, NothingIsLeftLive, RunningIsHeld
<1>8. QED BY <1>1, <1>5, <1>6, <1>7 DEF LeaseInvariant

(* The custody part, put together.                                           *)
LEMMA NextUndisturbedCustody ==
  ASSUME TypeOK, CallsAreOwned, RetentionIsLast, RetainingIsAllowed, ReleaseIsComplete,
         OnlyLeasedIsHandled, UndisturbedCustody, [Next]_vars
  PROVE  UndisturbedCustody'
<1> SUFFICES ASSUME disturbed' = {}
             PROVE  /\ TeardownIsAwaited' /\ NothingIsLeftLive'
                    /\ \A r \in Sandboxes : RunningIsHeld(r)'
  BY DEF UndisturbedCustody
<1>1. disturbed = {} /\ TeardownIsAwaited' /\ NothingIsLeftLive'
  BY NextTeardownIsAwaited
<1>2. TeardownIsAwaited /\ NothingIsLeftLive
  BY <1>1 DEF UndisturbedCustody
<1>3. QED BY <1>1, <1>2, NextRunningIsHeld

(* The invariant of the lease holds for every set of sandboxes, whatever is  *)
(* asked to be retained and whatever is cancelled or fails (_Lease,          *)
(* run_episode).                                                             *)
THEOREM LeaseInvariantHolds == Spec => []LeaseInvariant
<1>1. Init => LeaseInvariant
  BY InitLeaseInvariant
<1>2. LeaseInvariant /\ [Next]_vars => LeaseInvariant'
  BY NextTypeOK, NextCallsAreOwned, NextRetentionIsLast, NextRetainingIsAllowed,
     NextRetainedIsSanitized, NextKeptIsLetGo, NextReleaseIsComplete, NextOnlyLeasedIsHandled,
     NextUndisturbedCustody DEF LeaseInvariant
<1>3. QED BY <1>1, <1>2, PTL DEF Spec

(* Whatever outlives an episode was asked for and is clean: no path through  *)
(* finalize retains a sandbox whose sanitation failed or never ran.          *)
THEOREM RetainedIsSanitizedHolds == Spec => []RetainedIsSanitized
<1>1. LeaseInvariant => RetainedIsSanitized
  BY DEF LeaseInvariant
<1>2. QED BY <1>1, LeaseInvariantHolds, PTL

(* An episode that no cancellation disturbed leaves no sandbox behind that   *)
(* it was not asked to keep: release, finalize and release_all see to each.  *)
THEOREM UndisturbedReap == Spec => []UndisturbedEpisodesReap
<1>1. LeaseInvariant => UndisturbedEpisodesReap
  BY DEF LeaseInvariant, UndisturbedEpisodesReap, EveryLeasedSandboxIsReaped, Over,
         UndisturbedCustody, NothingIsLeftLive, RunningIsHeld
<1>2. QED BY <1>1, LeaseInvariantHolds, PTL

(* Once finalize has promised a sandbox to the user, only destroy_retained   *)
(* destroys it.                                                              *)
THEOREM KeptIsLeftAloneHolds == Spec => KeptIsLeftAlone
<1> DEFINE LeftAlone(s) == s \in retained /\ ~saved[s] /\ ~closing[s] /\ closing'[s]
                             => main = "undoing"
<1>1. ASSUME LeaseInvariant, [Next]_vars, NEW r \in Sandboxes PROVE LeftAlone(r)
  <2> SUFFICES ASSUME r \in retained, ~saved[r], ~closing[r], closing'[r], main # "undoing"
               PROVE  FALSE
    OBVIOUS
  <2>1. /\ TypeOK /\ KeptIsLetGo
        /\ r \notin live
        /\ main \in {"finalizing", "releasing"} => r \notin todo
        /\ call["main"].await \in {"retain", "snapshot"} => call["main"].box # r
        /\ "main" \in Tasks
    BY <1>1 DEF LeaseInvariant, KeptIsLetGo, Tasks
  <2>2. ASSUME NEW t \in Tasks, NEW s \in Sandboxes, Release(t, s) PROVE FALSE
    <3>1. PICK label : StartDestroy(t, s, label)
      BY <2>2 DEF Release
    <3>2. r = s
      BY <2>1, <3>1, StartDestroyEffect
    <3>3. QED BY <2>1, <2>2, <3>2 DEF Release
  <2>3. ASSUME NEW s \in Sandboxes, FinalizeEntry(s) PROVE FALSE
    BY <2>1, <2>3, StartDestroyEffect DEF FinalizeEntry, Turn
  <2>4. ASSUME NEW s \in Sandboxes, RetainReturns(s) PROVE FALSE
    BY <2>1, <2>4, StartDestroyEffect DEF RetainReturns
  <2>5. ASSUME NEW s \in Sandboxes, SnapshotReturns(s) PROVE FALSE
    BY <2>1, <2>5, StartDestroyEffect DEF SnapshotReturns
  <2>6. ASSUME NEW s \in Sandboxes, ReleaseEntry(s) PROVE FALSE
    BY <2>1, <2>6, StartDestroyEffect DEF ReleaseEntry, Turn
  <2>7. ASSUME NEW s \in Sandboxes, UndoEntry(s) \/ UndoReturns(s) PROVE FALSE
    BY <2>7 DEF UndoEntry, UndoReturns
  <2>8. closing' # closing
    OBVIOUS
  <2>9. QED
    BY <1>1, <2>2, <2>3, <2>4, <2>5, <2>6, <2>7, <2>8
       DEF Next, Protocol, Finalization, vars, boxVars, Acquire, DeadlineInRelease, MarkSanitized,
           Released, ProtocolFails, StartTeardown, TeardownEnds, SignalInProtocol, ProtocolEnds,
           FinalizeEnds, ReleaseEnds, Record, UndoEnds, FinalizeDestroyed, ReleaseDestroyed,
           SignalInFinalize, LoopCloses
<1>2. LeaseInvariant /\ [Next]_vars => [\A s \in Sandboxes : LeftAlone(s)]_vars
  BY <1>1
<1>3. QED BY <1>2, LeaseInvariantHolds, PTL DEF Spec, KeptIsLeftAlone

(* One outcome is recorded of a sandbox, and none is another.                *)
LEMMA OnesDiffer ==
  ASSUME NEW o \in Outcomes, NEW p \in Outcomes
  PROVE  OneOf(o) # NoOutcome /\ (OneOf(o) = OneOf(p) => o = p)
<1>1. OneOf(o)[o] = 1 /\ NoOutcome[o] = 0 /\ (p # o => OneOf(p)[o] = 0)
  BY DEF OneOf, NoOutcome
<1>2. QED BY <1>1

(* An outcome recorded of a sandbox that has none is the only one of it.     *)
LEMMA AddOutcomeEffect ==
  ASSUME TypeOK, NEW s \in Sandboxes, NEW label \in Outcomes \cup {"none"}, AddOutcome(s, label)
  PROVE  /\ \A q \in Sandboxes \ {s} : outcomes'[q] = outcomes[q]
         /\ label = "none" => outcomes'[s] = outcomes[s]
         /\ label # "none" /\ outcomes[s] = NoOutcome => outcomes'[s] = OneOf(label)
<1>1. outcomes \in [Sandboxes -> [Outcomes -> Nat]] /\ "none" \notin Outcomes
  BY DEF TypeOK, Outcomes
<1>2. CASE label = "none" BY <1>2 DEF AddOutcome
<1>3. CASE label # "none"
  <2>1. outcomes' = [outcomes EXCEPT ![s] = [outcomes[s] EXCEPT ![label] = @ + 1]]
    BY <1>1, <1>3 DEF AddOutcome
  <2>2. ASSUME outcomes[s] = NoOutcome
        PROVE  [outcomes[s] EXCEPT ![label] = @ + 1] = OneOf(label)
    <3>1. label \in Outcomes /\ NoOutcome[label] + 1 = 1 BY <1>3 DEF NoOutcome
    <3>2. QED BY <2>2, <3>1 DEF OneOf
  <2>3. QED BY <1>1, <1>3, <2>1, <2>2
<1>4. QED BY <1>2, <1>3

(* What is withdrawn of a sandbox that was retained leaves it without an     *)
(* outcome (destroy_retained).                                               *)
LEMMA WithdrawnEffect ==
  ASSUME TypeOK, NEW s \in Sandboxes, NEW o \in {"retained", "snapshotted"}, outcomes[s] = OneOf(o)
  PROVE  Withdrawn(s) = NoOutcome
BY DEF Withdrawn, OneOf, NoOutcome, Outcomes

(* What a destroy leaves of the other sandboxes and of the other task's wait  *)
(* (_start_destroy, _destroy_and_record).                                    *)
LEMMA StartDestroyLeaves ==
  ASSUME TypeOK, NEW t \in Tasks, NEW s \in Sandboxes, NEW label, StartDestroy(t, s, label)
  PROVE  /\ call'[t].label = label /\ call'[t].await = "destroy" /\ call'[t].box = s
         /\ \A r \in Sandboxes : closing'[r] = (closing[r] \/ r = s)
         /\ \A u \in Tasks \ {t} : call'[u] = call[u]
<1>1. call' = [call EXCEPT ![t] = [await |-> "destroy", box |-> s, label |-> label]]
  BY DEF StartDestroy
<1>2. QED BY <1>1, StartDestroyEffect DEF TypeOK

(* A destroy that comes back counts one outcome, for its own sandbox. *)
LEMMA DestroyReturnsLeaves ==
  ASSUME TypeOK, NEW t \in Tasks, NEW s \in Sandboxes, \E ok \in BOOLEAN : DestroyReturns(t, s, ok)
  PROVE  /\ live' = live \ {s} /\ machine'[s] \in {"gone", "stuck"} /\ WaitIsOver(t)
         /\ call[t].await = "destroy" /\ call[t].box = s /\ AddOutcome(s, call[t].label)
         /\ \A r \in Sandboxes \ {s} : machine'[r] = machine[r]
BY DestroyReturnsEffect DEF DestroyReturns

(* Every call of the lease records the outcome it was made with, once.       *)
LEMMA NextUndisturbedOutcomes ==
  ASSUME LeaseInvariant, UndisturbedOutcomes, [Next]_vars
  PROVE  UndisturbedOutcomes'
<1> SUFFICES ASSUME disturbed' = {}
             PROVE  /\ ListsAreLive' /\ \A t \in Tasks : DestroyIsOfLeased(t)'
                    /\ \A s \in Sandboxes : LiveRuns(s)' /\ OutcomeIsTold(s)'
  BY DEF UndisturbedOutcomes
<1> DEFINE Told == /\ ListsAreLive' /\ \A t \in Tasks : DestroyIsOfLeased(t)'
                   /\ \A s \in Sandboxes : LiveRuns(s)' /\ OutcomeIsTold(s)'
<1>l. /\ TypeOK /\ CallsAreOwned /\ RetentionIsLast /\ RetainingIsAllowed /\ ReleaseIsComplete
      /\ OnlyLeasedIsHandled /\ UndisturbedCustody /\ KeptIsLetGo
  BY DEF LeaseInvariant
<1>d. disturbed = {} /\ TeardownIsAwaited /\ NothingIsLeftLive
  BY <1>l, NextTeardownIsAwaited DEF UndisturbedCustody
<1>u. /\ ListsAreLive /\ \A t \in Tasks : DestroyIsOfLeased(t)
      /\ \A s \in Sandboxes : LiveRuns(s) /\ OutcomeIsTold(s)
  BY <1>d DEF UndisturbedOutcomes
<1>t. /\ "main" \in Tasks /\ "teardown" \in Tasks /\ \A u \in Tasks : u \in {"main", "teardown"}
      /\ call \in [Tasks -> Calls]
      /\ saved \in [Sandboxes -> BOOLEAN] /\ closing \in [Sandboxes -> BOOLEAN]
      /\ machine \in [Sandboxes -> {"none", "up", "stuck", "gone"}]
      /\ live \subseteq Sandboxes /\ todo \subseteq Sandboxes /\ retained \subseteq Sandboxes
      /\ NoBox \notin Sandboxes /\ {"retained", "snapshotted", "destroyed"} \subseteq Outcomes
  BY <1>l, LeaseAssumption DEF TypeOK, Tasks, Outcomes
<1> USE <1>l, <1>d, <1>u, <1>t
<1> USE DEF ListsAreLive, DestroyIsOfLeased, LiveRuns, OutcomeIsTold, Leased, Withdrawing, ToldOf, Kept,
            Idle, WaitIsOver, InProtocol, CallsAreOwned, ReleaseIsComplete, TeardownIsAwaited, NothingIsLeftLive,
            KeptIsLetGo, RetentionIsLast, RetainingIsAllowed, OnlyLeasedIsHandled
<1>1. ASSUME NEW t \in Tasks, NEW s \in Sandboxes, MarkSanitized(t, s) PROVE Told
  <2>1. UNCHANGED <<machine, live, retained, closing, saved, call, outcomes>>
    BY <1>1 DEF MarkSanitized, boxVars, leaseVars
  <2>2. ListsAreLive' BY <1>1, <2>1 DEF MarkSanitized, mainVars
  <2>3. \A t_1 \in Tasks : DestroyIsOfLeased(t_1)' BY <1>1, <2>1 DEF MarkSanitized, mainVars, leaseVars
  <2>4. ASSUME NEW r \in Sandboxes PROVE LiveRuns(r)'
    BY <1>1, <2>1 DEF MarkSanitized, mainVars, leaseVars
  <2>5. ASSUME NEW r \in Sandboxes PROVE OutcomeIsTold(r)'
    BY <1>1, <2>1 DEF MarkSanitized, mainVars, leaseVars
  <2>6. QED BY <2>2, <2>3, <2>4, <2>5
<1>2. ASSUME ProtocolFails PROVE Told
  <2>1. UNCHANGED <<machine, live, retained, closing, saved, call, outcomes>>
    BY <1>2 DEF ProtocolFails, boxVars, leaseVars
  <2>2. ListsAreLive' BY <1>2, <2>1 DEF ProtocolFails, mainVars
  <2>3. \A t_1 \in Tasks : DestroyIsOfLeased(t_1)' BY <1>2, <2>1 DEF ProtocolFails, mainVars, leaseVars
  <2>4. ASSUME NEW r \in Sandboxes PROVE LiveRuns(r)'
    BY <1>2, <2>1 DEF ProtocolFails, mainVars, leaseVars
  <2>5. ASSUME NEW r \in Sandboxes PROVE OutcomeIsTold(r)'
    BY <1>2, <2>1 DEF ProtocolFails, mainVars, leaseVars
  <2>6. QED BY <2>2, <2>3, <2>4, <2>5
<1>3. ASSUME StartTeardown PROVE Told
  <2>1. UNCHANGED <<machine, live, retained, closing, saved, call, outcomes>>
    BY <1>3 DEF StartTeardown, boxVars, leaseVars
  <2>2. ListsAreLive' BY <1>3, <2>1 DEF StartTeardown, mainVars
  <2>3. \A t_1 \in Tasks : DestroyIsOfLeased(t_1)' BY <1>3, <2>1 DEF StartTeardown, mainVars, leaseVars
  <2>4. ASSUME NEW r \in Sandboxes PROVE LiveRuns(r)'
    BY <1>3, <2>1 DEF StartTeardown, mainVars, leaseVars
  <2>5. ASSUME NEW r \in Sandboxes PROVE OutcomeIsTold(r)'
    BY <1>3, <2>1 DEF StartTeardown, mainVars, leaseVars
  <2>6. QED BY <2>2, <2>3, <2>4, <2>5
<1>4. ASSUME TeardownEnds PROVE Told
  <2>1. UNCHANGED <<machine, live, retained, closing, saved, call, outcomes>>
    BY <1>4 DEF TeardownEnds, boxVars, leaseVars
  <2>2. ListsAreLive' BY <1>4, <2>1 DEF TeardownEnds, mainVars
  <2>3. \A t_1 \in Tasks : DestroyIsOfLeased(t_1)' BY <1>4, <2>1 DEF TeardownEnds, mainVars, leaseVars
  <2>4. ASSUME NEW r \in Sandboxes PROVE LiveRuns(r)'
    BY <1>4, <2>1 DEF TeardownEnds, mainVars, leaseVars
  <2>5. ASSUME NEW r \in Sandboxes PROVE OutcomeIsTold(r)'
    BY <1>4, <2>1 DEF TeardownEnds, mainVars, leaseVars
  <2>6. QED BY <2>2, <2>3, <2>4, <2>5
<1>5. ASSUME ProtocolEnds PROVE Told
  <2>1. UNCHANGED <<machine, live, retained, closing, saved, call, outcomes>>
    BY <1>5 DEF ProtocolEnds, boxVars, leaseVars
  <2>2. ListsAreLive' BY <1>5, <2>1 DEF ProtocolEnds, mainVars
  <2>3. \A t_1 \in Tasks : DestroyIsOfLeased(t_1)' BY <1>5, <2>1 DEF ProtocolEnds, mainVars, leaseVars
  <2>4. ASSUME NEW r \in Sandboxes PROVE LiveRuns(r)'
    BY <1>5, <2>1 DEF ProtocolEnds, mainVars, leaseVars
  <2>5. ASSUME NEW r \in Sandboxes PROVE OutcomeIsTold(r)'
    BY <1>5, <2>1 DEF ProtocolEnds, mainVars, leaseVars
  <2>6. QED BY <2>2, <2>3, <2>4, <2>5
<1>6. ASSUME FinalizeEnds PROVE Told
  <2>1. UNCHANGED <<machine, live, retained, closing, saved, call, outcomes>>
    BY <1>6 DEF FinalizeEnds, boxVars, leaseVars
  <2>2. ListsAreLive' BY <1>6, <2>1 DEF FinalizeEnds, mainVars
  <2>3. \A t_1 \in Tasks : DestroyIsOfLeased(t_1)' BY <1>6, <2>1 DEF FinalizeEnds, mainVars, leaseVars
  <2>4. ASSUME NEW r \in Sandboxes PROVE LiveRuns(r)'
    BY <1>6, <2>1 DEF FinalizeEnds, mainVars, leaseVars
  <2>5. ASSUME NEW r \in Sandboxes PROVE OutcomeIsTold(r)'
    BY <1>6, <2>1 DEF FinalizeEnds, mainVars, leaseVars
  <2>6. QED BY <2>2, <2>3, <2>4, <2>5
<1>7. ASSUME ReleaseEnds PROVE Told
  <2>1. UNCHANGED <<machine, live, retained, closing, saved, call, outcomes>>
    BY <1>7 DEF ReleaseEnds, boxVars, leaseVars
  <2>2. ListsAreLive' BY <1>7, <2>1 DEF ReleaseEnds, mainVars
  <2>3. \A t_1 \in Tasks : DestroyIsOfLeased(t_1)' BY <1>7, <2>1 DEF ReleaseEnds, mainVars, leaseVars
  <2>4. ASSUME NEW r \in Sandboxes PROVE LiveRuns(r)'
    BY <1>7, <2>1 DEF ReleaseEnds, mainVars, leaseVars
  <2>5. ASSUME NEW r \in Sandboxes PROVE OutcomeIsTold(r)'
    BY <1>7, <2>1 DEF ReleaseEnds, mainVars, leaseVars
  <2>6. QED BY <2>2, <2>3, <2>4, <2>5
<1>8. ASSUME Record PROVE Told
  <2>1. UNCHANGED <<machine, live, retained, closing, saved, call, outcomes>>
    BY <1>8 DEF Record, boxVars, leaseVars
  <2>2. ListsAreLive' BY <1>8, <2>1 DEF Record, mainVars
  <2>3. \A t_1 \in Tasks : DestroyIsOfLeased(t_1)' BY <1>8, <2>1 DEF Record, mainVars, leaseVars
  <2>4. ASSUME NEW r \in Sandboxes PROVE LiveRuns(r)'
    BY <1>8, <2>1 DEF Record, mainVars, leaseVars
  <2>5. ASSUME NEW r \in Sandboxes PROVE OutcomeIsTold(r)'
    BY <1>8, <2>1 DEF Record, mainVars, leaseVars
  <2>6. QED BY <2>2, <2>3, <2>4, <2>5
<1>9. ASSUME UndoEnds PROVE Told
  <2>1. UNCHANGED <<machine, live, closing, saved, call, outcomes>>
    BY <1>9 DEF UndoEnds, boxVars, leaseVars
  <2>2. ListsAreLive' BY <1>9, <2>1 DEF UndoEnds, mainVars
  <2>3. \A t_1 \in Tasks : DestroyIsOfLeased(t_1)' BY <1>9, <2>1 DEF UndoEnds, mainVars, leaseVars
  <2>4. ASSUME NEW r \in Sandboxes PROVE LiveRuns(r)'
    BY <1>9, <2>1 DEF UndoEnds, mainVars, leaseVars
  <2>5. ASSUME NEW r \in Sandboxes PROVE OutcomeIsTold(r)'
    BY <1>9, <2>1 DEF UndoEnds, mainVars, leaseVars
  <2>6. QED BY <2>2, <2>3, <2>4, <2>5
<1>10. ASSUME NEW s \in Sandboxes, DeadlineInRelease(s) PROVE Told
  BY <1>10, SMT DEF DeadlineInRelease
<1>11. ASSUME SignalInProtocol PROVE Told
  BY <1>11, SMT DEF SignalInProtocol
<1>12. ASSUME SignalInFinalize PROVE Told
  BY <1>12, SMT DEF SignalInFinalize
<1>13. ASSUME LoopCloses PROVE Told
  BY <1>13 DEF LoopCloses
<1>14. ASSUME UNCHANGED vars PROVE Told
  BY <1>14 DEF vars, runVars, leaseVars, boxVars, mainVars
<1>15. ASSUME NEW s \in Sandboxes, Acquire(s) PROVE Told
  <2>1. /\ machine[s] = "none" /\ main = "protocol" /\ Idle("main")
        /\ live' = live \cup {s} /\ machine' = [machine EXCEPT ![s] = "up"]
        /\ UNCHANGED <<retained, outcomes, closing, saved, call, main, todo>>
    BY <1>15 DEF Acquire, mainVars
  <2>2. ListsAreLive' BY <2>1
  <2>3. ASSUME NEW u \in Tasks PROVE DestroyIsOfLeased(u)' BY <2>1
  <2>4. ASSUME NEW r \in Sandboxes PROVE LiveRuns(r)' BY <2>1
  <2>5. ASSUME NEW r \in Sandboxes PROVE OutcomeIsTold(r)' BY <2>1
  <2>6. QED BY <2>2, <2>3, <2>4, <2>5
<1>16. ASSUME NEW t \in Tasks, NEW s \in Sandboxes, Release(t, s) PROVE Told
  <2>1. /\ main \in {"protocol", "awaiting_teardown"} /\ Idle(t) /\ s \in live
        /\ t = "main" => main = "protocol"
        /\ t = "teardown" => main = "awaiting_teardown"
        /\ UNCHANGED <<retained, machine, saved, main, todo>>
    BY <1>16 DEF Release, mainVars
  <2>2. s \notin retained BY <2>1
  <2>3. \A u \in Tasks : Idle(u) BY <2>1
  <2>4. ~closing[s] BY <2>1, <2>3
  <2>5. StartDestroy(t, s, ReleaseLabel(s)) /\ UNCHANGED <<live, outcomes>>
    BY <1>16, <2>4 DEF Release, AlreadyDestroyed
  <2>6. /\ call'[t].label = ReleaseLabel(s) /\ call'[t].await = "destroy" /\ call'[t].box = s
        /\ \A r \in Sandboxes : closing'[r] = (closing[r] \/ r = s)
        /\ \A u \in Tasks \ {t} : call'[u] = call[u]
    BY <2>5, StartDestroyLeaves
  <2>7. ReleaseLabel(s) \in {"destroyed", "retention-failed"} BY DEF ReleaseLabel
  <2>8. ListsAreLive' BY <2>1, <2>2, <2>3, <2>4, <2>5, <2>6, <2>7
  <2>9. ASSUME NEW u \in Tasks PROVE DestroyIsOfLeased(u)'
    BY <2>1, <2>2, <2>3, <2>4, <2>5, <2>6, <2>7
  <2>10. ASSUME NEW r \in Sandboxes PROVE LiveRuns(r)'
    BY <2>1, <2>2, <2>3, <2>4, <2>5, <2>6, <2>7
  <2>11. ASSUME NEW r \in Sandboxes PROVE OutcomeIsTold(r)'
    BY <2>1, <2>2, <2>3, <2>4, <2>5, <2>6, <2>7
  <2>12. QED BY <2>8, <2>9, <2>10, <2>11
<1>17. ASSUME NEW t \in Tasks, NEW s \in Sandboxes, Released(t, s) PROVE Told
  <2>1. /\ main \in {"protocol", "awaiting_teardown"} /\ main' = main /\ todo' = todo
        /\ UNCHANGED <<retained, saved, closing>>
        /\ \E ok \in BOOLEAN : DestroyReturns(t, s, ok)
    BY <1>17 DEF Released, mainVars, DestroyReturns
  <2>2. /\ live' = live \ {s} /\ machine'[s] \in {"gone", "stuck"} /\ WaitIsOver(t)
        /\ call[t].await = "destroy" /\ call[t].box = s /\ AddOutcome(s, call[t].label)
        /\ \A r \in Sandboxes \ {s} : machine'[r] = machine[r]
    BY <2>1, DestroyReturnsLeaves
  <2>3. call[t].label \in Outcomes \cup {"none"} BY DEF Calls
  <2>4. /\ \A q \in Sandboxes \ {s} : outcomes'[q] = outcomes[q]
        /\ call[t].label = "none" => outcomes'[s] = outcomes[s]
        /\ call[t].label # "none" /\ outcomes[s] = NoOutcome => outcomes'[s] = OneOf(call[t].label)
    BY <2>2, <2>3, AddOutcomeEffect
  <2>5. \A u \in Tasks : u # t => Idle(u)
    BY <2>1, <2>2
  <2>6. ListsAreLive' BY <2>1, <2>2, <2>3, <2>4, <2>5
  <2>7. ASSUME NEW u \in Tasks PROVE DestroyIsOfLeased(u)' BY <2>1, <2>2, <2>3, <2>4, <2>5
  <2>8. ASSUME NEW r \in Sandboxes PROVE LiveRuns(r)' BY <2>1, <2>2, <2>3, <2>4, <2>5
  <2>9. ASSUME NEW r \in Sandboxes PROVE OutcomeIsTold(r)' BY <2>1, <2>2, <2>3, <2>4, <2>5
  <2>10. QED BY <2>6, <2>7, <2>8, <2>9
<1>18. ASSUME NEW s \in Sandboxes, FinalizeEntry(s) PROVE Told
  <2>1. /\ main = "finalizing" /\ Idle("main") /\ s \in todo /\ main' = main
        /\ UNCHANGED <<retained, saved, machine>>
    BY <1>18 DEF FinalizeEntry, Turn
  <2>2. /\ Idle("teardown") /\ teardown # "running"
    BY <2>1
  <2>3. s \in live /\ s \notin retained /\ ~closing[s]
    BY <2>1, <2>2
  <2>4. \/ StartDestroy("main", s, DoomLabel(s)) /\ UNCHANGED <<live, outcomes, todo>>
        \/ /\ call' = [call EXCEPT !["main"] = [await |-> IF requested[s] = "snapshot" THEN "snapshot" ELSE "retain",
                       box |-> s, label |-> "none"]]
           /\ UNCHANGED <<live, outcomes, closing, todo>>
    BY <1>18, <2>3 DEF FinalizeEntry, AlreadyDestroyed
  <2>5. UNCHANGED <<live, outcomes, todo>> BY <2>4
  <2>6. /\ call'["main"].await # "none" /\ call'["main"].box = s /\ call'["teardown"] = call["teardown"]
        /\ call'["main"].await = "destroy" => call'["main"].label \in {"destroyed", "retention-failed"}
        /\ \A r \in Sandboxes : closing'[r] = closing[r] \/ (r = s /\ closing'[r] /\ call'["main"].await = "destroy")
    BY <2>4, StartDestroyEffect DEF StartDestroy, DoomLabel
  <2>7. ListsAreLive' BY <2>1, <2>2, <2>3, <2>4, <2>5, <2>6
  <2>8. ASSUME NEW u \in Tasks PROVE DestroyIsOfLeased(u)' BY <2>1, <2>2, <2>3, <2>4, <2>5, <2>6
  <2>9. ASSUME NEW r \in Sandboxes PROVE LiveRuns(r)' BY <2>1, <2>2, <2>3, <2>4, <2>5, <2>6
  <2>10. ASSUME NEW r \in Sandboxes PROVE OutcomeIsTold(r)'
    BY <2>1, <2>2, <2>3, <2>4, <2>5, <2>6
  <2>11. QED BY <2>7, <2>8, <2>9, <2>10
<1>19. ASSUME NEW s \in Sandboxes, RetainReturns(s) PROVE Told
  <2>1. /\ main = "finalizing" /\ call["main"].await = "retain" /\ call["main"].box = s /\ main' = main
        /\ UNCHANGED <<saved, machine>>
    BY <1>19 DEF RetainReturns
  <2>2. /\ Idle("teardown") /\ teardown # "running"
    BY <2>1
  <2>3. s \in todo /\ s \in live /\ s \notin retained /\ ~closing[s] /\ ~saved[s]
    BY <2>1, <2>2
  <2>4. \/ /\ outcomes'[s] = OneOf("retained") /\ \A r \in Sandboxes \ {s} : outcomes'[r] = outcomes[r]
           /\ retained' = retained \cup {s} /\ live' = live \ {s} /\ todo' = todo \ {s}
           /\ WaitIsOver("main") /\ UNCHANGED closing
        \/ /\ call'["main"].label = "retention-failed" /\ call'["main"].await = "destroy"
           /\ call'["main"].box = s /\ call'["teardown"] = call["teardown"]
           /\ \A r \in Sandboxes : closing'[r] = (closing[r] \/ r = s)
           /\ UNCHANGED <<live, retained, outcomes, todo>>
    <3>1. CASE /\ AddOutcome(s, "retained")
               /\ retained' = retained \cup {s} /\ live' = live \ {s} /\ todo' = todo \ {s}
               /\ call' = [call EXCEPT !["main"] = NoWait] /\ UNCHANGED closing
      <4>1. WaitIsOver("main") BY <3>1, NoWaitEffect
      <4>2. outcomes[s] = NoOutcome BY <2>3
      <4>3. outcomes \in [Sandboxes -> [Outcomes -> Nat]] /\ "retained" \in Outcomes
        BY DEF TypeOK, Outcomes
      <4>4. outcomes' = [outcomes EXCEPT ![s] = OneOf("retained")]
        BY <3>1, <4>2, <4>3 DEF AddOutcome, OneOf, NoOutcome
      <4>5. QED BY <3>1, <4>1, <4>3, <4>4
    <3>2. CASE /\ StartDestroy("main", s, "retention-failed")
               /\ UNCHANGED <<live, retained, outcomes, todo>>
      BY <3>2, StartDestroyLeaves
    <3>3. QED BY <1>19, <3>1, <3>2 DEF RetainReturns
  <2>5. ListsAreLive' BY <2>1, <2>2, <2>3, <2>4
  <2>6. ASSUME NEW u \in Tasks PROVE DestroyIsOfLeased(u)' BY <2>1, <2>2, <2>3, <2>4
  <2>7. ASSUME NEW r \in Sandboxes PROVE LiveRuns(r)' BY <2>1, <2>2, <2>3, <2>4
  <2>8. ASSUME NEW r \in Sandboxes PROVE OutcomeIsTold(r)' BY <2>1, <2>2, <2>3, <2>4
  <2>9. QED BY <2>5, <2>6, <2>7, <2>8
<1>20. ASSUME NEW s \in Sandboxes, SnapshotReturns(s) PROVE Told
  <2>1. /\ main = "finalizing" /\ call["main"].await = "snapshot" /\ call["main"].box = s /\ main' = main
        /\ UNCHANGED <<live, machine, todo>>
    BY <1>20 DEF SnapshotReturns, mainVars
  <2>2. /\ Idle("teardown") /\ teardown # "running"
    BY <2>1
  <2>3. s \in todo /\ s \in live /\ s \notin retained /\ ~closing[s] /\ outcomes[s] = NoOutcome
    BY <2>1, <2>2
  <2>4. /\ call'["main"].await = "destroy" /\ call'["main"].box = s /\ call'["teardown"] = call["teardown"]
        /\ \A r \in Sandboxes : closing'[r] = (closing[r] \/ r = s)
    BY <1>20, StartDestroyEffect DEF SnapshotReturns
  <2>5. \/ /\ saved'[s] /\ retained' = retained \cup {s} /\ call'["main"].label = "none"
           /\ outcomes'[s] = OneOf("snapshotted")
        \/ /\ saved' = saved /\ retained' = retained /\ call'["main"].label = "retention-failed"
           /\ outcomes'[s] = outcomes[s]
    <3>1. CASE /\ saved' = [saved EXCEPT ![s] = TRUE] /\ AddOutcome(s, "snapshotted")
               /\ retained' = retained \cup {s} /\ StartDestroy("main", s, "none")
      <4>1. "snapshotted" \in Outcomes BY DEF Outcomes
      <4>2. QED BY <3>1, <4>1, <2>3, AddOutcomeEffect DEF StartDestroy
    <3>2. CASE StartDestroy("main", s, "retention-failed") /\ UNCHANGED <<saved, outcomes, retained>>
      BY <3>2 DEF StartDestroy
    <3>3. QED BY <1>20, <3>1, <3>2 DEF SnapshotReturns
  <2>6. \A r \in Sandboxes \ {s} : saved'[r] = saved[r] /\ outcomes'[r] = outcomes[r]
    <3>1. CASE saved' = [saved EXCEPT ![s] = TRUE] /\ AddOutcome(s, "snapshotted")
      <4>1. "snapshotted" \in Outcomes BY DEF Outcomes
      <4>2. QED BY <3>1, <4>1, AddOutcomeEffect
    <3>2. QED BY <1>20, <3>1 DEF SnapshotReturns
  <2>7. ListsAreLive' BY <2>1, <2>2, <2>3, <2>4, <2>5, <2>6
  <2>8. ASSUME NEW u \in Tasks PROVE DestroyIsOfLeased(u)' BY <2>1, <2>2, <2>3, <2>4, <2>5, <2>6
  <2>9. ASSUME NEW r \in Sandboxes PROVE LiveRuns(r)'
    <3>1. CASE r = s BY <3>1, <2>1, <2>3, <2>4
    <3>2. CASE r # s
      <4>1. r \in retained' => r \in retained BY <3>2, <2>5
      <4>2. r \in live => r \notin retained /\ ~closing[r]
        BY <3>2, <2>1, <2>2
      <4>3. QED BY <3>2, <4>1, <4>2, <2>1, <2>4
    <3>3. QED BY <3>1, <3>2
  <2>10. ASSUME NEW r \in Sandboxes PROVE OutcomeIsTold(r)'
    BY <2>1, <2>2, <2>3, <2>4, <2>5, <2>6
  <2>11. QED BY <2>7, <2>8, <2>9, <2>10
<1>21. ASSUME NEW s \in Sandboxes, FinalizeDestroyed(s) PROVE Told
  <2>1. /\ main = "finalizing" /\ UNCHANGED <<retained, closing, saved>>
        /\ \E ok \in BOOLEAN : DestroyReturns("main", s, ok)
        /\ \/ todo' = todo \ {s} /\ main' = main
           \/ todo' = live' /\ main' = "releasing"
    BY <1>21 DEF FinalizeDestroyed
  <2>2. /\ Idle("teardown") /\ teardown # "running"
    BY <2>1
  <2>3. /\ live' = live \ {s} /\ machine'[s] \in {"gone", "stuck"} /\ WaitIsOver("main")
        /\ call["main"].await = "destroy" /\ call["main"].box = s /\ AddOutcome(s, call["main"].label)
        /\ \A r \in Sandboxes \ {s} : machine'[r] = machine[r]
    BY <2>1, DestroyReturnsLeaves
  <2>4. call["main"].label \in Outcomes \cup {"none"} BY DEF Calls
  <2>5. /\ \A q \in Sandboxes \ {s} : outcomes'[q] = outcomes[q]
        /\ call["main"].label = "none" => outcomes'[s] = outcomes[s]
        /\ call["main"].label # "none" /\ outcomes[s] = NoOutcome => outcomes'[s] = OneOf(call["main"].label)
    BY <2>3, <2>4, AddOutcomeEffect
  <2>6. ListsAreLive' BY <2>1, <2>2, <2>3, <2>4, <2>5
  <2>7. ASSUME NEW u \in Tasks PROVE DestroyIsOfLeased(u)' BY <2>1, <2>2, <2>3, <2>4, <2>5
  <2>8. ASSUME NEW r \in Sandboxes PROVE LiveRuns(r)' BY <2>1, <2>2, <2>3, <2>4, <2>5
  <2>9. ASSUME NEW r \in Sandboxes PROVE OutcomeIsTold(r)' BY <2>1, <2>2, <2>3, <2>4, <2>5
  <2>10. QED BY <2>6, <2>7, <2>8, <2>9
<1>22. ASSUME NEW s \in Sandboxes, ReleaseEntry(s) PROVE Told
  <2>1. /\ main = "releasing" /\ Idle("main") /\ s \in todo /\ main' = main
        /\ UNCHANGED <<retained, saved, machine>>
    BY <1>22 DEF ReleaseEntry, Turn
  <2>2. /\ Idle("teardown") /\ teardown # "running"
    BY <2>1
  <2>3. s \in live /\ s \notin retained /\ ~closing[s]
    BY <2>1, <2>2
  <2>4. StartDestroy("main", s, "destroyed") /\ UNCHANGED <<live, outcomes, todo>>
    BY <1>22, <2>3 DEF ReleaseEntry, AlreadyDestroyed
  <2>5. /\ call'["main"].label = "destroyed" /\ call'["main"].await = "destroy" /\ call'["main"].box = s
        /\ \A r \in Sandboxes : closing'[r] = (closing[r] \/ r = s)
        /\ \A u \in Tasks \ {"main"} : call'[u] = call[u]
    BY <2>4, StartDestroyLeaves
  <2>6. ListsAreLive' BY <2>1, <2>2, <2>3, <2>4, <2>5
  <2>7. ASSUME NEW u \in Tasks PROVE DestroyIsOfLeased(u)' BY <2>1, <2>2, <2>3, <2>4, <2>5
  <2>8. ASSUME NEW r \in Sandboxes PROVE LiveRuns(r)' BY <2>1, <2>2, <2>3, <2>4, <2>5
  <2>9. ASSUME NEW r \in Sandboxes PROVE OutcomeIsTold(r)' BY <2>1, <2>2, <2>3, <2>4, <2>5
  <2>10. QED BY <2>6, <2>7, <2>8, <2>9
<1>23. ASSUME NEW s \in Sandboxes, ReleaseDestroyed(s) PROVE Told
  <2>1. /\ main = "releasing" /\ UNCHANGED <<retained, closing, saved, main>> /\ todo' = todo \ {s}
        /\ \E ok \in BOOLEAN : DestroyReturns("main", s, ok)
    BY <1>23 DEF ReleaseDestroyed
  <2>2. /\ Idle("teardown") /\ teardown # "running"
    BY <2>1
  <2>3. /\ live' = live \ {s} /\ machine'[s] \in {"gone", "stuck"} /\ WaitIsOver("main")
        /\ call["main"].await = "destroy" /\ call["main"].box = s /\ AddOutcome(s, call["main"].label)
        /\ \A r \in Sandboxes \ {s} : machine'[r] = machine[r]
    BY <2>1, DestroyReturnsLeaves
  <2>4. call["main"].label \in Outcomes \cup {"none"} BY DEF Calls
  <2>5. /\ \A q \in Sandboxes \ {s} : outcomes'[q] = outcomes[q]
        /\ call["main"].label = "none" => outcomes'[s] = outcomes[s]
        /\ call["main"].label # "none" /\ outcomes[s] = NoOutcome => outcomes'[s] = OneOf(call["main"].label)
    BY <2>3, <2>4, AddOutcomeEffect
  <2>6. ListsAreLive' BY <2>1, <2>2, <2>3, <2>4, <2>5
  <2>7. ASSUME NEW u \in Tasks PROVE DestroyIsOfLeased(u)' BY <2>1, <2>2, <2>3, <2>4, <2>5
  <2>8. ASSUME NEW r \in Sandboxes PROVE LiveRuns(r)' BY <2>1, <2>2, <2>3, <2>4, <2>5
  <2>9. ASSUME NEW r \in Sandboxes PROVE OutcomeIsTold(r)' BY <2>1, <2>2, <2>3, <2>4, <2>5
  <2>10. QED BY <2>6, <2>7, <2>8, <2>9
<1>24. ASSUME NEW s \in Sandboxes, UndoEntry(s) PROVE Told
  <2>1. /\ main = "undoing" /\ Idle("main") /\ s \in todo /\ main' = main /\ live = {}
        /\ UNCHANGED <<retained, saved, machine, live, todo>>
    BY <1>24 DEF UndoEntry, Turn, mainVars
  <2>2. /\ Idle("teardown") /\ teardown # "running"
    BY <2>1
  <2>3. \E o \in {"retained", "snapshotted"} : ToldOf(s, o)
    BY <2>1
  <2>4. Leased(s) /\ Withdrawn(s) = NoOutcome
    BY <2>1, <2>3, WithdrawnEffect
  <2>5. outcomes' = [outcomes EXCEPT ![s] = NoOutcome] BY <1>24, <2>4 DEF UndoEntry
  <2>6. outcomes \in [Sandboxes -> [Outcomes -> Nat]] BY DEF TypeOK
  <2>7. /\ call'["main"].label = "destroyed" /\ call'["main"].box = s /\ call'["main"].await # "none"
        /\ call'["main"].await = "unsave" => machine[s] \in {"gone", "stuck"}
        /\ \A r \in Sandboxes \ {s} : closing'[r] = closing[r]
        /\ \A u \in Tasks \ {"main"} : call'[u] = call[u]
    <3>1. CASE ~saved[s] /\ StartDestroy("main", s, "destroyed")
      BY <3>1, StartDestroyLeaves
    <3>2. CASE /\ saved[s] /\ UNCHANGED closing
               /\ call' = [call EXCEPT !["main"] = [await |-> "unsave", box |-> s, label |-> "destroyed"]]
      BY <3>2, <2>3
    <3>3. QED BY <1>24, <3>1, <3>2 DEF UndoEntry
  <2>8. ListsAreLive' BY <2>1, <2>2, <2>3, <2>4, <2>5, <2>6, <2>7
  <2>9. ASSUME NEW u \in Tasks PROVE DestroyIsOfLeased(u)'
    BY <2>1, <2>2, <2>3, <2>4, <2>5, <2>6, <2>7
  <2>10. ASSUME NEW r \in Sandboxes PROVE LiveRuns(r)'
    BY <2>1, <2>2, <2>3, <2>4, <2>5, <2>6, <2>7
  <2>11. ASSUME NEW r \in Sandboxes PROVE OutcomeIsTold(r)'
    BY <2>1, <2>2, <2>3, <2>4, <2>5, <2>6, <2>7
  <2>12. QED BY <2>8, <2>9, <2>10, <2>11
<1>25. ASSUME NEW s \in Sandboxes, UndoReturns(s) PROVE Told
  <2>1. /\ main = "undoing" /\ main' = main /\ todo' = todo \ {s} /\ UNCHANGED <<retained, closing>>
        /\ call["main"].box = s /\ call["main"].await # "none" /\ live = {}
    BY <1>25 DEF UndoReturns, DestroyReturns
  <2>2. /\ Idle("teardown") /\ teardown # "running"
    BY <2>1
  <2>3. /\ outcomes[s] = NoOutcome /\ call["main"].label = "destroyed"
        /\ call["main"].await = "unsave" => machine[s] \in {"gone", "stuck"}
    BY <2>1
  <2>4. /\ WaitIsOver("main") /\ AddOutcome(s, "destroyed") /\ machine'[s] \in {"gone", "stuck"} /\ live' = {}
        /\ \A r \in Sandboxes \ {s} : machine'[r] = machine[r] /\ saved'[r] = saved[r]
    <3>1. ASSUME NEW ok \in BOOLEAN, DestroyReturns("main", s, ok), UNCHANGED saved
          PROVE  /\ WaitIsOver("main") /\ AddOutcome(s, "destroyed") /\ live' = {}
                 /\ machine'[s] \in {"gone", "stuck"}
                 /\ \A r \in Sandboxes \ {s} : machine'[r] = machine[r] /\ saved'[r] = saved[r]
      <4>1. AddOutcome(s, "destroyed") BY <3>1, <2>3 DEF DestroyReturns
      <4>2. QED BY <3>1, <4>1, <2>1, DestroyReturnsEffect
    <3>2. CASE \E ok \in BOOLEAN :
                 /\ call["main"].await = "unsave" /\ call["main"].box = s
                 /\ saved' = IF ok THEN [saved EXCEPT ![s] = FALSE] ELSE saved
                 /\ AddOutcome(s, "destroyed")
                 /\ call' = [call EXCEPT !["main"] = NoWait]
                 /\ UNCHANGED <<machine, live>>
      <4>1. WaitIsOver("main") BY <3>2, NoWaitEffect
      <4>2. machine[s] \in {"gone", "stuck"} BY <3>2, <2>3
      <4>3. QED BY <3>2, <4>1, <4>2, <2>1
    <3>3. QED BY <1>25, <3>1, <3>2 DEF UndoReturns
  <2>5. outcomes'[s] = OneOf("destroyed") /\ \A r \in Sandboxes \ {s} : outcomes'[r] = outcomes[r]
    BY <2>3, <2>4, AddOutcomeEffect
  <2>6. ListsAreLive' BY <2>1, <2>2, <2>3, <2>4, <2>5
  <2>7. ASSUME NEW u \in Tasks PROVE DestroyIsOfLeased(u)' BY <2>1, <2>2, <2>3, <2>4, <2>5
  <2>8. ASSUME NEW r \in Sandboxes PROVE LiveRuns(r)' BY <2>1, <2>2, <2>3, <2>4, <2>5
  <2>9. ASSUME NEW r \in Sandboxes PROVE OutcomeIsTold(r)' BY <2>1, <2>2, <2>3, <2>4, <2>5
  <2>10. QED BY <2>6, <2>7, <2>8, <2>9
<1>26. QED
  BY <1>1, <1>2, <1>3, <1>4, <1>5, <1>6, <1>7, <1>8, <1>9, <1>10, <1>11, <1>12, <1>13,
     <1>14, <1>15, <1>16, <1>17, <1>18, <1>19, <1>20, <1>21, <1>22, <1>23, <1>24, <1>25
     DEF Next, Protocol, Finalization

(* Before the first lease nothing is told.                                   *)
LEMMA InitUndisturbedOutcomes == Init => UndisturbedOutcomes
<1> SUFFICES ASSUME Init PROVE UndisturbedOutcomes
  OBVIOUS
<1>1. /\ live = {} /\ retained = {} /\ main = "protocol"
      /\ \A t \in Tasks : call[t].await = "none" /\ call[t].box = NoBox
      /\ \A s \in Sandboxes : outcomes[s] = NoOutcome
  BY DEF Init, NoWait
<1>2. ListsAreLive /\ \A t \in Tasks : DestroyIsOfLeased(t)
  BY <1>1 DEF ListsAreLive, DestroyIsOfLeased
<1>3. \A s \in Sandboxes : LiveRuns(s) /\ OutcomeIsTold(s)
  <2> SUFFICES ASSUME NEW s \in Sandboxes PROVE LiveRuns(s) /\ OutcomeIsTold(s)
    OBVIOUS
  <2>1. machine[s] = "none" BY DEF Init
  <2>2. QED BY <1>1, <2>1 DEF LiveRuns, OutcomeIsTold, Leased, Withdrawing
<1>4. QED BY <1>2, <1>3 DEF UndisturbedOutcomes

(* What the result will say is settled call by call: while no cancellation   *)
(* disturbs the episode, a sandbox has the one outcome of what was done to   *)
(* it, and none before (release, finalize, release_all, destroy_retained).   *)
THEOREM UndisturbedOutcomesHold == Spec => []UndisturbedOutcomes
<1>1. Init => UndisturbedOutcomes
  BY InitUndisturbedOutcomes
<1>2. LeaseInvariant /\ UndisturbedOutcomes /\ [Next]_vars => UndisturbedOutcomes'
  BY NextUndisturbedOutcomes
<1>3. QED BY <1>1, <1>2, LeaseInvariantHolds, PTL DEF Spec

(* The result of an undisturbed episode names each leased sandbox once, with *)
(* what became of it (finalize, destroy_retained, release_all).              *)
THEOREM OutcomesAreTrueHolds == Spec => []OutcomesAreTrue
<1>1. LeaseInvariant /\ UndisturbedOutcomes => OutcomesAreTrue
  <2> SUFFICES ASSUME LeaseInvariant, UndisturbedOutcomes, Over, disturbed = {}, NEW s \in Sandboxes
               PROVE  IF ~Leased(s) THEN outcomes[s] = NoOutcome
                      ELSE \E o \in Outcomes :
                             /\ outcomes[s] = [NoOutcome EXCEPT ![o] = 1]
                             /\ CASE o = "retained"    -> machine[s] = "up" /\ ~closing[s]
                                  [] o = "snapshotted" -> saved[s]
                                  [] OTHER             -> machine[s] \in {"gone", "stuck"}
    BY DEF OutcomesAreTrue
  <2>1. OutcomeIsTold(s) /\ live = {} /\ main = "exited"
    BY DEF UndisturbedOutcomes, Over, LeaseInvariant, UndisturbedCustody, NothingIsLeftLive
  <2>2. CASE ~Leased(s)
    BY <2>1, <2>2 DEF OutcomeIsTold
  <2>3. CASE Leased(s)
    <3>1. PICK o \in Outcomes : ToldOf(s, o)
      BY <2>1, <2>3 DEF OutcomeIsTold, Withdrawing
    <3>2. outcomes[s] = [NoOutcome EXCEPT ![o] = 1]
      BY <3>1 DEF ToldOf, OneOf
    <3>3. /\ o = "retained" => machine[s] = "up" /\ ~closing[s]
          /\ o = "snapshotted" => saved[s]
          /\ o # "retained" => machine[s] \in {"gone", "stuck"}
      BY <3>1 DEF ToldOf
    <3>4. QED BY <2>3, <3>2, <3>3
  <2>4. QED BY <2>2, <2>3
<1>2. QED BY <1>1, LeaseInvariantHolds, UndisturbedOutcomesHold, PTL
=============================================================================
