---------------------------- MODULE SandboxLease ----------------------------
(***************************************************************************)
(* The lease an episode holds on its sandboxes, and the part of            *)
(* run_episode that gives them back: episode.py, classes _LeaseEntry and   *)
(* _Lease, and run_episode from the call of protocol.run to the result.    *)
(*                                                                         *)
(* Two tasks use a lease.  "main" runs the protocol and then finalizes.    *)
(* "teardown" is the shielded inner task of the protocol's last step: when *)
(* main is cancelled while it waits there, both run at once.               *)
(*                                                                         *)
(* Here the protocol is any client that leases the sandboxes in Order,     *)
(* marks and releases them, and ends.  EpisodeProtocol is the one ale has. *)
(***************************************************************************)
EXTENDS Integers

CONSTANTS
  Sandboxes,     \* the sandboxes one episode may lease
  Order,         \* the order in which the protocol leases them
  PoliciesOf,    \* the retention policies a run may ask for, per sandbox
  Faults,        \* what may interrupt an await: "deadline" and "signal"
  NoBox

ASSUME LeaseAssumption ==
  /\ NoBox \notin Sandboxes
  /\ Order \in [Sandboxes -> Nat]
  /\ PoliciesOf \in [Sandboxes -> SUBSET {"destroy", "keep", "snapshot"}]
  /\ Faults \subseteq {"deadline", "signal"}

Tasks    == {"main", "teardown"}
Policies == {"destroy", "keep", "snapshot"}

VARIABLES
  requested,  \* per sandbox: the run's retention policy for it
  live,       \* _Lease.live
  sanitation, \* _LeaseEntry.sanitation
  retained,   \* _Lease.retained
  outcomes,   \* _Lease.outcomes: how often each one is recorded, per sandbox
  machine,    \* "none", "up", "gone", or "stuck": up, and destroy() said it failed
  closing,    \* SandboxState.DESTROYED, which destroy() sets first
  saved,      \* a snapshot of the sandbox exists
  call,       \* per task: the lease operation it awaits
  main,       \* where run_episode is
  teardown,   \* where the shielded teardown is
  todo,       \* what is left of the list the loop iterates over
  allow,      \* finalize's allow_retention
  verdict,    \* "none", "completed", "timeout" or "failed"
  unwinding,  \* what the protocol is being left with
  failed,     \* finalization_error is set
  destroyFailed, \* run_episode's destroy_failed_sandboxes: retries are on
  disturbed   \* the faults that happened

runVars   == <<requested, destroyFailed>>
boxVars   == <<machine, closing, saved>>
leaseVars == <<live, sanitation, retained, outcomes>>
mainVars  == <<main, todo, allow, verdict, failed>>
vars == <<runVars, leaseVars, boxVars, call, mainVars, teardown, unwinding, disturbed>>

-----------------------------------------------------------------------------
Outcomes == {"destroyed", "retention-failed", "retained", "snapshotted"}
NoOutcome == [o \in Outcomes |-> 0]

Calls  == [await: {"none", "destroy", "retain", "snapshot", "unsave"},
           box: Sandboxes \cup {NoBox},
           label: Outcomes \cup {"none"}]
NoWait == [await |-> "none", box |-> NoBox, label |-> "none"]

TypeOK ==
  /\ requested \in [Sandboxes -> Policies]
  /\ live \subseteq Sandboxes
  /\ sanitation \in [Sandboxes -> {"not-run", "succeeded", "failed"}]
  /\ retained \subseteq Sandboxes
  /\ outcomes \in [Sandboxes -> [Outcomes -> Nat]]
  /\ machine \in [Sandboxes -> {"none", "up", "stuck", "gone"}]
  /\ closing \in [Sandboxes -> BOOLEAN]
  /\ saved \in [Sandboxes -> BOOLEAN]
  /\ call \in [Tasks -> Calls]
  /\ main \in {"protocol", "awaiting_teardown", "finalizing", "releasing",
               "recording", "undoing", "exited"}
  /\ teardown \in {"idle", "running", "done"}
  /\ todo \subseteq Sandboxes
  /\ allow \in BOOLEAN
  /\ verdict \in {"none", "completed", "timeout", "failed"}
  /\ unwinding \in {"none", "timeout", "failed", "cancelled"}
  /\ failed \in BOOLEAN
  /\ destroyFailed \in BOOLEAN
  /\ disturbed \subseteq {"deadline", "signal"}

Init ==
  /\ requested \in {p \in [Sandboxes -> Policies] : \A s \in Sandboxes : p[s] \in PoliciesOf[s]}
  /\ live = {}
  /\ sanitation = [s \in Sandboxes |-> "not-run"]
  /\ retained = {}
  /\ outcomes = [s \in Sandboxes |-> NoOutcome]
  /\ machine = [s \in Sandboxes |-> "none"]
  /\ closing = [s \in Sandboxes |-> FALSE]
  /\ saved = [s \in Sandboxes |-> FALSE]
  /\ call = [t \in Tasks |-> NoWait]
  /\ main = "protocol"
  /\ teardown = "idle"
  /\ todo = {}
  /\ allow = FALSE
  /\ verdict = "none"
  /\ unwinding = "none"
  /\ failed = FALSE
  /\ destroyFailed \in BOOLEAN
  /\ disturbed = {}

Idle(t) == call[t].await = "none"

-----------------------------------------------------------------------------
(* Sandbox.destroy and _Lease._destroy.                                     *)

AddOutcome(s, label) ==
  outcomes' = IF label = "none" THEN outcomes
              ELSE [outcomes EXCEPT ![s][label] = @ + 1]

(* destroy() marks the sandbox destroyed before its first await, so a       *)
(* second call returns at once; _destroy then records what it was told.     *)
StartDestroy(t, s, label) ==
  /\ ~closing[s]
  /\ closing' = [closing EXCEPT ![s] = TRUE]
  /\ call' = [call EXCEPT ![t] = [await |-> "destroy", box |-> s, label |-> label]]

AlreadyDestroyed(t, s, label) ==
  /\ closing[s]
  /\ live' = live \ {s}
  /\ AddOutcome(s, label)
  /\ call' = [call EXCEPT ![t] = NoWait]

(* The await returned: the sandbox is gone, or destroy() raised. *)
DestroyReturns(t, s, ok) ==
  /\ call[t].await = "destroy" /\ call[t].box = s
  /\ \E after \in IF ok THEN {"gone"} ELSE {"stuck", "gone"} :
       machine' = [machine EXCEPT ![s] = after]
  /\ live' = live \ {s}
  /\ AddOutcome(s, call[t].label)
  /\ call' = [call EXCEPT ![t] = NoWait]

(* A cancellation at the await: the `finally` drops the entry from `live`,  *)
(* nothing is recorded, and the provider may not have been asked yet.       *)
DestroyCancelled(t, s) ==
  /\ call[t].await = "destroy" /\ call[t].box = s
  /\ \E after \in {"up", "gone"} : machine' = [machine EXCEPT ![s] = after]
  /\ live' = live \ {s}
  /\ call' = [call EXCEPT ![t] = NoWait]
  /\ UNCHANGED outcomes

-----------------------------------------------------------------------------
(* The protocol's use of the lease.                                         *)

(* The tasks that run protocol code now, `finally` blocks included. *)
InProtocol(t) == \/ t = "main" /\ main = "protocol"
                 \/ t = "teardown" /\ teardown = "running"

(* acquire(): the provider returned a sandbox. *)
Acquire(s) ==
  /\ InProtocol("main") /\ Idle("main") /\ unwinding = "none"
  /\ machine[s] = "none"
  /\ \A r \in Sandboxes : Order[r] < Order[s] => machine[r] # "none"
  /\ machine' = [machine EXCEPT ![s] = "up"]
  /\ live' = live \cup {s}
  /\ UNCHANGED <<runVars, sanitation, retained, outcomes, closing, saved, call,
                 mainVars, teardown, unwinding, disturbed>>

(* mark_sanitized() finds the entry only while it is live. *)
MarkSanitized(t, s) ==
  /\ InProtocol(t) /\ Idle(t)
  /\ s \in live
  /\ \E result \in {"succeeded", "failed"} : sanitation' = [sanitation EXCEPT ![s] = result]
  /\ UNCHANGED <<runVars, live, retained, outcomes, boxVars, call, mainVars,
                 teardown, unwinding, disturbed>>

ReleaseLabel(s) == IF requested[s] # "destroy" THEN "retention-failed" ELSE "destroyed"

(* release() leaves a sandbox alone when it may still be retained. *)
KeepsForRetention(s) == requested[s] # "destroy" /\ sanitation[s] = "succeeded"

Release(t, s) ==
  /\ InProtocol(t) /\ Idle(t)
  /\ s \in live /\ ~KeepsForRetention(s)
  /\ \/ StartDestroy(t, s, ReleaseLabel(s)) /\ UNCHANGED <<live, outcomes>>
     \/ AlreadyDestroyed(t, s, ReleaseLabel(s)) /\ UNCHANGED closing
  /\ UNCHANGED <<runVars, sanitation, retained, machine, saved, mainVars,
                 teardown, unwinding, disturbed>>

(* The awaited destroy of a release ends.  A failure is raised into the     *)
(* protocol, which then cannot complete: whatever main was being left with  *)
(* is replaced, unless it no longer waits for the teardown.                 *)
Released(t, s) ==
  /\ t = "teardown" \/ main = "protocol"
  /\ \/ DestroyReturns(t, s, TRUE) /\ UNCHANGED unwinding
     \/ /\ DestroyReturns(t, s, FALSE)
        /\ IF main \in {"protocol", "awaiting_teardown"}
             THEN unwinding' \in {"failed", "timeout"} /\ (t = "teardown" => unwinding' = "failed")
             ELSE UNCHANGED unwinding
  /\ UNCHANGED <<runVars, sanitation, retained, closing, saved, mainVars,
                 teardown, disturbed>>

(* The protocol fails, or its own timeout ends it, at an await that is not  *)
(* the lease's.  In a `finally` block this replaces an earlier failure.     *)
ProtocolFails ==
  /\ InProtocol("main") /\ Idle("main")
  /\ unwinding' \in {"failed", "timeout"}
  /\ UNCHANGED <<runVars, leaseVars, boxVars, call, mainVars, teardown, disturbed>>

(* The verification deadline fires while a release is destroying a sandbox; *)
(* what stopped the agent, if anything did, is raised in its place.         *)
DeadlineInRelease(s) ==
  /\ "deadline" \in Faults
  /\ main = "protocol"
  /\ DestroyCancelled("main", s)
  /\ unwinding' \in IF unwinding = "cancelled" THEN {"cancelled"} ELSE {"failed", "timeout"}
  /\ disturbed' = disturbed \cup {"deadline"}
  /\ UNCHANGED <<runVars, sanitation, retained, closing, saved, mainVars,
                 teardown>>

(* The protocol's `finally` starts the shielded teardown. *)
StartTeardown ==
  /\ main = "protocol" /\ Idle("main")
  /\ live # {} \/ \E s \in Sandboxes : machine[s] # "none"
  /\ main' = "awaiting_teardown"
  /\ teardown' = "running"
  /\ UNCHANGED <<runVars, leaseVars, boxVars, call, todo, allow, verdict, failed,
                 unwinding, disturbed>>

(* It is over, or one of its other calls into the sandbox failed. *)
TeardownEnds ==
  /\ teardown = "running" /\ Idle("teardown")
  /\ teardown' = "done"
  /\ \/ UNCHANGED unwinding
     \/ main = "awaiting_teardown" /\ unwinding' = "failed"
  /\ UNCHANGED <<runVars, leaseVars, boxVars, call, mainVars, disturbed>>

(* The task is cancelled.  In the protocol the teardown still runs first;   *)
(* during the teardown only main is told, and the inner task runs on.       *)
SignalInProtocol ==
  /\ "signal" \in Faults \ disturbed
  /\ disturbed' = disturbed \cup {"signal"}
  /\ unwinding' = "cancelled"
  /\ \/ /\ main = "protocol"
        /\ \/ Idle("main") /\ UNCHANGED <<live, outcomes, machine, call>>
           \/ \E s \in Sandboxes : DestroyCancelled("main", s)
        /\ UNCHANGED <<main, todo, allow>>
     \/ /\ main = "awaiting_teardown"
        /\ main' = "finalizing" /\ todo' = live /\ allow' = FALSE
        /\ UNCHANGED <<live, outcomes, machine, call>>
  /\ UNCHANGED <<runVars, sanitation, retained, closing, saved, verdict, failed, teardown>>

-----------------------------------------------------------------------------
(* run_episode after the protocol.                                          *)

(* A protocol that reached its end returns a verdict, raises what stopped   *)
(* the agent, or fails to score.                                            *)
VerdictsOf(how) == CASE how = "none"      -> {"completed", "timeout", "failed"}
                     [] how = "cancelled" -> {"none"}
                     [] OTHER             -> {how}

MayRetain(v) == v \notin {"none", "timeout"} /\ (v = "completed" \/ ~destroyFailed)

(* protocol.run returned or raised.  It was torn down, or it failed before  *)
(* its try block: while provisioning, with or without a sandbox leased.     *)
ProtocolEnds ==
  /\ Idle("main")
  /\ \/ main = "awaiting_teardown" /\ teardown = "done"
     \/ main = "protocol" /\ unwinding # "none"
  /\ \E v \in VerdictsOf(unwinding) : verdict' = v /\ allow' = MayRetain(v)
  /\ main' = "finalizing" /\ todo' = live
  /\ UNCHANGED <<runVars, leaseVars, boxVars, call, failed, teardown, unwinding, disturbed>>

(* The next entry of the list a loop of main iterates over. *)
Turn(s) == /\ Idle("main") /\ s \in todo
           /\ \A r \in todo : Order[s] <= Order[r]

(* Mutant: finalize does not ask whether the sandbox was sanitized. *)
DoomedIfUnwanted(s) == ~allow \/ requested[s] = "destroy"

Doomed(s) == ~allow \/ requested[s] = "destroy" \/ sanitation[s] # "succeeded"
DoomLabel(s) == IF ~allow \/ requested[s] = "destroy" THEN "destroyed" ELSE "retention-failed"

FinalizeEntry(s) ==
  /\ main = "finalizing" /\ Turn(s)
  /\ \/ /\ Doomed(s)
        /\ \/ StartDestroy("main", s, DoomLabel(s)) /\ UNCHANGED <<live, outcomes, todo>>
           \/ /\ AlreadyDestroyed("main", s, DoomLabel(s))
              /\ todo' = todo \ {s}
              /\ UNCHANGED closing
     \/ /\ ~Doomed(s)
        /\ call' = [call EXCEPT !["main"] =
                      [await |-> IF requested[s] = "snapshot" THEN "snapshot" ELSE "retain",
                       box |-> s, label |-> "none"]]
        /\ UNCHANGED <<live, outcomes, closing, todo>>
  /\ UNCHANGED <<runVars, sanitation, retained, machine, saved, main, allow, verdict,
                 failed, teardown, unwinding, disturbed>>

(* Mutant: the outcome of a kept sandbox is recorded, its entry stays live. *)
RetainedStaysLive(s) ==
  /\ main = "finalizing" /\ call["main"].await = "retain" /\ call["main"].box = s
  /\ \/ /\ AddOutcome(s, "retained")
        /\ retained' = retained \cup {s}
        /\ todo' = todo \ {s}
        /\ call' = [call EXCEPT !["main"] = NoWait]
        /\ UNCHANGED closing
     \/ /\ StartDestroy("main", s, "retention-failed")
        /\ UNCHANGED <<retained, outcomes, todo>>
  /\ UNCHANGED <<runVars, live, sanitation, machine, saved, main, allow, verdict, failed,
                 teardown, unwinding, disturbed>>

(* retain() returned a handle, or raised and the sandbox is destroyed. *)
RetainReturns(s) ==
  /\ main = "finalizing" /\ call["main"].await = "retain" /\ call["main"].box = s
  /\ \/ /\ AddOutcome(s, "retained")
        /\ retained' = retained \cup {s}
        /\ live' = live \ {s}
        /\ todo' = todo \ {s}
        /\ call' = [call EXCEPT !["main"] = NoWait]
        /\ UNCHANGED closing
     \/ /\ StartDestroy("main", s, "retention-failed")
        /\ UNCHANGED <<live, retained, outcomes, todo>>
  /\ UNCHANGED <<runVars, sanitation, machine, saved, main, allow, verdict, failed,
                 teardown, unwinding, disturbed>>

(* snapshot() saved the disk and the sandbox goes, or it raised. *)
SnapshotReturns(s) ==
  /\ main = "finalizing" /\ call["main"].await = "snapshot" /\ call["main"].box = s
  /\ \/ /\ saved' = [saved EXCEPT ![s] = TRUE]
        /\ AddOutcome(s, "snapshotted")
        /\ retained' = retained \cup {s}
        /\ StartDestroy("main", s, "none")
     \/ /\ StartDestroy("main", s, "retention-failed")
        /\ UNCHANGED <<saved, outcomes, retained>>
  /\ UNCHANGED <<runVars, live, sanitation, machine, mainVars, teardown, unwinding, disturbed>>

(* Mutant: a failed finalize is recorded at once. *)
RecordsFailedFinalize(s) ==
  /\ main = "finalizing"
  /\ \/ /\ DestroyReturns("main", s, TRUE)
        /\ todo' = todo \ {s}
        /\ UNCHANGED <<main, failed>>
     \/ /\ DestroyReturns("main", s, FALSE)
        /\ main' = "recording" /\ todo' = {} /\ failed' = TRUE
  /\ UNCHANGED <<runVars, sanitation, retained, closing, saved, allow, verdict,
                 teardown, unwinding, disturbed>>

(* A destroy that fails ends finalize's loop; release_all takes the rest. *)
FinalizeDestroyed(s) ==
  /\ main = "finalizing"
  /\ \/ /\ DestroyReturns("main", s, TRUE)
        /\ todo' = todo \ {s}
        /\ UNCHANGED <<main, failed>>
     \/ /\ DestroyReturns("main", s, FALSE)
        /\ main' = "releasing" /\ todo' = live' /\ failed' = TRUE
  /\ UNCHANGED <<runVars, sanitation, retained, closing, saved, allow, verdict,
                 teardown, unwinding, disturbed>>

FinalizeEnds ==
  /\ main = "finalizing" /\ Idle("main") /\ todo = {}
  /\ main' = "releasing" /\ todo' = live
  /\ UNCHANGED <<runVars, leaseVars, boxVars, call, allow, verdict, failed,
                 teardown, unwinding, disturbed>>

(* release_all() destroys what is left and goes on past a failure. *)
ReleaseEntry(s) ==
  /\ main = "releasing" /\ Turn(s)
  /\ \/ StartDestroy("main", s, "destroyed") /\ UNCHANGED <<live, outcomes, todo>>
     \/ /\ AlreadyDestroyed("main", s, "destroyed")
        /\ todo' = todo \ {s}
        /\ UNCHANGED closing
  /\ UNCHANGED <<runVars, sanitation, retained, machine, saved, main, allow, verdict,
                 failed, teardown, unwinding, disturbed>>

ReleaseDestroyed(s) ==
  /\ main = "releasing"
  /\ \E ok \in BOOLEAN : DestroyReturns("main", s, ok) /\ failed' = (failed \/ ~ok)
  /\ todo' = todo \ {s}
  /\ UNCHANGED <<runVars, sanitation, retained, closing, saved, main, allow, verdict,
                 teardown, unwinding, disturbed>>

(* A finalization failure turns a completed episode into an ENV_ERROR.  A   *)
(* cancelled one leaves run_episode here, with no result.                   *)
ReleaseEnds ==
  /\ main = "releasing" /\ Idle("main") /\ todo = {}
  /\ verdict' = IF failed /\ verdict = "completed" THEN "failed" ELSE verdict
  /\ main' = IF verdict = "none" THEN "exited" ELSE "recording"
  /\ UNCHANGED <<runVars, leaseVars, boxVars, call, todo, allow, failed,
                 teardown, unwinding, disturbed>>

(* Mutant: the retained sandboxes of a failed attempt are left alone. *)
RecordKeepingRetained ==
  /\ main = "recording"
  /\ \E v \in {verdict, "failed"} : verdict' = v
  /\ main' = "exited"
  /\ UNCHANGED <<runVars, leaseVars, boxVars, call, todo, allow, failed,
                 teardown, unwinding, disturbed>>

(* The finalize phase: blob references and the lock.  It may fail, and then *)
(* a run with retries undoes the retention of what is now a failed attempt. *)
Record ==
  /\ main = "recording"
  /\ \E v \in {verdict, "failed"} :
       /\ verdict' = v
       /\ IF destroyFailed /\ v # "completed"
            THEN main' = "undoing" /\ todo' = retained
            ELSE main' = "exited" /\ UNCHANGED todo
  /\ UNCHANGED <<runVars, leaseVars, boxVars, call, allow, failed,
                 teardown, unwinding, disturbed>>

(* Mutant: the outcome a withdrawn retention was recorded with stays. *)
KeepsOutcome(s) == outcomes[s]

(* destroy_retained(): the outcome goes, then what it named. *)
Withdrawn(s) == [outcomes[s] EXCEPT !["retained"] = 0, !["snapshotted"] = 0]

UndoEntry(s) ==
  /\ main = "undoing" /\ Turn(s)
  /\ \/ /\ saved[s]
        /\ outcomes' = [outcomes EXCEPT ![s] = Withdrawn(s)]
        /\ call' = [call EXCEPT !["main"] = [await |-> "unsave", box |-> s, label |-> "destroyed"]]
        /\ UNCHANGED closing
     \/ /\ ~saved[s]
        /\ outcomes' = [outcomes EXCEPT ![s] = Withdrawn(s)]
        /\ StartDestroy("main", s, "destroyed")
  /\ UNCHANGED <<runVars, live, sanitation, retained, machine, saved, mainVars,
                 teardown, unwinding, disturbed>>

UndoReturns(s) ==
  /\ main = "undoing"
  /\ \E ok \in BOOLEAN :
       /\ \/ DestroyReturns("main", s, ok) /\ UNCHANGED saved
          \/ /\ call["main"].await = "unsave" /\ call["main"].box = s
             /\ saved' = IF ok THEN [saved EXCEPT ![s] = FALSE] ELSE saved
             /\ AddOutcome(s, "destroyed")
             /\ call' = [call EXCEPT !["main"] = NoWait]
             /\ UNCHANGED <<machine, live>>
       /\ verdict' = IF ok THEN verdict ELSE "failed"
  /\ todo' = todo \ {s}
  /\ UNCHANGED <<runVars, sanitation, retained, closing, main, allow, failed,
                 teardown, unwinding, disturbed>>

UndoEnds ==
  /\ main = "undoing" /\ Idle("main") /\ todo = {}
  /\ retained' = {}
  /\ main' = "exited"
  /\ UNCHANGED <<runVars, live, sanitation, outcomes, boxVars, call, todo, allow, verdict,
                 failed, teardown, unwinding, disturbed>>

(* A cancellation while run_episode gives sandboxes back is not caught: it  *)
(* leaves by way of the operation it interrupts.                            *)
SignalInFinalize ==
  /\ "signal" \in Faults \ disturbed
  /\ main \in {"finalizing", "releasing", "undoing"} /\ ~Idle("main")
  /\ disturbed' = disturbed \cup {"signal"}
  /\ main' = "exited" /\ verdict' = "none"
  /\ \E s \in Sandboxes :
       \/ DestroyCancelled("main", s) /\ UNCHANGED saved
       \/ /\ call["main"].await \in {"retain", "snapshot", "unsave"} /\ call["main"].box = s
          /\ call' = [call EXCEPT !["main"] = NoWait]
          /\ \/ UNCHANGED saved
             \/ /\ call["main"].await # "retain"
                /\ saved' = [saved EXCEPT ![s] = call["main"].await = "snapshot"]
          /\ IF call["main"].await = "unsave" THEN AddOutcome(s, "destroyed") ELSE UNCHANGED outcomes
          /\ UNCHANGED <<machine, live>>
  /\ UNCHANGED <<runVars, sanitation, retained, closing, todo, allow, failed,
                 teardown, unwinding>>

(* asyncio.run cancels what is still running once the command has ended. *)
LoopCloses ==
  /\ main = "exited" /\ teardown = "running"
  /\ teardown' = "done"
  /\ \/ Idle("teardown") /\ UNCHANGED <<live, outcomes, machine, call>>
     \/ \E s \in Sandboxes : DestroyCancelled("teardown", s)
  /\ UNCHANGED <<runVars, sanitation, retained, closing, saved, mainVars, unwinding, disturbed>>

-----------------------------------------------------------------------------
Protocol == \/ \E s \in Sandboxes : Acquire(s) \/ DeadlineInRelease(s)
            \/ \E t \in Tasks, s \in Sandboxes :
                 MarkSanitized(t, s) \/ Release(t, s) \/ Released(t, s)
            \/ ProtocolFails \/ StartTeardown \/ TeardownEnds \/ SignalInProtocol

Finalization ==
  \/ ProtocolEnds \/ FinalizeEnds \/ ReleaseEnds \/ Record \/ UndoEnds
  \/ \E s \in Sandboxes : \/ FinalizeEntry(s) \/ RetainReturns(s) \/ SnapshotReturns(s)
                          \/ FinalizeDestroyed(s) \/ ReleaseEntry(s) \/ ReleaseDestroyed(s)
                          \/ UndoEntry(s) \/ UndoReturns(s)
  \/ SignalInFinalize \/ LoopCloses

Next == Protocol \/ Finalization

Spec == Init /\ [][Next]_vars

-----------------------------------------------------------------------------
Leased(s)    == machine[s] # "none"
Over         == main = "exited" /\ teardown # "running"

(* What outlives the episode is only what a run asked to retain and what    *)
(* was cleaned of the task's material first (mark_sanitized, finalize).     *)
RetainedIsSanitized ==
  \A s \in Sandboxes : s \in retained \/ saved[s] =>
    requested[s] # "destroy" /\ sanitation[s] = "succeeded"

(* The inductive invariant behind SandboxLeaseProofs, in parts.             *)

(* A task awaits an operation only where its program makes one. *)
CallsAreOwned ==
  /\ call["teardown"].await \in {"none", "destroy"}
  /\ call["teardown"].await = "destroy" => teardown = "running"
  /\ main = "protocol" => call["main"].await \in {"none", "destroy"} /\ teardown = "idle"
  /\ main \in {"awaiting_teardown", "recording", "exited"} => Idle("main")
  /\ call["main"].await = "unsave" => main = "undoing"
  /\ \A t \in Tasks : ~Idle(t) => call[t].box \in Sandboxes

(* Retention begins when nothing can mark or release a sandbox any more. *)
RetentionIsLast ==
  \/ main \notin {"protocol", "awaiting_teardown"} /\ teardown # "running"
  \/ /\ retained = {} /\ \A s \in Sandboxes : ~saved[s]
     /\ call["main"].await \in {"none", "destroy"}
     /\ main = "finalizing" => ~allow

(* What is being retained may be, and only a snapshot is ever withdrawn as one. *)
RetainingIsAllowed ==
  /\ call["main"].await \in {"retain", "snapshot"} =>
       /\ main = "finalizing"
       /\ sanitation[call["main"].box] = "succeeded"
       /\ requested[call["main"].box] =
            (IF call["main"].await = "retain" THEN "keep" ELSE "snapshot")
  /\ call["main"].await = "unsave" => requested[call["main"].box] = "snapshot"
  /\ \A s \in Sandboxes : saved[s] => requested[s] = "snapshot"

(* No loop of run_episode comes back to a sandbox it has kept. *)
KeptIsLetGo ==
  \A s \in retained : ~saved[s] =>
    /\ s \notin live
    /\ main \in {"finalizing", "releasing"} => s \notin todo
    /\ call["main"].await \in {"retain", "snapshot"} => call["main"].box # s

(* release_all's list is all there is. *)
ReleaseIsComplete ==
  /\ main = "releasing" => live \subseteq todo
  /\ main \in {"recording", "undoing"} => live = {}

(* Only what was leased is handled. *)
OnlyLeasedIsHandled ==
  \A s \in Sandboxes : machine[s] = "none" =>
    /\ s \notin live \cup todo \cup retained
    /\ ~closing[s]
    /\ \A t \in Tasks : call[t].box # s

(* Without a cancellation main waits for the teardown and exits with no     *)
(* lease, and a sandbox that runs is leased, or kept and still to be undone *)
(* by a failed attempt; if it is being destroyed, a task waits for that.    *)
TeardownIsAwaited == teardown = "running" => main = "awaiting_teardown"
NothingIsLeftLive == main = "exited" => live = {}
RunningIsHeld(s) ==
  machine[s] = "up" =>
    /\ s \in live \/ (s \in retained /\ requested[s] = "keep")
    /\ closing[s] => \E t \in Tasks : call[t].await = "destroy" /\ call[t].box = s
    /\ main = "undoing" => s \in todo

UndisturbedCustody ==
  disturbed = {} =>
    TeardownIsAwaited /\ NothingIsLeftLive /\ \A s \in Sandboxes : RunningIsHeld(s)

LeaseInvariant ==
  /\ TypeOK
  /\ CallsAreOwned
  /\ RetentionIsLast
  /\ RetainingIsAllowed
  /\ RetainedIsSanitized
  /\ KeptIsLetGo
  /\ ReleaseIsComplete
  /\ OnlyLeasedIsHandled
  /\ UndisturbedCustody

(* What the result will say of a sandbox, of one that no cancellation        *)
(* disturbed: nothing while it is leased, unless its disk is saved and it is *)
(* being destroyed, and nothing while a failed attempt withdraws what it     *)
(* said; once it is let go, what became of it.                               *)
OneOf(o)       == [NoOutcome EXCEPT ![o] = 1]
Withdrawing(s) == main = "undoing" /\ call["main"].await # "none" /\ call["main"].box = s
Kept(s)        == s \in retained /\ (main = "undoing" => s \in todo)

ToldOf(s, o) ==
  /\ outcomes[s] = OneOf(o)
  /\ o = "retained" => machine[s] = "up" /\ ~closing[s] /\ ~saved[s] /\ Kept(s)
  /\ o # "retained" => machine[s] \in {"gone", "stuck"}
  /\ o = "snapshotted" => saved[s]
  /\ Kept(s) => o \in {"retained", "snapshotted"}

OutcomeIsTold(s) ==
  /\ ~Leased(s) => outcomes[s] = NoOutcome
  /\ s \in live /\ s \notin retained => outcomes[s] = NoOutcome
  /\ s \in live /\ s \in retained => saved[s] /\ outcomes[s] = OneOf("snapshotted")
  /\ Withdrawing(s) => /\ outcomes[s] = NoOutcome /\ call["main"].label = "destroyed"
                       /\ call["main"].await = "unsave" => machine[s] \in {"gone", "stuck"}
  /\ Leased(s) /\ s \notin live /\ ~Withdrawing(s) => \E o \in Outcomes : ToldOf(s, o)

(* What is destroyed is leased, or withdrawn, and its outcome will be told   *)
(* unless it has been.                                                       *)
DestroyIsOfLeased(t) ==
  call[t].await = "destroy" =>
    \/ main = "undoing"
    \/ /\ call[t].box \in live
       /\ call[t].label \in (IF call[t].box \in retained THEN {"none"}
                                                         ELSE {"destroyed", "retention-failed"})

LiveRuns(s) ==
  s \in live => /\ machine[s] = "up"
                /\ closing[s] => \E t \in Tasks : call[t].await = "destroy" /\ call[t].box = s
                /\ s \in retained => main = "finalizing" /\ call["main"].box = s /\ closing[s]

(* A loop of run_episode goes through what is leased, or was retained, entry *)
(* by entry.                                                                 *)
ListsAreLive ==
  /\ main \in {"finalizing", "releasing"} =>
       todo \subseteq live /\ (~Idle("main") => call["main"].box \in todo)
  /\ main = "undoing" => todo \subseteq retained

UndisturbedOutcomes ==
  disturbed = {} =>
    /\ ListsAreLive
    /\ \A t \in Tasks : DestroyIsOfLeased(t)
    /\ \A s \in Sandboxes : LiveRuns(s) /\ OutcomeIsTold(s)

(* _Lease: "Hands out sandboxes and guarantees they are reaped."  When the  *)
(* episode is over, a sandbox that runs was retained, or the provider said  *)
(* it could not destroy it.                                                 *)
EveryLeasedSandboxIsReaped ==
  Over => \A s \in Sandboxes : machine[s] = "up" => s \in retained /\ requested[s] = "keep"

(* The same of an episode no await of which was cancelled, whatever fails.  *)
UndisturbedEpisodesReap == disturbed = {} => EveryLeasedSandboxIsReaped

(* The result names each leased sandbox once, with what became of it: a     *)
(* sandbox recorded as retained runs, one recorded as snapshotted left its  *)
(* disk, any other no longer runs unless its destruction was refused        *)
(* (finalize, destroy_retained, release_all).                               *)
OutcomesAreTrue ==
  Over /\ disturbed = {} => \A s \in Sandboxes :
    IF ~Leased(s) THEN outcomes[s] = NoOutcome
    ELSE \E o \in Outcomes :
           /\ outcomes[s] = [NoOutcome EXCEPT ![o] = 1]
           /\ CASE o = "retained"    -> machine[s] = "up" /\ ~closing[s]
                [] o = "snapshotted" -> saved[s]
                [] OTHER             -> machine[s] \in {"gone", "stuck"}

(* trace.md: with automatic retries, "failed attempts destroy their owned   *)
(* Sandboxes even when retention requested `keep`" (destroy_retained).      *)
FailedAttemptRetainsNothing ==
  Over /\ disturbed = {} /\ destroyFailed /\ verdict # "completed" =>
    retained = {} /\ \A s \in Sandboxes : machine[s] # "up"

(* A sandbox whose retention was promised is touched by nothing but the     *)
(* withdrawal of that promise: no release, finalize or teardown destroys it.*)
KeptIsLeftAlone ==
  [][\A s \in Sandboxes :
       s \in retained /\ ~saved[s] /\ ~closing[s] /\ closing'[s] => main = "undoing"]_vars
=============================================================================
