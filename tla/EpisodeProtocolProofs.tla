----------------------- MODULE EpisodeProtocolProofs -----------------------
(***************************************************************************)
(* What holds of every episode, whatever the plan, the retention policies  *)
(* and the faults: an episode is a behaviour of the lease, so that all     *)
(* SandboxLeaseProofs shows holds of it; and the invariant of the phases,  *)
(* with the properties that rest on it.                                    *)
(***************************************************************************)
EXTENDS EpisodeProtocol, SandboxLeaseProofs

-----------------------------------------------------------------------------
(* Every step of an episode is one of the lease, or leaves it alone.        *)

(* The two sandboxes, and the two tasks that handle them. *)
LEMMA Names ==
  /\ Solver \in Sandboxes /\ Verifier \in Sandboxes /\ Solver # Verifier
  /\ \A s \in Sandboxes : s = Solver \/ s = Verifier
  /\ "main" \in Tasks /\ "teardown" \in Tasks
BY EpisodeAssumption DEF EpisodeAssumption, Tasks

(* What a plan asks of the lease, and a failing step of it, are steps of the lease. *)
LEMMA StepsAreLeaseSteps == Steps => [Next]_vars
<1> USE Names
<1>1. ASSUME NEW s \in Sandboxes, NEW here, NEW next, Clean(s, here, next) PROVE Next
  BY <1>1 DEF Clean, Sanitize, Next, Protocol
<1>2. ASSUME NEW s \in Sandboxes, NEW here, NEW next, LetGoOf(s, here, next) PROVE [Next]_vars
  BY <1>2 DEF LetGoOf, Spare, LetGo, LetGoReturns, Next, Protocol
<1>3. ASSUME NEW p \in Places, Raises(p) \/ TimesOut(p) PROVE [Next]_vars
  BY <1>3 DEF Raises, TimesOut, Next, Protocol
<1>4. ASSUME Provision \/ ProvisionVerifier \/ BeginTeardown \/ EpisodeEnds PROVE Next
  BY <1>4 DEF Provision, ProvisionVerifier, BeginTeardown, EpisodeEnds, Next, Protocol, Finalization
<1>5. ASSUME \/ ClaimSolver \/ OpenEgress \/ StageSetup \/ RunSetup \/ UploadSolution
             \/ Install \/ Seal \/ AgentEnds \/ CaptureEvidence \/ Restore \/ ClearTests
             \/ UploadTests \/ UnsealVerifier \/ RunVerify
      PROVE  UNCHANGED vars
  BY <1>5 DEF ClaimSolver, OpenEgress, StageSetup, RunSetup, UploadSolution, Install, Seal,
              AgentEnds, CaptureEvidence, Restore, ClearTests, UploadTests, UnsealVerifier, RunVerify
<1>6. QED
  BY <1>1, <1>2, <1>3, <1>4, <1>5 DEF Steps

(* The guarded cleanup acts on the lease only as the lease allows. *)
LEMMA TeardownStepsAreLeaseSteps == Teardown => [Next]_vars
<1> USE Names
<1>1. ASSUME TeardownCaptures PROVE UNCHANGED vars
  BY <1>1 DEF TeardownCaptures
<1>2. ASSUME TeardownCleans PROVE [Next]_vars
  BY <1>2 DEF TeardownCleans, Sanitize, Next, Protocol
<1>3. ASSUME TeardownFails \/ TeardownIsOver PROVE Next
  BY <1>3 DEF TeardownFails, TeardownIsOver, Next, Protocol
<1>4. ASSUME TeardownReleases \/ TeardownReleased PROVE [Next]_vars
  BY <1>4 DEF TeardownReleases, TeardownReleased, Next, Protocol
<1>5. QED
  BY <1>1, <1>2, <1>3, <1>4 DEF Teardown

(* Finalization, signals and deadlines are steps of the lease itself. *)
LEMMA OtherStepsAreLeaseSteps == Finalizing \/ Disturbances => [Next]_vars
<1> USE Names
<1>1. ASSUME Finalizing PROVE Next
  BY <1>1 DEF Finalizing, Next, Finalization
<1>2. ASSUME NEW s \in Sandboxes, NEW here, LetGoTimesOut(s, here) PROVE Next
  BY <1>2 DEF LetGoTimesOut, Next, Protocol
<1>3. ASSUME Cancelled \/ SignalInFinalize PROVE Next
  BY <1>3 DEF Cancelled, Next, Protocol, Finalization
<1>4. ASSUME NEW s \in Sandboxes, FallsSilent(s) PROVE UNCHANGED vars
  BY <1>4 DEF FallsSilent
<1>5. QED
  BY <1>1, <1>2, <1>3, <1>4 DEF Disturbances

(* The episode implements the lease step by step: a step of it is one, or a stutter. *)
LEMMA EpisodeStepIsLeaseStep == [EpisodeNext]_episodeVars => [Next]_vars
BY StepsAreLeaseSteps, TeardownStepsAreLeaseSteps, OtherStepsAreLeaseSteps
   DEF EpisodeNext, episodeVars

(* An episode leases, marks and releases its sandboxes as a client of the   *)
(* lease may: what holds of every behaviour of SandboxLease holds of it.    *)
THEOREM EpisodeImplementsLease == EpisodeSpec => ImplementsLease
<1>1. EpisodeInit => Init
  BY DEF EpisodeInit
<1>2. QED BY <1>1, EpisodeStepIsLeaseStep, PTL DEF EpisodeSpec, ImplementsLease, Spec

-----------------------------------------------------------------------------
(* What each operation of the lease does to the state the phases share.     *)

(* What stands still when the lease does. *)
LEMMA StutterEffect ==
  ASSUME UNCHANGED vars
  PROVE  UNCHANGED <<requested, sanitation, main, teardown, unwinding>>
BY DEF vars, runVars, leaseVars, mainVars

(* acquire: asked for by a protocol that runs and does not unwind. *)
LEMMA AcquireEffect ==
  ASSUME NEW s, Acquire(s)
  PROVE  /\ UNCHANGED <<requested, sanitation, main, teardown, unwinding>>
         /\ main = "protocol" /\ unwinding = "none"
BY DEF Acquire, InProtocol, runVars, mainVars

(* mark_sanitized: one record of one sandbox, made by who runs the protocol. *)
LEMMA MarkSanitizedEffect ==
  ASSUME NEW t, NEW s, MarkSanitized(t, s)
  PROVE  /\ UNCHANGED <<requested, main, teardown, unwinding>>
         /\ \E result \in {"succeeded", "failed"} : sanitation' = [sanitation EXCEPT ![s] = result]
         /\ InProtocol(t)
BY DEF MarkSanitized, runVars, mainVars

(* release: the episode goes on with what it was doing. *)
LEMMA ReleaseEffect ==
  ASSUME NEW t, NEW s, Release(t, s)
  PROVE  UNCHANGED <<requested, sanitation, main, teardown, unwinding>>
BY DEF Release, runVars, mainVars

(* release returns or raises: only a protocol that runs can begin to unwind. *)
LEMMA ReleasedEffect ==
  ASSUME NEW t, NEW s, Released(t, s)
  PROVE  /\ UNCHANGED <<requested, sanitation, main, teardown>>
         /\ main \notin {"protocol", "awaiting_teardown"} => unwinding' = unwinding
         /\ unwinding' \in {unwinding, "failed", "timeout"}
BY DEF Released, runVars, mainVars

(* An exception of the protocol makes it unwind. *)
LEMMA ProtocolFailsEffect ==
  ASSUME ProtocolFails
  PROVE  /\ UNCHANGED <<requested, sanitation, main, teardown>>
         /\ main = "protocol" /\ unwinding' \in {"failed", "timeout"}
BY DEF ProtocolFails, InProtocol, runVars, leaseVars, mainVars

(* The deadline met in a release: a cancellation stays one. *)
LEMMA DeadlineInReleaseEffect ==
  ASSUME NEW s, DeadlineInRelease(s)
  PROVE  /\ UNCHANGED <<requested, sanitation, main, teardown>>
         /\ main = "protocol"
         /\ unwinding = "cancelled" => unwinding' = "cancelled"
BY DEF DeadlineInRelease, runVars, mainVars

(* The guarded cleanup starts once, and the episode waits for it. *)
LEMMA StartTeardownEffect ==
  ASSUME StartTeardown
  PROVE  /\ UNCHANGED <<requested, sanitation, unwinding>>
         /\ main = "protocol" /\ main' = "awaiting_teardown" /\ teardown' = "running"
BY DEF StartTeardown, runVars, leaseVars

(* The guarded cleanup ends once. *)
LEMMA TeardownEndsEffect ==
  ASSUME TeardownEnds
  PROVE  /\ UNCHANGED <<requested, sanitation, main>>
         /\ teardown = "running" /\ teardown' = "done"
BY DEF TeardownEnds, runVars, leaseVars, mainVars

(* A signal cancels the protocol, or the wait for its guarded cleanup. *)
LEMMA SignalInProtocolEffect ==
  ASSUME SignalInProtocol
  PROVE  /\ UNCHANGED <<requested, sanitation, teardown>>
         /\ unwinding' = "cancelled"
         /\ \/ main = "protocol" /\ main' = "protocol"
            \/ main = "awaiting_teardown" /\ main' = "finalizing"
BY DEF SignalInProtocol, runVars, leaseVars, mainVars

(* The protocol hands the lease over to the finalization. *)
LEMMA ProtocolEndsEffect ==
  ASSUME ProtocolEnds
  PROVE  UNCHANGED <<requested, sanitation, teardown, unwinding>> /\ main' = "finalizing"
BY DEF ProtocolEnds, runVars, leaseVars

(* The finalization starts nothing of the protocol again. *)
LEMMA FinalizingEffect ==
  ASSUME Finalizing \/ SignalInFinalize
  PROVE  /\ UNCHANGED <<requested, sanitation, unwinding>>
         /\ main # "protocol" /\ main' # "protocol"
         /\ teardown' = teardown \/ (teardown = "running" /\ teardown' = "done")
<1>1. CASE SignalInFinalize
  BY <1>1 DEF SignalInFinalize, runVars
<1>2. CASE FinalizeEnds \/ ReleaseEnds \/ Record \/ UndoEnds \/ LoopCloses
  BY <1>2 DEF FinalizeEnds, ReleaseEnds, Record, UndoEnds, LoopCloses, runVars, leaseVars, mainVars
<1>3. ASSUME NEW s \in Sandboxes,
             FinalizeEntry(s) \/ RetainReturns(s) \/ SnapshotReturns(s) \/ FinalizeDestroyed(s)
      PROVE  UNCHANGED <<requested, sanitation, unwinding, teardown>> /\ main # "protocol"
             /\ main' # "protocol"
  BY <1>3 DEF FinalizeEntry, RetainReturns, SnapshotReturns, FinalizeDestroyed, runVars, mainVars
<1>4. ASSUME NEW s \in Sandboxes,
             ReleaseEntry(s) \/ ReleaseDestroyed(s) \/ UndoEntry(s) \/ UndoReturns(s)
      PROVE  UNCHANGED <<requested, sanitation, unwinding, teardown>> /\ main # "protocol"
             /\ main' # "protocol"
  BY <1>4 DEF ReleaseEntry, ReleaseDestroyed, UndoEntry, UndoReturns, runVars, mainVars
<1>5. QED
  BY <1>1, <1>2, <1>3, <1>4 DEF Finalizing

(* Sanitation takes material away, and a success takes all there is. *)
LEMMA SanitizeEffect ==
  ASSUME TypeOK, EpisodeTypeOK, NEW t, NEW s \in Sandboxes, Sanitize(t, s)
  PROVE  /\ UNCHANGED <<requested, main, teardown, unwinding>> /\ InProtocol(t)
         /\ holds' \in [Sandboxes -> SUBSET Material]
         /\ \A r \in Sandboxes : /\ holds'[r] \subseteq holds[r]
                                 /\ r # s => sanitation'[r] = sanitation[r]
         /\ requested[s] # "destroy" /\ sanitation'[s] = "succeeded" => holds'[s] = {}
<1>1. PICK result \in {"succeeded", "failed"} : sanitation' = [sanitation EXCEPT ![s] = result]
  BY MarkSanitizedEffect DEF Sanitize
<1>2. UNCHANGED <<requested, main, teardown, unwinding>> /\ InProtocol(t)
  BY MarkSanitizedEffect DEF Sanitize
<1>3. \A r \in Sandboxes : r # s => sanitation'[r] = sanitation[r]
  BY <1>1 DEF TypeOK
<1>4. CASE requested[s] = "destroy" /\ UNCHANGED holds
  BY <1>2, <1>3, <1>4 DEF EpisodeTypeOK
<1>5. CASE \E gone \in SUBSET holds[s] :
             /\ holds' = [holds EXCEPT ![s] = @ \ gone]
             /\ sanitation'[s] = "succeeded" => gone = holds[s]
  BY <1>2, <1>3, <1>5 DEF EpisodeTypeOK
<1>6. QED
  BY <1>4, <1>5 DEF Sanitize

(* What a step that raises may have left behind. *)
LEMMA PartlyDoneEffect ==
  ASSUME EpisodeTypeOK, NEW p \in Places, PartlyDone(p)
  PROVE  /\ holds' \in [Sandboxes -> SUBSET Material]
         /\ \A s \in Sandboxes, m \in Material : m \in holds'[s] =>
              \/ m \in holds[s]
              \/ p = "stage"    /\ s = Solver   /\ m = "setup"
              \/ p = "solution" /\ s = Solver   /\ m = "solution"
              \/ p = "upload"   /\ s = VerifyIn /\ m = "tests"
              \/ p = "verify"   /\ s = VerifyIn /\ m = "result"
<1> USE Names DEF EpisodeTypeOK, Material
<1>1. CASE p \in {"clean_solver", "clean_verifier"}
  <2>1. PICK s \in Asked(p), gone \in SUBSET Material : holds' = [holds EXCEPT ![s] = @ \ gone]
    BY <1>1 DEF PartlyDone
  <2>2. s \in Sandboxes
    BY <1>1, <2>1 DEF Asked
  <2>3. QED BY <2>1, <2>2
<1>2. CASE p = "stage"
  BY <1>2 DEF PartlyDone
<1>3. CASE p = "solution"
  BY <1>3 DEF PartlyDone
<1>4. CASE p = "upload"
  BY <1>4 DEF PartlyDone, VerifyIn
<1>5. CASE p = "verify"
  BY <1>5 DEF PartlyDone, VerifyIn
<1>6. CASE p \notin {"clean_solver", "clean_verifier", "stage", "solution", "upload", "verify"}
  <2>1. UNCHANGED holds
    BY <1>6 DEF PartlyDone
  <2>2. QED BY <2>1
<1>7. QED BY <1>1, <1>2, <1>3, <1>4, <1>5, <1>6


-----------------------------------------------------------------------------
(* Setup, the agent, and the capture of what it left. *)
LEMMA BeforeEvidence ==
  ASSUME TypeOK, CallsAreOwned, EpisodeInvariant,
         Provision \/ ClaimSolver \/ OpenEgress \/ StageSetup \/ RunSetup \/ UploadSolution
         \/ Install \/ Seal \/ AgentEnds \/ CaptureEvidence
  PROVE  EpisodeInvariant'
<1> USE Names DEF Setup, Agent, Scoring, Verify, Places, Material, AgentMaterial, Shared, VerifyIn,
                  On, Go
<1>1. ASSUME Provision PROVE EpisodeInvariant'
  BY <1>1, AcquireEffect
     DEF Provision, EpisodeInvariant, EpisodeTypeOK, PlacesAgree, StagedForTheAgent,
         AgentIsConfined, CapturedBeforeTests, CleanedLast, ReasonIsKept
<1>2. ASSUME ClaimSolver PROVE EpisodeInvariant'
  BY <1>2, StutterEffect
     DEF ClaimSolver, EpisodeInvariant, EpisodeTypeOK, PlacesAgree, StagedForTheAgent,
         AgentIsConfined, CapturedBeforeTests, CleanedLast, ReasonIsKept
<1>3. ASSUME OpenEgress PROVE EpisodeInvariant'
  BY <1>3, StutterEffect
     DEF OpenEgress, LeaveSetup, EpisodeInvariant, EpisodeTypeOK, PlacesAgree,
         StagedForTheAgent, AgentIsConfined, CapturedBeforeTests, CleanedLast, ReasonIsKept
<1>4. ASSUME StageSetup PROVE EpisodeInvariant'
  BY <1>4, StutterEffect
     DEF StageSetup, LeaveSetup, EpisodeInvariant, EpisodeTypeOK, PlacesAgree,
         StagedForTheAgent, AgentIsConfined, CapturedBeforeTests, CleanedLast, ReasonIsKept
<1>5. ASSUME RunSetup PROVE EpisodeInvariant'
  BY <1>5, StutterEffect
     DEF RunSetup, LeaveSetup, EpisodeInvariant, EpisodeTypeOK, PlacesAgree,
         StagedForTheAgent, AgentIsConfined, CapturedBeforeTests, CleanedLast, ReasonIsKept
<1>6. ASSUME UploadSolution PROVE EpisodeInvariant'
  BY <1>6, StutterEffect
     DEF UploadSolution, EpisodeInvariant, EpisodeTypeOK, PlacesAgree, StagedForTheAgent,
         AgentIsConfined, CapturedBeforeTests, CleanedLast, ReasonIsKept
<1>7. ASSUME Install PROVE EpisodeInvariant'
  BY <1>7, StutterEffect
     DEF Install, EpisodeInvariant, EpisodeTypeOK, PlacesAgree, StagedForTheAgent,
         AgentIsConfined, CapturedBeforeTests, CleanedLast, ReasonIsKept
<1>8. ASSUME Seal PROVE EpisodeInvariant'
  BY <1>8, StutterEffect
     DEF Seal, EpisodeInvariant, EpisodeTypeOK, PlacesAgree, StagedForTheAgent,
         AgentIsConfined, CapturedBeforeTests, CleanedLast, ReasonIsKept
<1>9. ASSUME AgentEnds PROVE EpisodeInvariant'
  BY <1>9, StutterEffect
     DEF AgentEnds, EpisodeInvariant, EpisodeTypeOK, PlacesAgree, StagedForTheAgent,
         AgentIsConfined, CapturedBeforeTests, CleanedLast, ReasonIsKept
<1>10. ASSUME CaptureEvidence PROVE EpisodeInvariant'
  BY <1>10, StutterEffect
     DEF CaptureEvidence, AfterCapture, EpisodeInvariant, EpisodeTypeOK, PlacesAgree,
         StagedForTheAgent, AgentIsConfined, CapturedBeforeTests, CleanedLast, ReasonIsKept
<1>11. QED BY <1>1, <1>2, <1>3, <1>4, <1>5, <1>6, <1>7, <1>8, <1>9, <1>10

(* Verification, in the solver or in a sandbox of its own. *)
LEMMA Verification ==
  ASSUME TypeOK, CallsAreOwned, EpisodeInvariant,
         \/ Clean(Solver, "clean_solver", "release_solver")
         \/ LetGoOf(Solver, "release_solver", "provision_verifier")
         \/ ProvisionVerifier
         \/ Restore
         \/ ClearTests
         \/ UploadTests
         \/ UnsealVerifier
         \/ RunVerify
         \/ Clean(Verifier, "clean_verifier", "release_verifier")
         \/ LetGoOf(Verifier, "release_verifier", "leave")
  PROVE  EpisodeInvariant'
<1> USE Names DEF Setup, Agent, Scoring, Verify, Places, Material, AgentMaterial, Shared, VerifyIn,
                  On, Go
<1>1. ASSUME Clean(Solver, "clean_solver", "release_solver") PROVE EpisodeInvariant'
  <2>1. /\ main = "protocol" /\ at = "clean_solver" /\ at' = "release_solver"
        /\ UNCHANGED <<requested, main, teardown, unwinding>>
        /\ UNCHANGED <<plan, tearing, sealed, agent, started, stop, captured, expired, silent>>
        /\ holds' \in [Sandboxes -> SUBSET Material]
        /\ \A r \in Sandboxes : /\ holds'[r] \subseteq holds[r]
                                /\ r # Solver => sanitation'[r] = sanitation[r]
        /\ requested[Solver] # "destroy" /\ sanitation'[Solver] = "succeeded" =>
             holds'[Solver] = {}
    BY <1>1, SanitizeEffect
       DEF Clean, On, Go, EpisodeInvariant
  <2>2. EpisodeTypeOK'
    BY <2>1 DEF EpisodeInvariant, EpisodeTypeOK, PlacesAgree, CallsAreOwned
  <2>3. PlacesAgree'
    BY <2>1 DEF EpisodeInvariant, EpisodeTypeOK, PlacesAgree, CallsAreOwned
  <2>4. StagedForTheAgent'
    BY <2>1 DEF EpisodeInvariant, EpisodeTypeOK, PlacesAgree, StagedForTheAgent, CallsAreOwned
  <2>5. AgentIsConfined'
    BY <2>1 DEF EpisodeInvariant, EpisodeTypeOK, PlacesAgree, AgentIsConfined, StagedForTheAgent,
               CallsAreOwned
  <2>6. CapturedBeforeTests'
    BY <2>1 DEF EpisodeInvariant, EpisodeTypeOK, PlacesAgree, CapturedBeforeTests, CallsAreOwned
  <2>7. CleanedLast'
    BY <2>1 DEF EpisodeInvariant, EpisodeTypeOK, PlacesAgree, CleanedLast, CallsAreOwned
  <2>8. ReasonIsKept'
    BY <2>1 DEF EpisodeInvariant, EpisodeTypeOK, PlacesAgree, ReasonIsKept, CallsAreOwned
  <2>9. QED BY <2>2, <2>3, <2>4, <2>5, <2>6, <2>7, <2>8 DEF EpisodeInvariant
<1>2. ASSUME LetGoOf(Solver, "release_solver", "provision_verifier") PROVE EpisodeInvariant'
  <2>1. CASE Spare(Solver, "release_solver", "provision_verifier")
    BY <2>1, StutterEffect
       DEF Spare, EpisodeInvariant, EpisodeTypeOK, PlacesAgree, StagedForTheAgent,
           AgentIsConfined, CapturedBeforeTests, CleanedLast, ReasonIsKept
  <2>2. CASE LetGo(Solver, "release_solver")
    BY <2>2, ReleaseEffect
       DEF LetGo, ownVars, EpisodeInvariant, EpisodeTypeOK, PlacesAgree, StagedForTheAgent,
           AgentIsConfined, CapturedBeforeTests, CleanedLast, ReasonIsKept
  <2>3. CASE LetGoReturns(Solver, "release_solver", "provision_verifier")
    <3>1. /\ main = "protocol" /\ at = "release_solver"
          /\ UNCHANGED <<requested, sanitation, main, teardown>>
          /\ UNCHANGED <<plan, tearing, holds, sealed, agent, started, stop, captured, expired,
                         silent>>
      BY <2>3, ReleasedEffect DEF LetGoReturns
    <3>2. CASE unwinding' = unwinding /\ at' = "provision_verifier"
      BY <3>1, <3>2
         DEF EpisodeInvariant, EpisodeTypeOK, PlacesAgree, StagedForTheAgent, AgentIsConfined,
             CapturedBeforeTests, CleanedLast, ReasonIsKept
    <3>3. CASE unwinding' = Reason("failed") /\ at' = "leave"
      BY <3>1, <3>3
         DEF Reason, EpisodeInvariant, EpisodeTypeOK, PlacesAgree, StagedForTheAgent,
             AgentIsConfined, CapturedBeforeTests, CleanedLast, ReasonIsKept
    <3>4. QED BY <2>3, <3>2, <3>3 DEF LetGoReturns
  <2>4. QED BY <1>2, <2>1, <2>2, <2>3 DEF LetGoOf
<1>3. ASSUME ProvisionVerifier PROVE EpisodeInvariant'
  BY <1>3, AcquireEffect
     DEF ProvisionVerifier, EpisodeInvariant, EpisodeTypeOK, PlacesAgree, StagedForTheAgent,
         AgentIsConfined, CapturedBeforeTests, CleanedLast, ReasonIsKept
<1>4. ASSUME Restore PROVE EpisodeInvariant'
  BY <1>4, StutterEffect
     DEF Restore, EpisodeInvariant, EpisodeTypeOK, PlacesAgree, StagedForTheAgent,
         AgentIsConfined, CapturedBeforeTests, CleanedLast, ReasonIsKept
<1>5. ASSUME ClearTests PROVE EpisodeInvariant'
  BY <1>5, StutterEffect
     DEF ClearTests, EpisodeInvariant, EpisodeTypeOK, PlacesAgree, StagedForTheAgent,
         AgentIsConfined, CapturedBeforeTests, CleanedLast, ReasonIsKept
<1>6. ASSUME UploadTests PROVE EpisodeInvariant'
  BY <1>6, StutterEffect
     DEF UploadTests, EpisodeInvariant, EpisodeTypeOK, PlacesAgree, StagedForTheAgent,
         AgentIsConfined, CapturedBeforeTests, CleanedLast, ReasonIsKept
<1>7. ASSUME UnsealVerifier PROVE EpisodeInvariant'
  BY <1>7, StutterEffect
     DEF UnsealVerifier, EpisodeInvariant, EpisodeTypeOK, PlacesAgree, StagedForTheAgent,
         AgentIsConfined, CapturedBeforeTests, CleanedLast, ReasonIsKept
<1>8. ASSUME RunVerify PROVE EpisodeInvariant'
  BY <1>8, StutterEffect
     DEF RunVerify, EpisodeInvariant, EpisodeTypeOK, PlacesAgree, StagedForTheAgent,
         AgentIsConfined, CapturedBeforeTests, CleanedLast, ReasonIsKept
<1>9. ASSUME Clean(Verifier, "clean_verifier", "release_verifier") PROVE EpisodeInvariant'
  <2>1. /\ main = "protocol" /\ at = "clean_verifier" /\ at' = "release_verifier"
        /\ UNCHANGED <<requested, main, teardown, unwinding>>
        /\ UNCHANGED <<plan, tearing, sealed, agent, started, stop, captured, expired, silent>>
        /\ holds' \in [Sandboxes -> SUBSET Material]
        /\ \A r \in Sandboxes : /\ holds'[r] \subseteq holds[r]
                                /\ r # Verifier => sanitation'[r] = sanitation[r]
        /\ requested[Verifier] # "destroy" /\ sanitation'[Verifier] = "succeeded" =>
             holds'[Verifier] = {}
    BY <1>9, SanitizeEffect
       DEF Clean, On, Go, EpisodeInvariant
  <2>2. EpisodeTypeOK'
    BY <2>1 DEF EpisodeInvariant, EpisodeTypeOK, PlacesAgree, CallsAreOwned
  <2>3. PlacesAgree'
    BY <2>1 DEF EpisodeInvariant, EpisodeTypeOK, PlacesAgree, CallsAreOwned
  <2>4. StagedForTheAgent'
    BY <2>1 DEF EpisodeInvariant, EpisodeTypeOK, PlacesAgree, StagedForTheAgent, CallsAreOwned
  <2>5. AgentIsConfined'
    BY <2>1 DEF EpisodeInvariant, EpisodeTypeOK, PlacesAgree, AgentIsConfined, StagedForTheAgent,
               CallsAreOwned
  <2>6. CapturedBeforeTests'
    BY <2>1 DEF EpisodeInvariant, EpisodeTypeOK, PlacesAgree, CapturedBeforeTests, CallsAreOwned
  <2>7. CleanedLast'
    BY <2>1 DEF EpisodeInvariant, EpisodeTypeOK, PlacesAgree, CleanedLast, CallsAreOwned
  <2>8. ReasonIsKept'
    BY <2>1 DEF EpisodeInvariant, EpisodeTypeOK, PlacesAgree, ReasonIsKept, CallsAreOwned
  <2>9. QED BY <2>2, <2>3, <2>4, <2>5, <2>6, <2>7, <2>8 DEF EpisodeInvariant
<1>10. ASSUME LetGoOf(Verifier, "release_verifier", "leave") PROVE EpisodeInvariant'
  BY <1>10, StutterEffect, ReleaseEffect, ReleasedEffect
     DEF LetGoOf, Spare, LetGo, LetGoReturns, ownVars, Reason, EpisodeInvariant,
         EpisodeTypeOK, PlacesAgree, StagedForTheAgent, AgentIsConfined, CapturedBeforeTests,
         CleanedLast, ReasonIsKept
<1>11. QED BY <1>1, <1>2, <1>3, <1>4, <1>5, <1>6, <1>7, <1>8, <1>9, <1>10

(* An await that raises, is cancelled or is never answered; finalization. *)
LEMMA Failures ==
  ASSUME TypeOK, CallsAreOwned, EpisodeInvariant,
         (\E p \in Places : Raises(p) \/ TimesOut(p)) \/ Finalizing \/ Disturbances
  PROVE  EpisodeInvariant'
<1> USE Names DEF Setup, Agent, Scoring, Verify, Places, Material, AgentMaterial, Shared, VerifyIn,
                  On, Go
<1>1. ASSUME NEW p \in Places, Raises(p) PROVE EpisodeInvariant'
  <2>1. /\ main = "protocol" /\ main' = "protocol" /\ at = p /\ at' = Handler(p)
        /\ p \notin {"leave", "left"}
        /\ UNCHANGED <<requested, sanitation, teardown>>
        /\ UNCHANGED <<plan, tearing, sealed, started, stop, captured, silent>>
        /\ agent' = IF p = "agent" THEN "loose" ELSE agent
        /\ expired' \in BOOLEAN
        /\ holds' \in [Sandboxes -> SUBSET Material]
        /\ \A s \in Sandboxes, m \in Material : m \in holds'[s] =>
             \/ m \in holds[s]
             \/ p = "stage"    /\ s = Solver   /\ m = "setup"
             \/ p = "solution" /\ s = Solver   /\ m = "solution"
             \/ p = "upload"   /\ s = VerifyIn /\ m = "tests"
             \/ p = "verify"   /\ s = VerifyIn /\ m = "result"
        /\ unwinding' # "none"
        /\ unwinding' = IF p \in Verify \cup {"capture"} THEN Reason("failed") ELSE "failed"
    BY <1>1, ProtocolFailsEffect, PartlyDoneEffect
       DEF Raises, On, Go, EpisodeInvariant, EpisodeTypeOK
  <2>2. EpisodeTypeOK'
    BY <2>1 DEF EpisodeInvariant, EpisodeTypeOK, PlacesAgree, Handler, CallsAreOwned
  <2>3. PlacesAgree'
    BY <2>1 DEF EpisodeInvariant, EpisodeTypeOK, PlacesAgree, Handler, CallsAreOwned
  <2>4. StagedForTheAgent'
    BY <2>1 DEF EpisodeInvariant, EpisodeTypeOK, PlacesAgree, StagedForTheAgent, Handler,
               CallsAreOwned
  <2>5. AgentIsConfined'
    <3>1. agent' = "running" => agent = "running" /\ p # "agent"
      BY <2>1
    <3>2. agent' # "running"
      BY <2>1, <3>1 DEF EpisodeInvariant, AgentIsConfined
    <3>3. ASSUME agent' = "loose" PROVE p = "agent"
      BY <2>1, <3>3 DEF EpisodeInvariant, AgentIsConfined
    <3>4. ASSUME p = "agent" PROVE at' = "leave" /\ holds'[Solver] \subseteq AgentMaterial'
      <4>1. at' = "leave"
        BY <2>1, <3>4 DEF Handler, Scoring
      <4>2. holds'[Solver] \subseteq holds[Solver]
        <5>1. holds'[Solver] \subseteq Material
          BY <2>1
        <5>2. ASSUME NEW m \in holds'[Solver] PROVE m \in holds[Solver]
          BY <2>1, <3>4, <5>1, <5>2
        <5>3. QED BY <5>2
      <4>3. holds[Solver] \subseteq AgentMaterial
        BY <2>1, <3>4 DEF EpisodeInvariant, StagedForTheAgent, Agent
      <4>4. QED BY <2>1, <4>1, <4>2, <4>3 DEF AgentMaterial
    <3>5. QED BY <3>2, <3>3, <3>4 DEF AgentIsConfined
  <2>6. CapturedBeforeTests'
    BY <2>1 DEF EpisodeInvariant, EpisodeTypeOK, PlacesAgree, CapturedBeforeTests, Handler,
               CallsAreOwned
  <2>7. CleanedLast'
    <3>1. sanitation'[Solver] # "not-run" =>
            at' = "leave" \/ (~Shared' /\ at' \in Verify \ {"clean_solver"})
      BY <2>1 DEF EpisodeInvariant, CleanedLast, PlacesAgree, Handler, Shared, Verify, Scoring
    <3>2. sanitation'[Verifier] # "not-run" => at' \in {"leave", "release_verifier"}
      BY <2>1 DEF EpisodeInvariant, CleanedLast, Handler, Scoring
    <3>3. ASSUME NEW s \in Sandboxes, requested'[s] # "destroy", sanitation'[s] = "succeeded"
          PROVE  holds'[s] = {}
      <4>1. holds[s] = {}
        BY <2>1, <3>3 DEF EpisodeInvariant, CleanedLast
      <4>2. s = Solver => p \notin {"stage", "solution"} /\ (p \in {"upload", "verify"} => VerifyIn # s)
        BY <2>1, <3>3 DEF EpisodeInvariant, CleanedLast, Verify, Scoring, VerifyIn
      <4>3. s = Verifier => p \notin {"upload", "verify"}
        BY <2>1, <3>3 DEF EpisodeInvariant, CleanedLast
      <4>4. QED BY <2>1, <4>1, <4>2, <4>3
    <3>4. QED BY <3>1, <3>2, <3>3 DEF CleanedLast
  <2>8. ReasonIsKept'
    BY <2>1 DEF EpisodeInvariant, EpisodeTypeOK, PlacesAgree, ReasonIsKept, StagedForTheAgent,
               Reason, CallsAreOwned
  <2>9. QED BY <2>2, <2>3, <2>4, <2>5, <2>6, <2>7, <2>8 DEF EpisodeInvariant
<1>2. ASSUME NEW p \in Places, TimesOut(p) PROVE EpisodeInvariant'
  <2>1. /\ main = "protocol" /\ main' = "protocol" /\ at = p /\ at' = Handler(p)
        /\ p \notin {"leave", "left"}
        /\ UNCHANGED <<requested, sanitation, teardown>>
        /\ UNCHANGED <<plan, tearing, sealed, started, stop, captured, silent>>
        /\ agent' = IF p = "agent" THEN "loose" ELSE agent
        /\ expired' \in BOOLEAN
        /\ holds' \in [Sandboxes -> SUBSET Material]
        /\ \A s \in Sandboxes, m \in Material : m \in holds'[s] =>
             \/ m \in holds[s]
             \/ p = "stage"    /\ s = Solver   /\ m = "setup"
             \/ p = "solution" /\ s = Solver   /\ m = "solution"
             \/ p = "upload"   /\ s = VerifyIn /\ m = "tests"
             \/ p = "verify"   /\ s = VerifyIn /\ m = "result"
        /\ unwinding' # "none"
        /\ \/ unwinding = "cancelled" /\ unwinding' = unwinding
           \/ unwinding' = IF p \in Verify THEN Reason("timeout") ELSE "timeout"
        /\ p \in Setup \cup {"agent"} \cup Verify
    BY <1>2, ProtocolFailsEffect, StutterEffect, PartlyDoneEffect
       DEF TimesOut, HasDeadline, On, Go, EpisodeInvariant, EpisodeTypeOK
  <2>2. EpisodeTypeOK'
    BY <2>1 DEF EpisodeInvariant, EpisodeTypeOK, PlacesAgree, Handler, CallsAreOwned
  <2>3. PlacesAgree'
    BY <2>1 DEF EpisodeInvariant, EpisodeTypeOK, PlacesAgree, Handler, CallsAreOwned
  <2>4. StagedForTheAgent'
    BY <2>1 DEF EpisodeInvariant, EpisodeTypeOK, PlacesAgree, StagedForTheAgent, Handler,
               CallsAreOwned
  <2>5. AgentIsConfined'
    <3>1. agent' = "running" => agent = "running" /\ p # "agent"
      BY <2>1
    <3>2. agent' # "running"
      BY <2>1, <3>1 DEF EpisodeInvariant, AgentIsConfined
    <3>3. ASSUME agent' = "loose" PROVE p = "agent"
      BY <2>1, <3>3 DEF EpisodeInvariant, AgentIsConfined
    <3>4. ASSUME p = "agent" PROVE at' = "leave" /\ holds'[Solver] \subseteq AgentMaterial'
      <4>1. at' = "leave"
        BY <2>1, <3>4 DEF Handler, Scoring
      <4>2. holds'[Solver] \subseteq holds[Solver]
        <5>1. holds'[Solver] \subseteq Material
          BY <2>1
        <5>2. ASSUME NEW m \in holds'[Solver] PROVE m \in holds[Solver]
          BY <2>1, <3>4, <5>1, <5>2
        <5>3. QED BY <5>2
      <4>3. holds[Solver] \subseteq AgentMaterial
        BY <2>1, <3>4 DEF EpisodeInvariant, StagedForTheAgent, Agent
      <4>4. QED BY <2>1, <4>1, <4>2, <4>3 DEF AgentMaterial
    <3>5. QED BY <3>2, <3>3, <3>4 DEF AgentIsConfined
  <2>6. CapturedBeforeTests'
    BY <2>1 DEF EpisodeInvariant, EpisodeTypeOK, PlacesAgree, CapturedBeforeTests, Handler,
               CallsAreOwned
  <2>7. CleanedLast'
    <3>1. sanitation'[Solver] # "not-run" =>
            at' = "leave" \/ (~Shared' /\ at' \in Verify \ {"clean_solver"})
      BY <2>1 DEF EpisodeInvariant, CleanedLast, PlacesAgree, Handler, Shared, Verify, Scoring
    <3>2. sanitation'[Verifier] # "not-run" => at' \in {"leave", "release_verifier"}
      BY <2>1 DEF EpisodeInvariant, CleanedLast, Handler, Scoring
    <3>3. ASSUME NEW s \in Sandboxes, requested'[s] # "destroy", sanitation'[s] = "succeeded"
          PROVE  holds'[s] = {}
      <4>1. holds[s] = {}
        BY <2>1, <3>3 DEF EpisodeInvariant, CleanedLast
      <4>2. s = Solver => p \notin {"stage", "solution"} /\ (p \in {"upload", "verify"} => VerifyIn # s)
        BY <2>1, <3>3 DEF EpisodeInvariant, CleanedLast, Verify, Scoring, VerifyIn
      <4>3. s = Verifier => p \notin {"upload", "verify"}
        BY <2>1, <3>3 DEF EpisodeInvariant, CleanedLast
      <4>4. QED BY <2>1, <4>1, <4>2, <4>3
    <3>4. QED BY <3>1, <3>2, <3>3 DEF CleanedLast
  <2>8. ReasonIsKept'
    BY <2>1 DEF EpisodeInvariant, EpisodeTypeOK, PlacesAgree, ReasonIsKept, StagedForTheAgent,
               Reason, CallsAreOwned
  <2>9. QED BY <2>2, <2>3, <2>4, <2>5, <2>6, <2>7, <2>8 DEF EpisodeInvariant
<1>3. ASSUME Cancelled PROVE EpisodeInvariant'
  <2>1. /\ UNCHANGED <<requested, sanitation, teardown>>
        /\ UNCHANGED <<plan, tearing, holds, sealed, started, stop, captured, expired, silent>>
        /\ unwinding' = "cancelled"
        /\ \/ /\ main = "protocol" /\ main' = "protocol" /\ at \notin {"leave", "left"}
              /\ at' = Handler(at) /\ agent' = IF at = "agent" THEN "loose" ELSE agent
           \/ main = "awaiting_teardown" /\ main' = "finalizing" /\ UNCHANGED <<at, agent>>
    BY <1>3, SignalInProtocolEffect
       DEF Cancelled, Go
  <2>2. EpisodeTypeOK'
    <3>1. EpisodeTypeOK
      BY DEF EpisodeInvariant
    <3>2. at' \in Places
      <4>1. CASE at' = Handler(at)
        BY <3>1, <4>1 DEF EpisodeTypeOK, Handler
      <4>2. CASE at' = at
        BY <3>1, <4>2 DEF EpisodeTypeOK
      <4>3. QED BY <2>1, <4>1, <4>2
    <3>3. agent' \in {"absent", "running", "stopped", "loose"}
      BY <2>1, <3>1 DEF EpisodeTypeOK
    <3>4. QED BY <2>1, <3>1, <3>2, <3>3 DEF EpisodeTypeOK
  <2>3. PlacesAgree'
    BY <2>1 DEF EpisodeInvariant, EpisodeTypeOK, PlacesAgree, Handler, CallsAreOwned
  <2>4. StagedForTheAgent'
    BY <2>1 DEF EpisodeInvariant, EpisodeTypeOK, PlacesAgree, StagedForTheAgent, Handler,
               CallsAreOwned
  <2>5. AgentIsConfined'
    BY <2>1 DEF EpisodeInvariant, EpisodeTypeOK, PlacesAgree, AgentIsConfined, StagedForTheAgent,
               Handler, CallsAreOwned
  <2>6. CapturedBeforeTests'
    BY <2>1 DEF EpisodeInvariant, EpisodeTypeOK, PlacesAgree, CapturedBeforeTests, Handler,
               CallsAreOwned
  <2>7. CleanedLast'
    BY <2>1 DEF EpisodeInvariant, EpisodeTypeOK, PlacesAgree, CleanedLast, Handler, CallsAreOwned
  <2>8. ReasonIsKept'
    BY <2>1 DEF EpisodeInvariant, EpisodeTypeOK, PlacesAgree, ReasonIsKept, StagedForTheAgent,
               Reason, CallsAreOwned
  <2>9. QED BY <2>2, <2>3, <2>4, <2>5, <2>6, <2>7, <2>8 DEF EpisodeInvariant
<1>4. ASSUME NEW s \in Sandboxes, NEW here \in {"release_solver", "release_verifier"},
             LetGoTimesOut(s, here)
      PROVE EpisodeInvariant'
  BY <1>4, DeadlineInReleaseEffect
     DEF LetGoTimesOut, Reason, EpisodeInvariant, EpisodeTypeOK, PlacesAgree,
         StagedForTheAgent, AgentIsConfined, CapturedBeforeTests, CleanedLast, ReasonIsKept
<1>5. ASSUME NEW s \in Sandboxes, FallsSilent(s) PROVE EpisodeInvariant'
  BY <1>5, StutterEffect
     DEF FallsSilent, EpisodeInvariant, EpisodeTypeOK, PlacesAgree, StagedForTheAgent,
         AgentIsConfined, CapturedBeforeTests, CleanedLast, ReasonIsKept
<1>6. ASSUME Finalizing \/ (SignalInFinalize /\ UNCHANGED ownVars) PROVE EpisodeInvariant'
  <2>1. /\ UNCHANGED <<requested, sanitation, unwinding>> /\ UNCHANGED ownVars
        /\ main # "protocol" /\ main' # "protocol"
        /\ teardown' = teardown \/ (teardown = "running" /\ teardown' = "done")
    BY <1>6, FinalizingEffect
       DEF Finalizing
  <2>2. EpisodeTypeOK'
    BY <2>1 DEF EpisodeInvariant, EpisodeTypeOK, PlacesAgree, ownVars, CallsAreOwned
  <2>3. PlacesAgree'
    BY <2>1 DEF EpisodeInvariant, EpisodeTypeOK, PlacesAgree, ownVars, CallsAreOwned
  <2>4. StagedForTheAgent'
    BY <2>1 DEF EpisodeInvariant, EpisodeTypeOK, PlacesAgree, StagedForTheAgent, ownVars,
               CallsAreOwned
  <2>5. AgentIsConfined'
    BY <2>1 DEF EpisodeInvariant, EpisodeTypeOK, PlacesAgree, AgentIsConfined, StagedForTheAgent,
               ownVars, CallsAreOwned
  <2>6. CapturedBeforeTests'
    BY <2>1 DEF EpisodeInvariant, EpisodeTypeOK, PlacesAgree, CapturedBeforeTests, ownVars,
               CallsAreOwned
  <2>7. CleanedLast'
    BY <2>1 DEF EpisodeInvariant, EpisodeTypeOK, PlacesAgree, CleanedLast, ownVars, CallsAreOwned
  <2>8. ReasonIsKept'
    BY <2>1 DEF EpisodeInvariant, EpisodeTypeOK, PlacesAgree, ReasonIsKept, ownVars, CallsAreOwned
  <2>9. QED BY <2>2, <2>3, <2>4, <2>5, <2>6, <2>7, <2>8 DEF EpisodeInvariant
<1>7. QED BY <1>1, <1>2, <1>3, <1>4, <1>5, <1>6 DEF Disturbances

(* The teardown, and what follows it. *)
LEMMA TearingMoves ==
  ASSUME EpisodeInvariant, main # "protocol",
         UNCHANGED <<requested, sanitation, main, teardown>>,
         UNCHANGED <<plan, at, holds, sealed, agent, started, stop, captured, expired, silent>>,
         tearing # "none", tearing' \in {"releasing", "over"},
         unwinding' \in {unwinding, "failed", "timeout"}
  PROVE  EpisodeInvariant'
<1>1. EpisodeTypeOK'
  BY DEF EpisodeInvariant, EpisodeTypeOK
<1>2. PlacesAgree'
  BY DEF EpisodeInvariant, PlacesAgree, Shared
<1>3. StagedForTheAgent'
  BY DEF EpisodeInvariant, StagedForTheAgent, AgentMaterial
<1>4. AgentIsConfined'
  BY DEF EpisodeInvariant, AgentIsConfined, AgentMaterial
<1>5. CapturedBeforeTests' /\ ReasonIsKept'
  BY DEF EpisodeInvariant, CapturedBeforeTests, ReasonIsKept
<1>6. CleanedLast'
  BY DEF EpisodeInvariant, CleanedLast, Shared
<1>7. QED BY <1>1, <1>2, <1>3, <1>4, <1>5, <1>6 DEF EpisodeInvariant

(* Every step of the guarded cleanup keeps the invariant. *)
LEMMA TeardownKeeps ==
  ASSUME TypeOK, CallsAreOwned, EpisodeInvariant,
         BeginTeardown \/ EpisodeEnds \/ Teardown
  PROVE  EpisodeInvariant'
<1> USE Names DEF Setup, Agent, Scoring, Verify, Places, Material, AgentMaterial, Shared, VerifyIn,
                  On, Go
<1>1. ASSUME BeginTeardown PROVE EpisodeInvariant'
  BY <1>1, StartTeardownEffect
     DEF BeginTeardown, EpisodeInvariant, EpisodeTypeOK, PlacesAgree, StagedForTheAgent,
         AgentIsConfined, CapturedBeforeTests, CleanedLast, ReasonIsKept
<1>2. ASSUME EpisodeEnds PROVE EpisodeInvariant'
  <2>1. /\ UNCHANGED <<requested, sanitation, teardown, unwinding>> /\ UNCHANGED ownVars
        /\ main' = "finalizing"
        /\ main = "awaiting_teardown" \/ at = "left"
    BY <1>2, ProtocolEndsEffect
       DEF EpisodeEnds
  <2>2. EpisodeTypeOK'
    BY <2>1 DEF EpisodeInvariant, EpisodeTypeOK, PlacesAgree, ownVars, CallsAreOwned
  <2>3. PlacesAgree'
    BY <2>1 DEF EpisodeInvariant, EpisodeTypeOK, PlacesAgree, ownVars, CallsAreOwned
  <2>4. StagedForTheAgent'
    BY <2>1 DEF EpisodeInvariant, EpisodeTypeOK, PlacesAgree, StagedForTheAgent, ownVars,
               CallsAreOwned
  <2>5. AgentIsConfined'
    BY <2>1 DEF EpisodeInvariant, EpisodeTypeOK, PlacesAgree, AgentIsConfined, StagedForTheAgent,
               ownVars, CallsAreOwned
  <2>6. CapturedBeforeTests'
    BY <2>1 DEF EpisodeInvariant, EpisodeTypeOK, PlacesAgree, CapturedBeforeTests, ownVars,
               CallsAreOwned
  <2>7. CleanedLast'
    BY <2>1 DEF EpisodeInvariant, EpisodeTypeOK, PlacesAgree, CleanedLast, ownVars, CallsAreOwned
  <2>8. ReasonIsKept'
    BY <2>1 DEF EpisodeInvariant, EpisodeTypeOK, PlacesAgree, ReasonIsKept, ownVars, CallsAreOwned
  <2>9. QED BY <2>2, <2>3, <2>4, <2>5, <2>6, <2>7, <2>8 DEF EpisodeInvariant
<1>3. ASSUME TeardownCaptures PROVE EpisodeInvariant'
  BY <1>3, StutterEffect
     DEF TeardownCaptures, Tearing, EpisodeInvariant, EpisodeTypeOK, PlacesAgree,
         StagedForTheAgent, AgentIsConfined, CapturedBeforeTests, CleanedLast, ReasonIsKept
<1>4. ASSUME TeardownCleans PROVE EpisodeInvariant'
  <2>1. /\ teardown = "running" /\ tearing = "clean" /\ tearing' = "release"
        /\ UNCHANGED <<requested, main, teardown, unwinding>>
        /\ UNCHANGED <<plan, at, sealed, agent, started, stop, captured, expired, silent>>
        /\ holds' \in [Sandboxes -> SUBSET Material]
        /\ \A r \in Sandboxes : /\ holds'[r] \subseteq holds[r]
                                /\ r # Solver => sanitation'[r] = sanitation[r]
        /\ requested[Solver] # "destroy" /\ sanitation'[Solver] = "succeeded" => holds'[Solver] = {}
    BY <1>4, StutterEffect, SanitizeEffect
       DEF TeardownCleans, Tearing, EpisodeInvariant, EpisodeTypeOK
  <2>2. EpisodeTypeOK'
    BY <2>1 DEF EpisodeInvariant, EpisodeTypeOK, PlacesAgree, CallsAreOwned
  <2>3. PlacesAgree'
    BY <2>1 DEF EpisodeInvariant, EpisodeTypeOK, PlacesAgree, CallsAreOwned
  <2>4. StagedForTheAgent'
    BY <2>1 DEF EpisodeInvariant, EpisodeTypeOK, PlacesAgree, StagedForTheAgent, CallsAreOwned
  <2>5. AgentIsConfined'
    BY <2>1 DEF EpisodeInvariant, EpisodeTypeOK, PlacesAgree, AgentIsConfined, StagedForTheAgent,
               CallsAreOwned
  <2>6. CapturedBeforeTests'
    BY <2>1 DEF EpisodeInvariant, EpisodeTypeOK, PlacesAgree, CapturedBeforeTests, CallsAreOwned
  <2>7. CleanedLast'
    BY <2>1 DEF EpisodeInvariant, EpisodeTypeOK, PlacesAgree, CleanedLast, CallsAreOwned
  <2>8. ReasonIsKept'
    BY <2>1 DEF EpisodeInvariant, EpisodeTypeOK, PlacesAgree, ReasonIsKept, CallsAreOwned
  <2>9. QED BY <2>2, <2>3, <2>4, <2>5, <2>6, <2>7, <2>8 DEF EpisodeInvariant
<1>5. ASSUME TeardownFails PROVE EpisodeInvariant'
  <2>1. /\ UNCHANGED <<requested, sanitation, main>> /\ teardown = "running" /\ teardown' = "done"
        /\ main = "awaiting_teardown" => unwinding' = "failed"
        /\ tearing = "clean" /\ tearing' = "over"
        /\ UNCHANGED <<plan, at, sealed, agent, started, stop, captured, expired, silent>>
        /\ holds' \in [Sandboxes -> SUBSET Material]
        /\ \A r \in Sandboxes : holds'[r] \subseteq holds[r]
    BY <1>5, TeardownEndsEffect
       DEF TeardownFails, Tearing, EpisodeInvariant, EpisodeTypeOK
  <2>2. EpisodeTypeOK'
    BY <2>1 DEF EpisodeInvariant, EpisodeTypeOK, PlacesAgree, CallsAreOwned
  <2>3. PlacesAgree'
    BY <2>1 DEF EpisodeInvariant, EpisodeTypeOK, PlacesAgree, CallsAreOwned
  <2>4. StagedForTheAgent'
    BY <2>1 DEF EpisodeInvariant, EpisodeTypeOK, PlacesAgree, StagedForTheAgent, CallsAreOwned
  <2>5. AgentIsConfined'
    BY <2>1 DEF EpisodeInvariant, EpisodeTypeOK, PlacesAgree, AgentIsConfined, StagedForTheAgent,
               CallsAreOwned
  <2>6. CapturedBeforeTests'
    BY <2>1 DEF EpisodeInvariant, EpisodeTypeOK, PlacesAgree, CapturedBeforeTests, CallsAreOwned
  <2>7. CleanedLast'
    BY <2>1 DEF EpisodeInvariant, EpisodeTypeOK, PlacesAgree, CleanedLast, CallsAreOwned
  <2>8. ReasonIsKept'
    BY <2>1 DEF EpisodeInvariant, EpisodeTypeOK, PlacesAgree, ReasonIsKept, CallsAreOwned
  <2>9. QED BY <2>2, <2>3, <2>4, <2>5, <2>6, <2>7, <2>8 DEF EpisodeInvariant
<1>6. ASSUME TeardownReleases PROVE EpisodeInvariant'
  <2>1. /\ UNCHANGED <<requested, sanitation, main, teardown, unwinding>>
        /\ tearing = "release" /\ tearing' \in {"releasing", "over"} /\ teardown = "running"
    BY <1>6, StutterEffect, ReleaseEffect DEF TeardownReleases, Tearing
  <2>2. UNCHANGED <<plan, at, holds, sealed, agent, started, stop, captured, expired, silent>>
    BY <1>6 DEF TeardownReleases
  <2>3. main # "protocol"
    BY <2>1 DEF CallsAreOwned
  <2>4. QED BY <2>1, <2>2, <2>3, TearingMoves
<1>7. ASSUME TeardownReleased PROVE EpisodeInvariant'
  <2>1. /\ UNCHANGED <<requested, sanitation, main, teardown>>
        /\ tearing = "releasing" /\ tearing' = "over" /\ teardown = "running"
        /\ unwinding' \in {unwinding, "failed", "timeout"}
    BY <1>7, StutterEffect, ReleasedEffect DEF TeardownReleased, Tearing
  <2>2. UNCHANGED <<plan, at, holds, sealed, agent, started, stop, captured, expired, silent>>
    BY <1>7 DEF TeardownReleased
  <2>3. main # "protocol"
    BY <2>1 DEF CallsAreOwned
  <2>4. QED BY <2>1, <2>2, <2>3, TearingMoves
<1>8. ASSUME TeardownIsOver PROVE EpisodeInvariant'
  BY <1>8, TeardownEndsEffect
     DEF TeardownIsOver, Tearing, ownVars, CallsAreOwned, EpisodeInvariant, EpisodeTypeOK,
         PlacesAgree, StagedForTheAgent, AgentIsConfined, CapturedBeforeTests, CleanedLast,
         ReasonIsKept
<1>9. QED BY <1>1, <1>2, <1>3, <1>4, <1>5, <1>6, <1>7, <1>8 DEF Teardown

-----------------------------------------------------------------------------
(* The theorems.                                                            *)

(* An episode begins with no sandbox, no trace and no result. *)
LEMMA InitEpisodeInvariant == EpisodeInit => EpisodeInvariant
<1> SUFFICES ASSUME EpisodeInit PROVE EpisodeInvariant
  OBVIOUS
<1>1. /\ main = "protocol" /\ teardown = "idle" /\ unwinding = "none"
      /\ \A s \in Sandboxes : sanitation[s] = "not-run"
  BY DEF EpisodeInit, Init
<1>2. EpisodeTypeOK
  BY DEF EpisodeInit, EpisodeTypeOK, Places, Material
<1>3. QED
  BY <1>1, <1>2, Names
     DEF EpisodeInit, EpisodeInvariant, PlacesAgree, StagedForTheAgent, AgentIsConfined,
         CapturedBeforeTests, CleanedLast, ReasonIsKept, Verify, Scoring

(* A step that leaves the episode alone keeps the invariant. *)
LEMMA StutterKeeps ==
  ASSUME EpisodeInvariant, UNCHANGED episodeVars
  PROVE  EpisodeInvariant'
<1>1. UNCHANGED vars /\ UNCHANGED ownVars
  BY DEF episodeVars
<1>2. UNCHANGED <<requested, sanitation, main, teardown, unwinding>>
  BY <1>1, StutterEffect
<1>3. EpisodeTypeOK'
  BY <1>1 DEF ownVars, EpisodeInvariant, EpisodeTypeOK
<1>8. PlacesAgree'
  BY <1>1, <1>2 DEF ownVars, EpisodeInvariant, PlacesAgree, Shared
<1>4. StagedForTheAgent'
  BY <1>1, <1>2 DEF ownVars, EpisodeInvariant, StagedForTheAgent, AgentMaterial
<1>5. AgentIsConfined'
  BY <1>1, <1>2 DEF ownVars, EpisodeInvariant, AgentIsConfined, AgentMaterial
<1>6. CapturedBeforeTests' /\ CleanedLast' /\ ReasonIsKept'
  BY <1>1, <1>2 DEF ownVars, EpisodeInvariant, CapturedBeforeTests, CleanedLast, ReasonIsKept, Shared
<1>7. QED BY <1>3, <1>4, <1>5, <1>6, <1>8 DEF EpisodeInvariant

(* The phases of an episode keep to their order: what is staged, who runs,  *)
(* what was captured and what was cleaned agree with where run() is.        *)
THEOREM EpisodeInvariantHolds == EpisodeSpec => []EpisodeInvariant
<1>1. EpisodeInit => EpisodeInvariant
  BY InitEpisodeInvariant
<1>2. LeaseInvariant /\ EpisodeInvariant /\ [EpisodeNext]_episodeVars => EpisodeInvariant'
  <2> SUFFICES ASSUME LeaseInvariant, EpisodeInvariant, [EpisodeNext]_episodeVars
               PROVE  EpisodeInvariant'
    OBVIOUS
  <2>1. TypeOK /\ CallsAreOwned
    BY DEF LeaseInvariant
  <2>2. CASE Steps
    BY <2>1, <2>2, BeforeEvidence, Verification, Failures, TeardownKeeps DEF Steps
  <2>3. CASE Teardown
    BY <2>1, <2>3, TeardownKeeps
  <2>4. CASE Finalizing \/ Disturbances
    BY <2>1, <2>4, Failures
  <2>5. CASE UNCHANGED episodeVars
    BY <2>5, StutterKeeps
  <2>6. QED BY <2>2, <2>3, <2>4, <2>5 DEF EpisodeNext
<1>3. EpisodeSpec => []LeaseInvariant
  BY EpisodeImplementsLease, LeaseInvariantHolds, PTL DEF ImplementsLease
<1>4. QED BY <1>1, <1>2, <1>3, PTL DEF EpisodeSpec

(* Whatever fails, times out or is cancelled, and in whatever order: while  *)
(* the agent runs, or may, no test and no result is in its sandbox, and no  *)
(* solution unless it is the oracle; and it started under a closed egress.  *)
THEOREM AgentSeesOnlyItsTaskHolds == EpisodeSpec => []AgentSeesOnlyItsTask
<1>1. EpisodeInvariant => AgentSeesOnlyItsTask
  BY DEF EpisodeInvariant, AgentIsConfined, AgentSeesOnlyItsTask, StagedForTheAgent, Agent
<1>2. QED BY <1>1, EpisodeInvariantHolds, PTL

(* A sandbox that outlives its episode holds nothing of the task: neither a *)
(* second sanitation nor a teardown beside finalization undoes the first.   *)
THEOREM RetainedIsCleanHolds == EpisodeSpec => []RetainedIsClean
<1>1. LeaseInvariant /\ EpisodeInvariant => RetainedIsClean
  BY DEF LeaseInvariant, RetainedIsSanitized, EpisodeInvariant, CleanedLast, RetainedIsClean
<1>2. EpisodeSpec => []LeaseInvariant
  BY EpisodeImplementsLease, LeaseInvariantHolds, PTL DEF ImplementsLease
<1>3. QED BY <1>1, <1>2, EpisodeInvariantHolds, PTL

(* captured changes in two steps only, CaptureEvidence and the teardown's,  *)
(* and in both the tests have not reached the solver.                       *)
LEMMA OnlyCaptureCaptures ==
  ASSUME EpisodeNext, captured' # captured
  PROVE  CaptureEvidence \/ TeardownCaptures
<1> SUFFICES ASSUME ~CaptureEvidence, ~TeardownCaptures PROVE captured' = captured
  OBVIOUS
<1>1. ASSUME \/ Provision \/ ClaimSolver \/ OpenEgress \/ StageSetup \/ RunSetup \/ UploadSolution
             \/ Install \/ Seal \/ AgentEnds \/ ProvisionVerifier \/ Restore \/ ClearTests
             \/ UploadTests \/ UnsealVerifier \/ RunVerify \/ BeginTeardown \/ EpisodeEnds
      PROVE  captured' = captured
  BY <1>1 DEF Provision, ClaimSolver, OpenEgress, StageSetup, RunSetup, UploadSolution, Install,
              Seal, AgentEnds, ProvisionVerifier, Restore, ClearTests, UploadTests,
              UnsealVerifier, RunVerify, BeginTeardown, EpisodeEnds, ownVars
<1>2. ASSUME NEW s, NEW here, NEW next, Clean(s, here, next) \/ LetGoOf(s, here, next)
             \/ LetGoTimesOut(s, here) \/ FallsSilent(s)
      PROVE  captured' = captured
  BY <1>2 DEF Clean, LetGoOf, Spare, LetGo, LetGoReturns, LetGoTimesOut, FallsSilent, ownVars
<1>3. ASSUME NEW p, Raises(p) \/ TimesOut(p) PROVE captured' = captured
  BY <1>3 DEF Raises, TimesOut
<1>4. ASSUME \/ TeardownCleans \/ TeardownFails \/ TeardownReleases \/ TeardownReleased
             \/ TeardownIsOver \/ Finalizing \/ Cancelled \/ UNCHANGED ownVars
      PROVE  captured' = captured
  BY <1>4 DEF TeardownCleans, TeardownFails, TeardownReleases, TeardownReleased, TeardownIsOver,
              Finalizing, Cancelled, ownVars
<1>5. QED
  BY <1>1, <1>2, <1>3, <1>4 DEF EpisodeNext, Steps, Teardown, Disturbances

(* Evidence is what the agent left: on no path, the teardown's second try   *)
(* included, is it taken with the tests in the sandbox or the agent running.*)
THEOREM EvidencePrecedesVerificationHolds == EpisodeSpec => EvidencePrecedesVerification
<1> DEFINE Precedes == captured' # captured => "tests" \notin holds[Solver] /\ agent # "running"
<1>1. EpisodeInvariant /\ [EpisodeNext]_episodeVars => [Precedes]_episodeVars
  <2> SUFFICES ASSUME EpisodeInvariant, EpisodeNext, captured' # captured
               PROVE  "tests" \notin holds[Solver] /\ agent # "running"
    OBVIOUS
  <2>1. CASE CaptureEvidence
    <3>1. at = "capture" /\ captured' = TRUE
      BY <2>1 DEF CaptureEvidence, On
    <3>2. captured = FALSE
      BY <3>1 DEF EpisodeInvariant, EpisodeTypeOK
    <3>3. QED BY <3>1, <3>2 DEF EpisodeInvariant, CapturedBeforeTests, AgentIsConfined
  <2>2. CASE TeardownCaptures
    <3>1. tearing = "capture"
      BY <2>2 DEF TeardownCaptures, Tearing
    <3>2. at = "leave" /\ captured = FALSE
      BY <3>1 DEF EpisodeInvariant, EpisodeTypeOK, CapturedBeforeTests, PlacesAgree
    <3>3. QED BY <3>2 DEF EpisodeInvariant, CapturedBeforeTests, AgentIsConfined
  <2>3. QED BY <2>1, <2>2, OnlyCaptureCaptures
<1>2. QED BY <1>1, EpisodeInvariantHolds, PTL DEF EpisodeSpec, EvidencePrecedesVerification

(* No failure, deadline or second cancellation on the way to the teardown   *)
(* takes the place of what stopped the agent.                               *)
THEOREM StopOutlivesVerificationHolds == EpisodeSpec => StopOutlivesVerification
<1> DEFINE Outlives == main = "protocol" /\ main' = "awaiting_teardown" /\ stop # "none" =>
                         unwinding \in {"none", "cancelled", stop}
<1>1. EpisodeInvariant => Outlives
  BY DEF EpisodeInvariant, ReasonIsKept
<1>2. QED BY <1>1, EpisodeInvariantHolds, PTL DEF StopOutlivesVerification

=============================================================================
