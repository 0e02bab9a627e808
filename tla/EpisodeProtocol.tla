-------------------------- MODULE EpisodeProtocol --------------------------
(***************************************************************************)
(* protocol/episode_protocol.py, EpisodeProtocol.run: how one task becomes *)
(* one episode.  Each step is one await of the phases; a step that leases, *)
(* marks or releases a sandbox is that operation of SandboxLease, so an    *)
(* episode is a behaviour of the lease with a program that uses it.        *)
(*                                                                         *)
(* A sandbox is what it holds of the task's own material.  Commands in it  *)
(* go through one guest connection that answers them one at a time: a      *)
(* command whose processes keep its pipes open is never answered, and nor  *)
(* is anything asked after it.                                             *)
(***************************************************************************)
EXTENDS SandboxLease

CONSTANTS
  Solver,    \* the sandbox the agent works in, also the verifier's if shared
  Verifier,  \* the sandbox of a separate verifier
  Plans,     \* the runs considered: see PlanType
  Silence    \* whether a guest may stop answering

PlanType == [mode: {"shared", "separate"},
             harness: {"none", "autonomous", "policy", "oracle"},
             collect: BOOLEAN,   \* _Artifacts.enabled
             resume: BOOLEAN]    \* the solver is an earlier episode's

ASSUME EpisodeAssumption ==
  /\ Solver # Verifier /\ Sandboxes = {Solver, Verifier}
  /\ Order[Solver] < Order[Verifier]
  /\ Plans \subseteq {p \in PlanType : p.mode = "separate" => p.collect}
  /\ Silence \in BOOLEAN

Material == {"setup", "solution", "tests", "result"}

VARIABLES
  plan,
  at,        \* the await of run() main is at
  tearing,   \* the await of _teardown the inner task is at
  holds,     \* per sandbox: the material of the task in it
  sealed,    \* per sandbox: close_egress was applied last
  agent,     \* "absent", "running", "stopped", or "loose": out of control
  started,   \* ctx.agent_started
  stop,      \* ctx.agent_stop
  captured,  \* ctx.solver_evidence_captured
  expired,   \* the Host's deadline of verification has fired
  silent     \* the sandboxes whose guest does not answer any more

ownVars == <<plan, at, tearing, holds, sealed, agent, started, stop, captured, expired, silent>>
episodeVars == <<vars, ownVars>>

Shared == plan.mode = "shared"
VerifyIn == IF Shared THEN Solver ELSE Verifier

Setup    == {"open", "stage", "prepare"}
Agent    == {"solution", "install", "seal", "agent"}
Scoring  == {"restore", "clear", "upload", "unseal", "verify"}
Verify   == Scoring \cup {"clean_solver", "release_solver", "provision_verifier",
                          "clean_verifier", "release_verifier"}
Places   == Setup \cup Agent \cup Verify \cup {"provision", "claim", "capture", "leave", "left"}

EpisodeInit ==
  /\ Init
  /\ plan \in Plans
  /\ at = "provision" /\ tearing = "none"
  /\ holds = [s \in Sandboxes |-> {}]
  /\ sealed = [s \in Sandboxes |-> TRUE]
  /\ agent = "absent" /\ started = FALSE /\ stop = "none" /\ captured = FALSE /\ expired = FALSE
  /\ silent = {}

-----------------------------------------------------------------------------
On(p) == main = "protocol" /\ at = p /\ Idle("main")

(* A command in the sandbox returns; one in a sandbox that is gone raises.  *)
Up(s)      == machine[s] = "up" /\ ~closing[s]
Answers(s) == Up(s) /\ s \notin silent

Go(p) == at' = p

(* What an await of run() leads to when it raises: the verifier is cleaned  *)
(* and released by verify()'s own `finally`, provision has no handler.      *)
Handler(p) == CASE p \in {"provision", "claim"}  -> "left"
                [] p \in Scoring /\ ~Shared      -> "clean_verifier"
                [] OTHER                         -> "leave"

-----------------------------------------------------------------------------
(* Provision and setup.                                                     *)

Provision ==
  /\ On("provision") /\ Acquire(Solver)
  /\ Go(IF plan.resume THEN "claim" ELSE "open")
  /\ UNCHANGED <<plan, tearing, holds, sealed, agent, started, stop, captured, expired, silent>>

(* The agent-episode marker is checked and rewritten. *)
ClaimSolver ==
  /\ On("claim") /\ Go("open")
  /\ UNCHANGED <<vars, plan, tearing, holds, sealed, agent, started, stop, captured, expired, silent>>

(* _agent() begins, or is skipped. *)
LeaveSetup ==
  /\ started' = (plan.harness # "none")
  /\ Go(CASE plan.harness = "none"   -> "capture"
          [] plan.harness = "oracle" -> "solution"
          [] OTHER                   -> "install")

OpenEgress ==
  /\ On("open")
  /\ sealed' = [sealed EXCEPT ![Solver] = FALSE]
  /\ \/ Go("stage") /\ UNCHANGED started
     \/ LeaveSetup
  /\ UNCHANGED <<vars, plan, tearing, holds, agent, stop, captured, expired, silent>>

(* Mutant: the whole folder of the task is staged, tests included. *)
StageWholeFolder ==
  /\ On("stage") /\ Answers(Solver)
  /\ holds' = [holds EXCEPT ![Solver] = @ \cup {"setup", "tests"}]
  /\ \/ Go("prepare") /\ UNCHANGED started
     \/ LeaveSetup
  /\ UNCHANGED <<vars, plan, tearing, sealed, agent, stop, captured, expired, silent>>

StageSetup ==
  /\ On("stage") /\ Answers(Solver)
  /\ holds' = [holds EXCEPT ![Solver] = @ \cup {"setup"}]
  /\ \/ Go("prepare") /\ UNCHANGED started
     \/ LeaveSetup
  /\ UNCHANGED <<vars, plan, tearing, sealed, agent, stop, captured, expired, silent>>

RunSetup ==
  /\ On("prepare") /\ Answers(Solver)
  /\ LeaveSetup
  /\ UNCHANGED <<vars, plan, tearing, holds, sealed, agent, stop, captured, expired, silent>>

-----------------------------------------------------------------------------
(* The agent.                                                               *)

UploadSolution ==
  /\ On("solution") /\ Answers(Solver)
  /\ holds' = [holds EXCEPT ![Solver] = @ \cup {"solution"}]
  /\ Go("install")
  /\ UNCHANGED <<vars, plan, tearing, sealed, agent, started, stop, captured, expired, silent>>

Install ==
  /\ On("install") /\ Answers(Solver)
  /\ Go("seal")
  /\ UNCHANGED <<vars, plan, tearing, holds, sealed, agent, started, stop, captured, expired, silent>>

(* Mutant: what the declared policy says is recorded, not applied. *)
RecordSealOnly ==
  /\ On("seal")
  /\ agent' = "running"
  /\ Go("agent")
  /\ UNCHANGED <<vars, plan, tearing, holds, sealed, started, stop, captured, expired, silent>>

(* close_egress(), the record of it, and the launch or the rollout. *)
Seal ==
  /\ On("seal")
  /\ sealed' = [sealed EXCEPT ![Solver] = TRUE]
  /\ agent' = "running"
  /\ Go("agent")
  /\ UNCHANGED <<vars, plan, tearing, holds, started, stop, captured, expired, silent>>

(* The guest says that the agent ended, or that it ended it at its deadline *)
(* (autonomous, oracle); a policy is stopped on the Host, at any await.     *)
AgentEnds ==
  /\ stop' \in {"none", "timeout", "failed"}
  /\ \/ On("agent") /\ Answers(Solver)
     \/ /\ plan.harness = "policy" /\ stop' # "none"
        /\ On("install") \/ On("seal") \/ On("agent")
  /\ agent' = "stopped"
  /\ Go("capture")
  /\ UNCHANGED <<vars, plan, tearing, holds, sealed, started, captured, expired, silent>>

(* A command of the task or the agent is never answered. *)
FallsSilent(s) ==
  /\ Silence /\ Answers(s)
  /\ \/ s = Solver /\ (On("prepare") \/ On("agent"))
     \/ s = VerifyIn /\ On("verify")
  /\ silent' = silent \cup {s}
  /\ UNCHANGED <<vars, plan, at, tearing, holds, sealed, agent, started, stop, captured, expired>>

-----------------------------------------------------------------------------
(* Evidence and verification.                                               *)

(* Copying artifacts asks the guest; the log copy has a bound of its own.   *)
Collects == plan.collect => Solver \notin silent

AfterCapture == IF Shared THEN "clear" ELSE "clean_solver"

(* Mutant: the evidence is captured when verification has begun. *)
CaptureLater ==
  /\ On("capture") /\ Collects
  /\ Go(AfterCapture)
  /\ UNCHANGED <<vars, plan, tearing, holds, sealed, agent, started, stop, captured, expired, silent>>

CaptureEvidence ==
  /\ On("capture") /\ Collects
  /\ captured' = TRUE
  /\ Go(AfterCapture)
  /\ UNCHANGED <<vars, plan, tearing, holds, sealed, agent, started, stop, expired, silent>>

(* Mutant: sanitation leaves the verifier's result. *)
SanitizeKeepingResult(t, s) ==
  /\ MarkSanitized(t, s)
  /\ \/ /\ requested[s] = "destroy" /\ sanitation'[s] = "succeeded"
        /\ UNCHANGED holds
     \/ /\ requested[s] # "destroy" /\ Answers(s)
        /\ \E gone \in SUBSET holds[s] :
             /\ holds' = [holds EXCEPT ![s] = @ \ gone]
             /\ sanitation'[s] = "succeeded" => gone = holds[s] \ {"result"}

(* _sanitize_for_retention: a sandbox that is to be destroyed is only       *)
(* marked; in another the task's material is removed, all of it or it fails.*)
Sanitize(t, s) ==
  /\ MarkSanitized(t, s)
  /\ \/ /\ requested[s] = "destroy" /\ sanitation'[s] = "succeeded"
        /\ UNCHANGED holds
     \/ /\ requested[s] # "destroy" /\ Answers(s)
        /\ \E gone \in SUBSET holds[s] :
             /\ holds' = [holds EXCEPT ![s] = @ \ gone]
             /\ sanitation'[s] = "succeeded" => gone = holds[s]

Clean(s, here, next) ==
  /\ On(here) /\ Sanitize("main", s)
  /\ Go(next)
  /\ UNCHANGED <<plan, tearing, sealed, agent, started, stop, captured, expired, silent>>

(* release() in verify(): what it leaves alone, its call and its return.    *)
Spare(s, here, next) ==
  /\ On(here)
  /\ s \notin live \/ KeepsForRetention(s)
  /\ Go(next)
  /\ UNCHANGED <<vars, plan, tearing, holds, sealed, agent, started, stop, captured, expired, silent>>

LetGo(s, here) == On(here) /\ Release("main", s) /\ UNCHANGED ownVars

(* Mutant: a failure to verify takes the place of what stopped the agent. *)
AnyReason(raised) == raised

(* What stopped the agent stays the reason, whatever fails after it. *)
Reason(raised) == IF stop = "none" THEN raised ELSE stop

LetGoReturns(s, here, next) ==
  /\ main = "protocol" /\ at = here /\ Released("main", s)
  /\ \/ unwinding' = unwinding /\ Go(next)
     \/ unwinding' = Reason("failed") /\ Go("leave")
  /\ UNCHANGED <<plan, tearing, holds, sealed, agent, started, stop, captured, expired, silent>>

LetGoOf(s, here, next) ==
  Spare(s, here, next) \/ LetGo(s, here) \/ LetGoReturns(s, here, next)

(* The deadline of verification cancels the destroy a release awaits. *)
LetGoTimesOut(s, here) ==
  /\ at = here /\ ~expired /\ DeadlineInRelease(s)
  /\ unwinding # "cancelled" => unwinding' = Reason("timeout")
  /\ expired' = TRUE
  /\ Go("leave")
  /\ UNCHANGED <<plan, tearing, holds, sealed, agent, started, stop, captured, silent>>

(* Mutant: the verifier is booted, but the lease does not know of it. *)
BootVerifier ==
  /\ On("provision_verifier") /\ unwinding = "none"
  /\ machine' = [machine EXCEPT ![Verifier] = "up"]
  /\ Go("restore")
  /\ UNCHANGED <<runVars, leaseVars, closing, saved, call, mainVars, teardown, unwinding,
                 disturbed, plan, tearing, holds, sealed, agent, started, stop, captured,
                 expired, silent>>

ProvisionVerifier ==
  /\ On("provision_verifier") /\ Acquire(Verifier)
  /\ Go("restore")
  /\ UNCHANGED <<plan, tearing, holds, sealed, agent, started, stop, captured, expired, silent>>

Restore ==
  /\ On("restore") /\ Answers(Verifier)
  /\ Go("clear")
  /\ UNCHANGED <<vars, plan, tearing, holds, sealed, agent, started, stop, captured, expired, silent>>

(* The tests stage and the verifier directory are emptied. *)
ClearTests ==
  /\ On("clear") /\ Answers(VerifyIn)
  /\ holds' = [holds EXCEPT ![VerifyIn] = @ \ {"tests", "result"}]
  /\ Go("upload")
  /\ UNCHANGED <<vars, plan, tearing, sealed, agent, started, stop, captured, expired, silent>>

UploadTests ==
  /\ On("upload") /\ Answers(VerifyIn)
  /\ holds' = [holds EXCEPT ![VerifyIn] = @ \cup {"tests"}]
  /\ Go("unseal")
  /\ UNCHANGED <<vars, plan, tearing, sealed, agent, started, stop, captured, expired, silent>>

UnsealVerifier ==
  /\ On("unseal")
  /\ sealed' = [sealed EXCEPT ![VerifyIn] = FALSE]
  /\ Go("verify")
  /\ UNCHANGED <<vars, plan, tearing, holds, agent, started, stop, captured, expired, silent>>

RunVerify ==
  /\ On("verify") /\ Answers(VerifyIn)
  /\ holds' = [holds EXCEPT ![VerifyIn] = @ \cup {"result"}]
  /\ Go(IF Shared THEN "leave" ELSE "clean_verifier")
  /\ UNCHANGED <<vars, plan, tearing, sealed, agent, started, stop, captured, expired, silent>>

-----------------------------------------------------------------------------
(* An await that raises.                                                    *)

(* Where a deadline of the Host runs: setup, an autonomous agent's backstop,*)
(* verification until its deadline has fired.                               *)
HasDeadline(p) == \/ p \in Setup
                  \/ p \in Verify /\ ~expired
                  \/ p = "agent" /\ plan.harness # "policy"

(* The sandbox whose guest is asked, if any: there an await only ends with  *)
(* the deadline once the guest is silent.                                   *)
Asked(p) == CASE p \in {"stage", "prepare", "agent"} -> {Solver}
              [] p \in {"restore", "clear", "upload", "verify"} -> {VerifyIn}
              [] p = "clean_solver"   -> {s \in {Solver} : requested[s] # "destroy"}
              [] p = "clean_verifier" -> {s \in {Verifier} : requested[s] # "destroy"}
              [] p = "capture"        -> {s \in {Solver} : plan.collect}
              [] OTHER -> {}

(* A step that raises has done part of what it does. *)
PartlyDone(p) ==
  CASE p \in {"clean_solver", "clean_verifier"} ->
         \E s \in Asked(p), gone \in SUBSET Material : holds' = [holds EXCEPT ![s] = @ \ gone]
    [] p = "stage"    -> \E new \in {{}, {"setup"}} : holds' = [holds EXCEPT ![Solver] = @ \cup new]
    [] p = "solution" -> \E new \in {{}, {"solution"}} : holds' = [holds EXCEPT ![Solver] = @ \cup new]
    [] p = "upload"   -> \E new \in {{}, {"tests"}} : holds' = [holds EXCEPT ![VerifyIn] = @ \cup new]
    [] p = "verify"   -> \E new \in {{}, {"result"}} : holds' = [holds EXCEPT ![VerifyIn] = @ \cup new]
    [] OTHER -> UNCHANGED holds

Raises(p) ==
  /\ On(p)
  /\ p \notin {"leave", "left", "release_solver", "release_verifier"}
  /\ p \in {"clean_solver", "clean_verifier"} => Asked(p) # {}
  /\ ProtocolFails
  /\ Asked(p) \cap silent = {}
  /\ unwinding' = IF p \in Verify \cup {"capture"} THEN Reason("failed") ELSE "failed"
  /\ PartlyDone(p)
  /\ Go(Handler(p))
  /\ agent' = IF p = "agent" THEN "loose" ELSE agent
  /\ UNCHANGED <<plan, tearing, sealed, started, stop, captured, expired, silent>>

(* The Host's deadline ends the await; verification has one for all of its  *)
(* awaits, and a guest may report that it kept to what is left of it.       *)
TimesOut(p) ==
  /\ On(p) /\ HasDeadline(p)
  /\ p \notin {"release_solver", "release_verifier"}
  /\ p \in {"clean_solver", "clean_verifier"} => Asked(p) # {}
  /\ IF unwinding = "cancelled" THEN UNCHANGED vars
     ELSE ProtocolFails /\ unwinding' = IF p \in Verify THEN Reason("timeout") ELSE "timeout"
  /\ PartlyDone(p)
  /\ expired' \in IF p = "verify" /\ Answers(VerifyIn) THEN BOOLEAN ELSE {p \in Verify}
  /\ Go(Handler(p))
  /\ agent' = IF p = "agent" THEN "loose" ELSE agent
  /\ UNCHANGED <<plan, tearing, sealed, started, stop, captured, silent>>

(* The task is cancelled at an await, or while it waits for the teardown.   *)
Cancelled ==
  /\ SignalInProtocol
  /\ \/ /\ main = "protocol" /\ at \notin {"leave", "left"}
        /\ Go(Handler(at))
        /\ agent' = IF at = "agent" THEN "loose" ELSE agent
     \/ main = "awaiting_teardown" /\ UNCHANGED <<at, agent>>
  /\ UNCHANGED <<plan, tearing, holds, sealed, started, stop, captured, expired, silent>>

-----------------------------------------------------------------------------
(* The teardown, and what follows it.                                       *)

BeginTeardown ==
  /\ On("leave") /\ StartTeardown
  /\ tearing' = IF started /\ ~captured THEN "capture" ELSE "clean"
  /\ UNCHANGED <<plan, at, holds, sealed, agent, started, stop, captured, expired, silent>>

Tearing(p) == teardown = "running" /\ tearing = p

(* Best effort: what it raises is swallowed. *)
TeardownCaptures ==
  /\ Tearing("capture") /\ Collects
  /\ captured' \in {TRUE, captured}
  /\ tearing' = "clean"
  /\ UNCHANGED <<vars, plan, at, holds, sealed, agent, started, stop, expired, silent>>

TeardownCleans ==
  /\ Tearing("clean") /\ Idle("teardown")
  /\ \/ Sanitize("teardown", Solver)
     \/ requested[Solver] = "destroy" /\ Solver \notin live /\ UNCHANGED <<vars, holds>>
  /\ tearing' = "release"
  /\ UNCHANGED <<plan, at, sealed, agent, started, stop, captured, expired, silent>>

(* A command of the sanitation fails, or there is no sandbox to run it in. *)
TeardownFails ==
  /\ Tearing("clean") /\ requested[Solver] # "destroy"
  /\ Up(Solver) => Answers(Solver)
  /\ \E gone \in SUBSET holds[Solver] : holds' = [holds EXCEPT ![Solver] = @ \ gone]
  /\ TeardownEnds
  /\ main = "awaiting_teardown" => unwinding' = "failed"
  /\ tearing' = "over"
  /\ UNCHANGED <<plan, at, sealed, agent, started, stop, captured, expired, silent>>

(* Mutant: the teardown takes it that there is something to destroy. *)
AlwaysReleases ==
  /\ Tearing("release")
  /\ Release("teardown", Solver) /\ tearing' = "releasing"
  /\ UNCHANGED <<plan, at, holds, sealed, agent, started, stop, captured, expired, silent>>

TeardownReleases ==
  /\ Tearing("release")
  /\ \/ /\ Solver \notin live \/ KeepsForRetention(Solver)
        /\ tearing' = "over" /\ UNCHANGED vars
     \/ Release("teardown", Solver) /\ tearing' = "releasing"
  /\ UNCHANGED <<plan, at, holds, sealed, agent, started, stop, captured, expired, silent>>

(* The release returned at once from a destroyed sandbox, or its call ends. *)
TeardownReleased ==
  /\ Tearing("releasing")
  /\ \/ Idle("teardown") /\ UNCHANGED vars
     \/ Released("teardown", Solver)
  /\ tearing' = "over"
  /\ UNCHANGED <<plan, at, holds, sealed, agent, started, stop, captured, expired, silent>>

TeardownIsOver ==
  /\ Tearing("over") /\ UNCHANGED <<unwinding, ownVars>> /\ TeardownEnds

(* The score is computed, then what stopped the agent is raised. *)
EpisodeEnds ==
  /\ main = "awaiting_teardown" \/ at = "left"
  /\ ProtocolEnds
  /\ unwinding = "none" => verdict' \in {"failed", IF stop = "none" THEN "completed" ELSE stop}
  /\ UNCHANGED ownVars

-----------------------------------------------------------------------------
Steps ==
  \/ Provision \/ ClaimSolver \/ OpenEgress \/ StageSetup \/ RunSetup
  \/ UploadSolution \/ Install \/ Seal \/ AgentEnds
  \/ CaptureEvidence
  \/ Clean(Solver, "clean_solver", "release_solver")
  \/ LetGoOf(Solver, "release_solver", "provision_verifier")
  \/ ProvisionVerifier \/ Restore \/ ClearTests \/ UploadTests \/ UnsealVerifier \/ RunVerify
  \/ Clean(Verifier, "clean_verifier", "release_verifier")
  \/ LetGoOf(Verifier, "release_verifier", "leave")
  \/ \E p \in Places : Raises(p) \/ TimesOut(p)
  \/ BeginTeardown \/ EpisodeEnds

Teardown == TeardownCaptures \/ TeardownCleans \/ TeardownFails \/ TeardownReleases
            \/ TeardownReleased \/ TeardownIsOver

Finalizing ==
  /\ \/ FinalizeEnds \/ ReleaseEnds \/ Record \/ UndoEnds
     \/ \E s \in Sandboxes : \/ FinalizeEntry(s) \/ RetainReturns(s) \/ SnapshotReturns(s)
                             \/ FinalizeDestroyed(s) \/ ReleaseEntry(s) \/ ReleaseDestroyed(s)
                             \/ UndoEntry(s) \/ UndoReturns(s)
     \/ LoopCloses
  /\ UNCHANGED ownVars

Disturbances ==
  \/ LetGoTimesOut(Solver, "release_solver") \/ LetGoTimesOut(Verifier, "release_verifier")
  \/ Cancelled
  \/ SignalInFinalize /\ UNCHANGED ownVars
  \/ \E s \in Sandboxes : FallsSilent(s)

EpisodeNext == Steps \/ Teardown \/ Finalizing \/ Disturbances

EpisodeSpec == EpisodeInit /\ [][EpisodeNext]_episodeVars

(* An await returns or raises unless it asks a silent guest without a       *)
(* deadline; main and the teardown are scheduled independently.             *)
FairEpisodeSpec ==
  EpisodeSpec /\ WF_episodeVars(Steps) /\ WF_episodeVars(Teardown) /\ WF_episodeVars(Finalizing)

-----------------------------------------------------------------------------
EpisodeTypeOK ==
  /\ plan \in Plans
  /\ at \in Places
  /\ tearing \in {"none", "capture", "clean", "release", "releasing", "over"}
  /\ holds \in [Sandboxes -> SUBSET Material]
  /\ sealed \in [Sandboxes -> BOOLEAN]
  /\ agent \in {"absent", "running", "stopped", "loose"}
  /\ started \in BOOLEAN
  /\ stop \in {"none", "timeout", "failed"}
  /\ captured \in BOOLEAN
  /\ expired \in BOOLEAN
  /\ silent \subseteq Sandboxes

(* The inductive invariant behind EpisodeProtocolProofs, in parts.          *)

AgentMaterial == {"setup"} \cup (IF plan.harness = "oracle" THEN {"solution"} ELSE {})

(* The program runs at main's await until main leaves it, then the teardown.*)
PlacesAgree ==
  /\ at = "left" => unwinding # "none" /\ teardown = "idle"
  /\ main # "protocol" => at \in {"leave", "left"}
  /\ tearing # "none" => at = "leave" /\ teardown # "idle"
  /\ at \in Verify \ {"clear", "upload", "unseal", "verify"} => ~Shared
  /\ unwinding # "none" /\ main = "protocol" =>
       at \in {"clean_verifier", "release_verifier", "leave", "left"}

(* Until the agent has ended, the solver holds what the agent may see. *)
StagedForTheAgent ==
  /\ at \in Setup \cup Agent \cup {"provision", "claim"} =>
       holds[Solver] \subseteq AgentMaterial /\ stop = "none"
  /\ at = "solution" => plan.harness = "oracle"

AgentIsConfined ==
  /\ agent = "running" => at = "agent" /\ sealed[Solver]
  /\ agent = "loose"   => at = "leave" /\ holds[Solver] \subseteq AgentMaterial

(* Verification works on what the evidence was taken from. *)
CapturedBeforeTests ==
  /\ at \in Verify => captured
  /\ "tests" \in holds[Solver] => captured
  /\ tearing = "capture" => ~captured

(* What was cleaned is not written to again, and only what was cleaned and  *)
(* asked for stays.                                                         *)
CleanedLast ==
  /\ sanitation[Solver] # "not-run" =>
       at = "leave" \/ (~Shared /\ at \in Verify \ {"clean_solver"})
  /\ sanitation[Verifier] # "not-run" => at \in {"leave", "release_verifier"}
  /\ \A s \in Sandboxes : requested[s] # "destroy" /\ sanitation[s] = "succeeded" => holds[s] = {}

ReasonIsKept ==
  main = "protocol" /\ stop # "none" => unwinding \in {"none", "cancelled", stop}

EpisodeInvariant ==
  /\ EpisodeTypeOK
  /\ PlacesAgree
  /\ StagedForTheAgent
  /\ AgentIsConfined
  /\ CapturedBeforeTests
  /\ CleanedLast
  /\ ReasonIsKept

(* "verification and oracle material is absent while the evaluated agent    *)
(* runs", and the agent runs under the network policy of the task           *)
(* (episode_protocol.py, _upload_oracle, _verify, _seal).  An agent the     *)
(* Host lost control of is still running.                                   *)
AgentSeesOnlyItsTask ==
  /\ agent \in {"running", "loose"} =>
       holds[Solver] \subseteq AgentMaterial
  /\ agent = "running" => sealed[Solver]

(* A sandbox handed on, running or as a disk, holds nothing of the task, so *)
(* that a continued episode starts without it (_sanitize_for_retention).    *)
RetainedIsClean == \A s \in Sandboxes : s \in retained \/ saved[s] => holds[s] = {}

(* Evidence is what the agent left, not what verification put there: it is  *)
(* captured while no test is in the sandbox (_capture_solver_evidence).     *)
EvidencePrecedesVerification ==
  [][captured' # captured => "tests" \notin holds[Solver] /\ agent # "running"]_episodeVars

(* "What stopped the agent stays the reason this Episode has no score": the *)
(* protocol enters the teardown with it, or with a cancellation.            *)
StopOutlivesVerification ==
  [][main = "protocol" /\ main' = "awaiting_teardown" /\ stop # "none" =>
       unwinding \in {"none", "cancelled", stop}]_episodeVars

(* Every step of an episode is a step of the lease or leaves it alone.      *)
ImplementsLease == Spec

(* Every path out ends, with every phase and the teardown over, as long as  *)
(* the guests answer.                                                       *)
AnsweredEpisodesEnd == [](silent = {}) => <>Over

(* "every phase has a deadline, and teardown happens on every path out"     *)
EveryEpisodeEnds == <>Over
=============================================================================
