------------------------------- MODULE Judges -------------------------------
(***************************************************************************)
(* A Task's verifier with its Judges (packages/ale-verify), and what the   *)
(* Host makes of its end (protocol/episode_protocol.py, _verify).  The     *)
(* verifier makes judge calls one after the other, writes its result and   *)
(* exits; it may be killed at any moment, as by the phase's deadline.      *)
(*                                                                         *)
(* Time counts in ticks of the verification budget.  A prompt is what it   *)
(* adds to the Task's: nothing (0), or what was wrong with attempt n.  A   *)
(* native session has the number of the attempt that began it.             *)
(***************************************************************************)
EXTENDS Integers, Sequences, FiniteSets

CONSTANTS
  Budgets,      \* ALE_VERIFY_DEADLINE_SECONDS; NoBudget when it is not set
  NoBudget,
  Margin,       \* _DEADLINE_MARGIN_SECONDS
  MaxDelay,     \* the longest backoff
  Repairs,      \* REPAIRS
  PlainRetries, \* RETRIES_WITHOUT_DEADLINE
  MaxLimit,     \* bound: times the output limit can be lowered
  MaxJudges,    \* bound: judge calls of one verifier
  MaxResults    \* bound: results it writes

(* A backoff takes time; budgets and counts are numbers.                    *)
ASSUME JudgesAssumption ==
  /\ Budgets \subseteq Int /\ NoBudget \in Int /\ Margin \in Int
  /\ MaxDelay \in Nat \ {0} /\ Repairs \in Nat /\ PlainRetries \in Nat /\ MaxLimit \in Nat

VARIABLES
  budget,   \* the budget the verifier was started with
  clock,    \* ticks since then
  verifier, \* what its process is doing
  ask,      \* the last judge call
  journal,  \* how the invocations in the journals ended
  files,    \* the result in verification.json and reward.json, 0 if there is none
  results,  \* results begun
  cause,    \* what raised the exception on its way, or the non-zero exit
  verdict   \* what the Host concluded

callVars   == <<ask, journal>>
resultVars == <<files, results>>
judgeVars  == <<budget, clock, verifier, callVars, resultVars, cause, verdict>>

NoAsk == [kind |-> "none", attempts |-> <<>>, repair |-> FALSE, repairs |-> 0,
          failures |-> 0, session |-> 0, until |-> 0, limit |-> MaxLimit, end |-> "none"]

JudgesInit ==
  /\ budget \in Budgets /\ clock = 0
  /\ verifier = "working" /\ ask = NoAsk /\ journal = <<>>
  /\ files = [record |-> 0, reward |-> 0] /\ results = 0
  /\ cause = "none" /\ verdict = "none"

Deadline == budget # NoBudget
TimeLeft == budget - clock - Margin
After(d) == IF Deadline THEN clock + d ELSE 0

-----------------------------------------------------------------------------
(* What one request of an LLM Judge brings, in the order the code looks.    *)
Transport == {"answered", "retryable_status", "other_status", "lost", "silent", "malformed"}
StreamEnds == {"last_event", "error_event", "cut"}       \* of an event stream
Texts     == {"valid", "refusal", "empty", "off_schema", "credential"}

Post(t) == CASE t = "answered"     -> "answered"
             [] t = "other_status" -> "rejected"
             [] t = "silent"       -> "timed_out"
             [] OTHER              -> "failed"
ReadStream(e)   == IF e = "last_event" THEN "answered" ELSE "failed"
ResponseText(x) == CASE x = "valid"   -> "completed"
                     [] x = "refusal" -> "refused"
                     [] OTHER         -> "invalid"

LlmOutcome(t, e, x) == IF Post(t) # "answered" THEN Post(t)
                       ELSE IF ReadStream(e) # "answered" THEN ReadStream(e)
                       ELSE ResponseText(x)
LlmOutcomes == {LlmOutcome(t, e, x) : t \in Transport, e \in StreamEnds, x \in Texts}

Transient == {"failed", "timed_out"}     \* _Transient; a failing or timed-out CLI
Unusable  == {"invalid", "refused"}

(* What one run of an agent Judge's CLI brings: an exit code and a stream   *)
(* of events, of which the last turn decides; the session it names, its     *)
(* final response.  Codex names a new session by itself; a resumed one must *)
(* be confirmed, and Claude's always.                                       *)
NativeError(events) == events # <<>> /\ events[Len(events)] = "error"
FailedRun(code, events) == code # 0 \/ NativeError(events)
Exits == {"no_start"} \cup {IF FailedRun(code, events) THEN "error" ELSE "ended" :
            code \in {0, 1}, events \in UNION {[1..n -> {"turn", "error"}] : n \in 0..2}}

NamedSessions == {"right", "other", "none"}
Confirmed(n) == \/ n = "right"
                \/ ask.kind = "codex-cli" /\ ask.session = 0
Session(n)   == IF ask.session # 0 \/ n = "none" THEN ask.session ELSE Len(ask.attempts) + 1
AgentOutcome(e, n, x) ==
  CASE e = "error"    -> "failed"
    [] e = "no_start" -> "rejected"
    [] e = "ended"    -> IF ~Confirmed(n) THEN "rejected"
                         ELSE IF x = "valid" /\ Session(n) # 0 THEN "completed" ELSE "invalid"

-----------------------------------------------------------------------------
(* One judge call. *)
Agentic == ask.kind \in {"codex-cli", "claude-code"}
Index   == Len(ask.attempts) + 1
Mode    == IF Index = 1 THEN "initial" ELSE IF ask.repair THEN "schema_repair" ELSE "retry"

(* A repair names the last error, whatever attempt it is of. *)
Prompt  == IF ask.repair THEN Len(ask.attempts) ELSE 0

FailsWith(status, by) ==
  /\ journal' = Append(journal, status) /\ cause' = by
  /\ verifier' = "raised" /\ ask' = [NoAsk EXCEPT !.limit = ask.limit]
  /\ UNCHANGED <<budget, clock, resultVars, verdict>>

(* A missing configuration or bad evidence fails the call before it has an  *)
(* invocation.                                                              *)
Misasked ==
  /\ verifier = "working" /\ Len(journal) < MaxJudges
  /\ FailsWith("no_invocation", "task")

(* The CLI of the exact version, installed with npm when it is not there.   *)
CliVersions == {"wanted", "other", "none"}
EnsureBinary(installed, npm, fetched) == installed = "wanted" \/ (npm /\ fetched = "wanted")

(* An attempt that seems to end before it began, as when the guest sets its *)
(* clock, is no valid record: the call fails without an invocation.         *)
ClockSet == verifier = "sent" /\ FailsWith("no_invocation", "task")

(* A missing key, privilege, workspace or CLI fails an attempt that was     *)
(* never made.                                                              *)
Ask(k) ==
  /\ verifier = "working" /\ Len(journal) < MaxJudges
  /\ \E ready, npm \in BOOLEAN, installed, fetched \in CliVersions :
       IF ready /\ (k = "llm" \/ EnsureBinary(installed, npm, fetched))
         THEN /\ verifier' = "asking"
              /\ ask' = [NoAsk EXCEPT !.kind = k, !.end = "open", !.limit = ask.limit]
              /\ UNCHANGED <<budget, clock, journal, resultVars, cause, verdict>>
         ELSE FailsWith("failed", "judge")

(* JudgeError: the journal names the invocation and its attempts. *)
GiveUp(tried) ==
  /\ ask' = [tried EXCEPT !.end = "failed"]
  /\ journal' = Append(journal, "failed")
  /\ verifier' = "raised" /\ cause' = "judge"
  /\ UNCHANGED <<budget, clock, resultVars, verdict>>

Continue(next, state) ==
  /\ ask' = next /\ verifier' = state
  /\ UNCHANGED <<budget, clock, journal, resultVars, cause, verdict>>

(* The next attempt.  An agent Judge makes none without time; Claude is     *)
(* given a session unless it resumes one.                                   *)
Send ==
  /\ verifier = "asking"
  /\ IF Agentic /\ Index > 1 /\ Deadline /\ TimeLeft <= 0 THEN GiveUp(ask)
     ELSE Continue([ask EXCEPT
            !.session = IF ask.kind = "claude-code" /\ @ = 0 THEN Index ELSE @,
            !.until   = After(IF TimeLeft > 1 THEN TimeLeft ELSE 1)], "sent")

(* The attempt, with the session its command asked for. *)
Attempted(o) == [ask EXCEPT !.attempts = Append(@,
  [mode |-> Mode, prompt |-> Prompt, outcome |-> o, session |-> ask.session])]

(* Mutant: failures are counted whether or not there is a budget. *)
MayRetryCounted(failures, delay) ==
  /\ failures <= PlainRetries
  /\ Deadline => TimeLeft >= delay

(* _wait_to_retry: with a budget only what is left of it counts. *)
MayRetry(failures, delay) ==
  IF Deadline THEN TimeLeft >= delay ELSE failures <= PlainRetries

WaitToRetry(tried) ==
  \E delay \in 1 .. MaxDelay :
    IF MayRetry(tried.failures, delay)
      THEN Continue([tried EXCEPT !.until = After(delay)], "waiting")
      ELSE GiveUp(tried)

Completes(tried) ==
  /\ ask' = [tried EXCEPT !.end = "completed"]
  /\ journal' = Append(journal, "completed")
  /\ verifier' = "working"
  /\ UNCHANGED <<budget, clock, resultVars, cause, verdict>>

(* A provider that refuses max_tokens is asked again with less, within the  *)
(* attempt; the limit found is kept for the process.                        *)
LowerLimit ==
  /\ verifier = "sent" /\ ask.kind = "llm" /\ ask.limit > 0
  /\ Continue([ask EXCEPT !.limit = @ - 1], "sent")

(* An LLM Judge's loop after one request.  A transient failure leaves the   *)
(* decision to repair as it was.                                            *)
LlmAnswered ==
  /\ verifier = "sent" /\ ask.kind = "llm"
  /\ \E o \in LlmOutcomes :
       LET tried == Attempted(o) IN
       CASE o = "completed" -> Completes(tried)
         [] o \in Transient -> WaitToRetry([tried EXCEPT !.failures = @ + 1])
         [] o \in Unusable /\ ask.repairs < Repairs ->
              Continue([tried EXCEPT !.repairs = @ + 1, !.repair = (o = "invalid")], "asking")
         [] OTHER -> GiveUp(tried)

(* Mutant: a failed run leaves its session to the next attempt. *)
SameSession(tried) == [tried EXCEPT !.failures = @ + 1]

(* After a failed or timed-out run the next attempt is a plain one in a     *)
(* session of its own.                                                      *)
FreshSession(tried) == [tried EXCEPT !.failures = @ + 1, !.session = 0, !.repair = FALSE]

AgentAnswered ==
  /\ verifier = "sent" /\ Agentic
  /\ \E e \in Exits, n \in NamedSessions, x \in {"valid", "off_schema"} :
       LET o == AgentOutcome(e, n, x)
           tried == [Attempted(o) EXCEPT !.session = Session(n)] IN
       CASE o = "completed" -> Completes(tried)
         [] o = "failed"    -> WaitToRetry(FreshSession(tried))
         [] o = "invalid" /\ Session(n) # 0 /\ ask.repairs < Repairs ->
              Continue([tried EXCEPT !.repairs = @ + 1, !.repair = TRUE], "asking")
         [] OTHER -> GiveUp(tried)

(* subprocess.run gives the CLI what is left of the budget, one second at   *)
(* least.                                                                   *)
AgentTimesOut ==
  /\ verifier = "sent" /\ Agentic /\ Deadline /\ clock >= ask.until
  /\ WaitToRetry(FreshSession(Attempted("timed_out")))

Wake ==
  /\ verifier = "waiting" /\ clock >= ask.until
  /\ Continue(ask, "asking")

Tick ==
  /\ Deadline /\ clock < budget
  /\ verifier \in {"sent", "waiting"}
  /\ (verifier = "sent" /\ Agentic) => clock < ask.until
  /\ clock' = clock + 1
  /\ UNCHANGED <<budget, verifier, callVars, resultVars, cause, verdict>>

-----------------------------------------------------------------------------
(* The Task's own part.                                                     *)

(* write: verification.json, then reward.json, each put in place whole. *)
WriteRecord ==
  /\ verifier = "working" /\ results < MaxResults
  /\ results' = results + 1
  /\ files' = [files EXCEPT !.record = results + 1]
  /\ verifier' = "writing"
  /\ UNCHANGED <<budget, clock, callVars, cause, verdict>>

WriteReward ==
  /\ verifier = "writing"
  /\ files' = [files EXCEPT !.reward = results]
  /\ verifier' = "working"
  /\ UNCHANGED <<budget, clock, callVars, results, cause, verdict>>

WriteFails ==
  /\ verifier = "writing"
  /\ verifier' = "raised" /\ cause' = "task"
  /\ UNCHANGED <<budget, clock, callVars, resultVars, verdict>>

(* A Task may write reward.json without the library. *)
WriteRewardAlone ==
  /\ verifier = "working" /\ results < MaxResults
  /\ results' = results + 1
  /\ files' = [files EXCEPT !.reward = results + 1]
  /\ UNCHANGED <<budget, clock, verifier, callVars, cause, verdict>>

(* A Task may handle a failed Judge, or let it end the process. *)
Handle ==
  /\ verifier = "raised" /\ verifier' = "working" /\ cause' = "none"
  /\ UNCHANGED <<budget, clock, callVars, resultVars, verdict>>

Exit ==
  /\ verifier \in {"working", "raised"} /\ verifier' = "exited"
  /\ cause' \in IF verifier = "raised" THEN {cause} ELSE {"none", "task"}
  /\ UNCHANGED <<budget, clock, callVars, resultVars, verdict>>

Killed ==
  /\ verifier \notin {"exited", "killed"} /\ verifier' = "killed"
  /\ UNCHANGED <<budget, clock, callVars, resultVars, cause, verdict>>

-----------------------------------------------------------------------------
(* The Host: _collect_judge_logs, the exit code, _read_result.              *)
Failed(statuses) == \E i \in DOMAIN statuses : statuses[i] = "failed"

(* Mutant: a result that is there is accepted before the exit code counts.  *)
ResultFirst(collected) ==
  IF files.reward # 0 /\ files.record \in {0, files.reward} THEN "score"
  ELSE IF Failed(collected) THEN "infrastructure" ELSE "task_error"

Conclusion(collected) ==
  IF verifier = "killed" THEN "phase_failed"
  ELSE IF cause # "none" THEN IF Failed(collected) THEN "infrastructure" ELSE "task_error"
  ELSE IF files.reward = 0 THEN "no_output"
  ELSE IF files.record \notin {0, files.reward} THEN "invalid_output"
  ELSE "score"

(* A journal that cannot be read is taken for an empty one. *)
ConcludeVerification ==
  /\ verifier \in {"exited", "killed"} /\ verdict = "none"
  /\ \E collected \in {journal, <<>>} : verdict' = Conclusion(collected)
  /\ UNCHANGED <<budget, clock, verifier, callVars, resultVars, cause>>

JudgesNext ==
  \/ Misasked \/ ClockSet \/ \E k \in {"llm", "codex-cli", "claude-code"} : Ask(k)
  \/ Send \/ LowerLimit \/ LlmAnswered \/ AgentAnswered \/ AgentTimesOut \/ Wake \/ Tick
  \/ WriteRecord \/ WriteReward \/ WriteFails \/ WriteRewardAlone
  \/ Handle \/ Exit \/ Killed \/ ConcludeVerification

JudgesSpec == JudgesInit /\ [][JudgesNext]_judgeVars

-----------------------------------------------------------------------------
(* Properties.                                                              *)

(* A Judge decides a score and must finish: it is given up only for a       *)
(* failure another attempt cannot mend, after REPAIRS further answers that  *)
(* were no verdict, or, for transient failures, when the budget could not   *)
(* cover another delay (without a budget: after a few).  No mix of failures *)
(* ends it sooner.                                                          *)
Exhausted ==
  LET outcome == ask'.attempts[Len(ask'.attempts)].outcome
      unused  == {i \in DOMAIN ask'.attempts : ask'.attempts[i].outcome \in Unusable} IN
  CASE outcome = "rejected" -> TRUE
    [] outcome \in Unusable -> \/ Cardinality(unused) = Repairs + 1
                               \/ Agentic /\ ask'.session = 0
                               \/ Agentic /\ Deadline /\ TimeLeft <= 0
    [] OTHER -> IF Deadline THEN TimeLeft < MaxDelay ELSE ask'.failures > PlainRetries

JudgesArePatient ==
  [][ask.end = "open" /\ ask'.end = "failed" => Exhausted]_judgeVars

(* An agent Judge's verdict is repaired in the session that gave it, told   *)
(* what was wrong with it; every other attempt is plain and in a session no *)
(* earlier attempt used (docs/specs/verification.md, "Judges").             *)
RepairsContinueTheirSession ==
  Agentic => \A i \in DOMAIN ask.attempts \ {1} :
    LET now    == ask.attempts[i]
        before == ask.attempts[i - 1] IN
    IF now.mode = "schema_repair"
      THEN /\ before.outcome = "invalid" /\ now.prompt = i - 1
           /\ now.session = IF before.session = 0 THEN i - 1 ELSE before.session
      ELSE /\ before.outcome \in Transient /\ now.prompt = 0
           /\ now.session \in {0, i}

(* What the Host concludes names the cause: a score is the last one written *)
(* by a verifier that let no failure end it, and a Judge's failure is not   *)
(* laid to the Task unless the journal could not be read.                   *)
VerdictsNameTheCause ==
  /\ verdict = "score" => /\ verifier = "exited" /\ cause = "none"
                          /\ files.reward = results
  /\ verdict = "infrastructure" => Failed(journal)
  /\ verdict = "task_error" => verifier = "exited" /\ cause # "none"
=============================================================================
