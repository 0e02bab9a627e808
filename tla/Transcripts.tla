---------------------------- MODULE Transcripts ----------------------------
(***************************************************************************)
(* The invocations of an agent CLI in one solver (harnesses/base.py): a    *)
(* launch and the resumes of later episodes, what the CLI leaves of them   *)
(* in its own session and on stdout, and the trajectory each adapter       *)
(* (harnesses/*/trajectory.py) makes of the two.                           *)
(*                                                                         *)
(* Invocation n is turn n of the session.  An event of it is its prompt,   *)
(* a text, a call, the result of a call, or its failure; "start" and "end" *)
(* are the events of stdout that open and complete it.  The log mirror has *)
(* a module of its own: here the last copy is whole.                       *)
(***************************************************************************)
EXTENDS Integers, Sequences
LOCAL INSTANCE SequencesExt
LOCAL INSTANCE FiniteSetsExt

CONSTANTS
  Adapters,   \* the CLIs, by the names of their adapters
  MaxTurns,   \* bound: invocations
  MaxItems    \* bound: texts and calls of one invocation

VARIABLES
  adapter,    \* the CLI this solver has
  records,    \* invocations.jsonl: where each began in stdout, and whether it asked for a session
  stdout,     \* stdout.log
  session,    \* the CLI's session
  native,     \* the session as its files have it
  unreadable, \* which of stdout and the files end in a torn line
  items,      \* texts and calls of the running invocation
  agentRun,   \* what the Host made of the last invocation
  trajectory  \* what the last conversion made of it

logVars        == <<stdout, session, native, unreadable>>
transcriptVars == <<adapter, records, logVars, items, agentRun, trajectory>>

NotConverted == [made |-> FALSE, steps |-> <<>>, issues |-> {}]

TranscriptsInit ==
  /\ adapter \in Adapters
  /\ records = <<>> /\ stdout = <<>> /\ session = <<>> /\ native = <<>>
  /\ unreadable = {} /\ items = 0 /\ agentRun = "none" /\ trajectory = NotConverted

Turn == Len(records)
Entry(t, is, at) == [turn |-> t, is |-> is, at |-> at]
Seen(log, kinds) == \E i \in DOMAIN log : log[i].is \in kinds
Recorded == 1 .. Len(records)

-----------------------------------------------------------------------------
(* What one adapter knows of its CLI.  AsksFor: the launch asks for a        *)
(* session by an identity of its own making; every resume does.  KeepsFiles: *)
(* the session is its files; the others export it when the CLI has ended.    *)
AsksFor    == Adapters \ {"codex_cli", "hermes", "kimi_code", "zcode", "antigravity_cli"}
KeepsFiles == Adapters \ {"hermes", "forgecode"}

(* Where the end of a failed turn is: on stdout always, and for these in the *)
(* session too; droid's outcome is in the session or not.                    *)
RecordsFailure == {"pi_cli", "kimi_code", "openhands_cli", "muse_code"} \cap Adapters

Result(named, failed) == [named |-> named, failed |-> failed]

CodexResult(out)       == Result(Seen(out, {"start"}), Seen(out, {"failure"}))
ClaudeResult(out)      == Result(out # <<>>, Seen(out, {"failure"}))
DroidResult(out)       == Result(out # <<>>, Seen(out, {"failure"}))
PiResult(out)          == Result(Seen(out, {"start"}), ~Seen(out, {"end"}))
HermesResult(out)      == Result(Seen(out, {"end", "failure"}), ~Seen(out, {"end"}))
OpenclawResult(out)    == Result(Seen(out, {"end", "failure"}), Seen(out, {"failure"}))
QwenResult(out)        == Result(Seen(out, {"start"}), Seen(out, {"failure"}))
KimiResult(out)        == Result(Seen(out, {"end"}), Seen(out, {"failure"}))
ZcodeResult(out)       == Result(Seen(out, {"end"}), Seen(out, {"failure"}))
OpenhandsResult(out)   == Result(Seen(out, {"end", "failure"}), Seen(out, {"failure"}))
ForgeResult(out)       == Result(Seen(out, {"start"}), ~Seen(out, {"end"}))
GrokResult(out)        == Result(Seen(out, {"end", "failure"}), Seen(out, {"failure"}))
MuseResult(out)        == Result(out # <<>>, out # <<>> /\ ~Seen(out, {"end"}))
AntigravityResult(out) == Result(Seen(out, {"start"}), ~Seen(out, {"end"}))

ReadResult(out) ==
  CASE adapter = "codex_cli"       -> CodexResult(out)
    [] adapter = "claude_code"     -> ClaudeResult(out)
    [] adapter = "droid"           -> DroidResult(out)
    [] adapter = "pi_cli"          -> PiResult(out)
    [] adapter = "hermes"          -> HermesResult(out)
    [] adapter = "openclaw_cli"    -> OpenclawResult(out)
    [] adapter = "qwen_code"       -> QwenResult(out)
    [] adapter = "kimi_code"       -> KimiResult(out)
    [] adapter = "zcode"           -> ZcodeResult(out)
    [] adapter = "openhands_cli"   -> OpenhandsResult(out)
    [] adapter = "forgecode"       -> ForgeResult(out)
    [] adapter = "grok_build"      -> GrokResult(out)
    [] adapter = "muse_code"       -> MuseResult(out)
    [] adapter = "antigravity_cli" -> AntigravityResult(out)

-----------------------------------------------------------------------------
(* The part of stdout that invocation n wrote.                              *)
Invocations == IF records = <<>> THEN <<[from |-> 0, asked |-> FALSE]>> ELSE records
(* A slice that does not end where the next invocation begins. *)
SliceToTheEnd(n) == SubSeq(stdout, Invocations[n].from + 1, Len(stdout))
Slice(n) == SubSeq(stdout, Invocations[n].from + 1,
                   IF n = Len(Invocations) THEN Len(stdout) ELSE Invocations[n + 1].from)

Running == agentRun = "running"
Opened  == session # <<>> /\ Last(session).turn = Turn
Shown(e) == IF e.is = "prompt" THEN [e EXCEPT !.is = "start"] ELSE e

(* The Host.  A launch empties the logs; a resume needs a completed turn     *)
(* before it and the files of its session.                                   *)
Launch ==
  /\ agentRun = "none"
  /\ records' = <<[from |-> 0, asked |-> adapter \in AsksFor]>>
  /\ stdout' = <<>> /\ agentRun' = "running" /\ items' = 0
  /\ UNCHANGED <<adapter, session, native, unreadable, trajectory>>

SessionExists == native # <<>>

Resume ==
  /\ agentRun = "completed" /\ Turn < MaxTurns
  /\ trajectory' = NotConverted
  /\ IF SessionExists
       THEN /\ records' = Append(records, [from |-> Len(stdout), asked |-> TRUE])
            /\ agentRun' = "running" /\ items' = 0
       ELSE agentRun' = "no_session" /\ UNCHANGED <<records, items>>
  /\ UNCHANGED <<adapter, logVars>>

(* Preparing it fails, or it is cancelled, before it is recorded.            *)
NotInvoked ==
  /\ agentRun \in {"none", "completed"} /\ Turn < MaxTurns
  /\ agentRun' = "interrupted" /\ trajectory' = NotConverted
  /\ UNCHANGED <<adapter, records, logVars, items>>

-----------------------------------------------------------------------------
(* The CLI.                                                                  *)
Unreturned == {k \in 1 .. MaxItems : /\ Contains(session, Entry(Turn, "call", k))
                                     /\ ~Contains(session, Entry(Turn, "result", k))}

(* This CLI answers the calls of one response in order and before it goes on: *)
(* its adapter pairs the two by that alone.                                   *)
InOrder == adapter = "antigravity_cli" /\ Unreturned # {}
NextEntries ==
  IF ~Opened THEN {Entry(Turn, "prompt", 0)}
  ELSE {Entry(Turn, "result", k) : k \in IF InOrder THEN {Min(Unreturned)} ELSE Unreturned}
       \cup {Entry(Turn, is, items + 1) :
               is \in IF items = MaxItems THEN {} ELSE IF InOrder THEN {"call"} ELSE {"text", "call"}}

InFiles(log) == IF adapter \in KeepsFiles THEN log ELSE native

Emit ==
  /\ Running
  /\ \E e \in NextEntries :
       /\ session' = Append(session, e) /\ native' = InFiles(Append(session, e))
       /\ stdout' = Append(stdout, Shown(e))
       /\ items' = IF e.is \in {"text", "call"} THEN items + 1 ELSE items
  /\ UNCHANGED <<adapter, records, unreadable, agentRun, trajectory>>

Outcome(exit, out) ==
  IF exit # 0 \/ ReadResult(out).failed THEN "failed"
  ELSE IF ReadResult(out).named THEN "completed" ELSE "unconfirmed"

(* It ends: says so, says why not, or just stops; then what it keeps         *)
(* elsewhere is exported.                                                    *)
CliExits ==
  /\ Running
  /\ \E last \in {"end", "failure", "nothing"}, exit \in {0, 1}, exports, recorded \in BOOLEAN :
       LET ending == Entry(Turn, last, 0)
           out    == IF last = "nothing" THEN stdout ELSE Append(stdout, ending)
           whole  == IF last = "failure" /\ Opened /\ recorded THEN Append(session, ending) ELSE session
       IN /\ last = "end" => Opened /\ Unreturned = {} /\ exit = 0
          /\ recorded => last = "failure" /\ Opened /\ adapter \in RecordsFailure \cup {"droid"}
          /\ last = "failure" /\ Opened /\ adapter \in RecordsFailure => recorded
          /\ adapter \in KeepsFiles => exports
          /\ stdout' = out /\ session' = whole
          /\ native' = IF exports THEN whole ELSE native
          /\ agentRun' = Outcome(exit, SubSeq(out, records[Turn].from + 1, Len(out)))
  /\ UNCHANGED <<adapter, records, unreadable, items, trajectory>>

(* The deadline, a cancellation or the end of the guest kills it: between    *)
(* the two places it writes an event to, or within one of them.              *)
CliKilled ==
  /\ Running /\ agentRun' = "timed_out"
  /\ \/ unreadable' \in SUBSET {"stdout", "native"} /\ UNCHANGED <<stdout, session, native>>
     \/ \E e \in NextEntries :
          /\ session' = Append(session, e) /\ native' = InFiles(Append(session, e))
          /\ UNCHANGED <<stdout, unreadable>>
     \/ \E e \in NextEntries \cup IF Opened THEN {Entry(Turn, "end", 0)} ELSE {} :
          stdout' = Append(stdout, Shown(e)) /\ UNCHANGED <<session, native, unreadable>>
  /\ UNCHANGED <<adapter, records, items, trajectory>>


-----------------------------------------------------------------------------
(* The conversion.  The session is known by the run that confirmed it, the   *)
(* identity a record asked for, or what stdout says.                         *)
Identified ==
  \/ agentRun = "completed"
  \/ \E n \in Recorded : records[n].asked \/ ReadResult(Slice(n)).named
Located == Identified /\ native # <<>>
Held    == IF Located THEN native ELSE <<>>

PromptsAt   == SetToSortSeq({p \in DOMAIN Held : Held[p].is = "prompt"}, <)
NativeTurns == Len(PromptsAt)
HeldTurn(n) == SubSeq(Held, PromptsAt[n], IF n = NativeTurns THEN Len(Held) ELSE PromptsAt[n + 1] - 1)

Agents == {"text", "call"}
AsStep(e, log) ==
  [of |-> e, answered |-> e.is = "call" /\ Contains(log, [e EXCEPT !.is = "result"])]
Steps(log, kinds, answers) ==
  LET kept == SelectSeq(log, LAMBDA e : e.is \in kinds)
  IN [i \in DOMAIN kept |-> AsStep(kept[i], answers)]

User(n)            == <<AsStep(Entry(n, "prompt", 0), <<>>)>>
Failing(n, failed) == IF failed THEN <<AsStep(Entry(n, "failure", 0), <<>>)>> ELSE <<>>
FailureTold(n)     == Failing(n, Seen(Slice(n), {"failure"}))
FromSession(n, kinds) == Steps(HeldTurn(n), kinds, Held)
FromStdout(n, kinds)  == Steps(Slice(n), kinds, Slice(n))
Final(n) == LET texts == FromStdout(n, {"text"})
            IN IF texts = <<>> THEN <<>> ELSE <<Last(texts)>>

(* Every recorded turn, from the session as far as that goes; and the final  *)
(* message of the run when nothing else is left of the agent.                *)
Assemble(SessionTurn(_), StdoutTurn(_)) ==
  LET turns == [n \in DOMAIN Invocations |->
                  User(n) \o (IF n <= NativeTurns THEN SessionTurn(n) ELSE StdoutTurn(n))]
      steps == FlattenSeq(turns)
  IN IF agentRun = "completed" /\ adapter # "forgecode" /\ ~ \E i \in DOMAIN steps : steps[i].of.is \in Agents
       THEN steps \o Final(Len(Invocations)) ELSE steps

-----------------------------------------------------------------------------
(* The adapters: a turn of the session, a turn rebuilt from stdout.          *)
CodexTurn(n)    == FromSession(n, Agents) \o FailureTold(n)
CodexStream(n)  == FromStdout(n, Agents) \o FailureTold(n)
CodexTrajectory == Assemble(CodexTurn, CodexStream)

DroidTurn(n) == LET told == FromSession(n, Agents \cup {"failure"})
                IN IF Seen(HeldTurn(n), {"failure"}) THEN told ELSE told \o FailureTold(n)
DroidStream(n)  == FromStdout(n, Agents) \o FailureTold(n)
DroidTrajectory == Assemble(DroidTurn, DroidStream)

PiTurn(n)    == FromSession(n, Agents \cup {"failure"})
PiStream(n)  == FromStdout(n, Agents \cup {"failure"})
PiTrajectory == Assemble(PiTurn, PiStream)

HermesTurn(n)    == FromSession(n, Agents) \o FailureTold(n)
HermesStream(n)  == FromStdout(n, Agents) \o FailureTold(n)
HermesTrajectory == Assemble(HermesTurn, HermesStream)

OpenhandsTurn(n)    == FromSession(n, Agents \cup {"failure"})
OpenhandsStream(n)  == FromStdout(n, Agents \cup {"failure"})
OpenhandsTrajectory == Assemble(OpenhandsTurn, OpenhandsStream)

Concluded(n) == Seen(Slice(n), {"end"})

(* A turn without the error only stdout tells of. *)
QwenTurnWithoutError(n) == FromSession(n, Agents)
QwenTurn(n)    == FromSession(n, Agents) \o FailureTold(n)
QwenStream(n)  == (IF Concluded(n) THEN Final(n) ELSE <<>>) \o FailureTold(n)
QwenTrajectory == Assemble(QwenTurn, QwenStream)

KimiTurn(n)    == FromSession(n, Agents \cup {"failure"})
KimiStream(n)  == Final(n) \o FailureTold(n)
KimiTrajectory == Assemble(KimiTurn, KimiStream)

ZcodeTurn(n)    == FromSession(n, Agents) \o FailureTold(n)
ZcodeStream(n)  == (IF Concluded(n) THEN Final(n) ELSE <<>>) \o FailureTold(n)
ZcodeTrajectory == Assemble(ZcodeTurn, ZcodeStream)

OpenclawTurn(n)    == FromSession(n, Agents) \o FailureTold(n)
OpenclawStream(n)  == (IF Seen(Slice(n), {"end", "failure"}) THEN Final(n) ELSE <<>>) \o FailureTold(n)
OpenclawTrajectory == Assemble(OpenclawTurn, OpenclawStream)

GrokTurn(n)    == FromSession(n, Agents) \o FailureTold(n)
GrokStream(n)  == Final(n) \o FailureTold(n)
GrokTrajectory == Assemble(GrokTurn, GrokStream)

MuseTurn(n)    == FromSession(n, Agents \cup {"failure"})
MuseStream(n)  == (IF Concluded(n) THEN Final(n) ELSE <<>>) \o Failing(n, MuseResult(Slice(n)).failed)
MuseTrajectory == Assemble(MuseTurn, MuseStream)

AntigravityTurn(n)    == FromSession(n, Agents) \o FailureTold(n)
AntigravityStream(n)  == (IF Seen(Slice(n), {"end", "failure"}) THEN Final(n) ELSE <<>>) \o FailureTold(n)
AntigravityTrajectory == Assemble(AntigravityTurn, AntigravityStream)

ForgeStream(n)  == Failing(n, ForgeResult(Slice(n)).failed)
ForgeTurn(n)    == FromSession(n, Agents) \o ForgeStream(n)
ForgeTrajectory == Assemble(ForgeTurn, ForgeStream)

(* claude: what only stdout has goes after the last session event that both  *)
(* have before it.                                                           *)
ClaudeMerge(log, out) ==
  LET Anchor(i) == Max({0} \cup {p \in DOMAIN log : \E j \in 1 .. i : out[j] = log[p]})
      Only(p)   == SetToSortSeq({i \in DOMAIN out : ~Contains(log, out[i]) /\ Anchor(i) = p}, <)
      After(p)  == [k \in DOMAIN Only(p) |-> out[Only(p)[k]]]
  IN After(0) \o FlattenSeq([p \in DOMAIN log |-> <<log[p]>> \o After(p)])
ClaudePrompts ==
  FlattenSeq([n \in DOMAIN Invocations |-> <<Entry(n, "prompt", 0)>> \o Slice(n)])
ClaudeEvents == IF Located THEN ClaudeMerge(native, stdout) ELSE ClaudePrompts
ClaudeSteps  == Steps(ClaudeEvents, Agents \cup {"prompt", "failure"}, ClaudeEvents)
ClaudeTrajectory ==
  LET steps == ClaudeSteps
  IN IF agentRun = "completed" /\ ~ \E i \in DOMAIN steps : steps[i].of.is \in Agents
       THEN steps \o Final(Len(Invocations)) ELSE steps

-----------------------------------------------------------------------------
Trajectory ==
  CASE adapter = "codex_cli"       -> CodexTrajectory
    [] adapter = "claude_code"     -> ClaudeTrajectory
    [] adapter = "droid"           -> DroidTrajectory
    [] adapter = "pi_cli"          -> PiTrajectory
    [] adapter = "hermes"          -> HermesTrajectory
    [] adapter = "openclaw_cli"    -> OpenclawTrajectory
    [] adapter = "qwen_code"       -> QwenTrajectory
    [] adapter = "kimi_code"       -> KimiTrajectory
    [] adapter = "zcode"           -> ZcodeTrajectory
    [] adapter = "openhands_cli"   -> OpenhandsTrajectory
    [] adapter = "forgecode"       -> ForgeTrajectory
    [] adapter = "grok_build"      -> GrokTrajectory
    [] adapter = "muse_code"       -> MuseTrajectory
    [] adapter = "antigravity_cli" -> AntigravityTrajectory

(* Two adapters read no lines from stdout, and report none as malformed.     *)
Issues ==
  (IF Located THEN {} ELSE {"native_session_unavailable"})
  \cup (IF Located /\ NativeTurns < Len(Invocations) /\ adapter # "claude_code"
          THEN {"prompt_not_in_native_session"} ELSE {})
  \cup (IF \/ "stdout" \in unreadable /\ adapter \notin {"openclaw_cli", "forgecode"}
           \/ "native" \in unreadable /\ Located
          THEN {"malformed"} ELSE {})

(* Every ending of the episode makes the trajectory of what there is.        *)
Convert ==
  /\ agentRun \notin {"none", "running"} /\ ~trajectory.made
  /\ trajectory' = [made |-> TRUE, steps |-> Trajectory, issues |-> Issues]
  /\ UNCHANGED <<adapter, records, logVars, items, agentRun>>

TranscriptsNext ==
  Launch \/ Resume \/ NotInvoked \/ Emit \/ CliExits \/ CliKilled \/ Convert

-----------------------------------------------------------------------------
(* The trajectory opens each recorded turn with its prompt, in order, keeps  *)
(* every step in its own turn and takes none twice, whichever of the two     *)
(* logs it came from, and shows a failure only in a turn that has not ended  *)
(* well.  (claude's merge of the two knows no turns.)  And the agent's run   *)
(* is completed by what this invocation wrote: an earlier turn in the same   *)
(* stdout never confirms a CLI that did nothing.                             *)
Of(i) == trajectory.steps[i].of
StepsFollowTheTurns ==
  /\ agentRun = "completed" => Opened
  /\ trajectory.made =>
    LET shown == DOMAIN trajectory.steps
    IN /\ \A i, j \in shown : i < j => Of(i) # Of(j)
       /\ \A i \in shown : Of(i).is = "failure" => ~Contains(stdout, [Of(i) EXCEPT !.is = "end"])
       /\ adapter # "claude_code" =>
            /\ \A i, j \in shown : i < j => Of(i).turn <= Of(j).turn
            /\ \A i \in shown : i = 1 \/ Of(i - 1).turn # Of(i).turn => Of(i).is = "prompt"
            /\ {Of(i).turn : i \in shown} = DOMAIN Invocations

(* A trajectory that reports no issue leaves nothing of the session out: no  *)
(* text or call, no result of a call, and no failure, though the session of  *)
(* most CLIs does not record one and stdout does.                            *)
WholeUnlessReported ==
  trajectory.made /\ trajectory.issues = {} =>
    LET shown == DOMAIN trajectory.steps
        Shows(e) == \E i \in shown : Of(i) = e
    IN /\ \A i \in DOMAIN native : native[i].is # "result" => Shows(native[i])
       /\ \A i \in DOMAIN stdout : stdout[i].is = "failure" => Shows(stdout[i])
       /\ \A i \in shown : Of(i).is = "call" /\ Contains(native, [Of(i) EXCEPT !.is = "result"])
            => trajectory.steps[i].answered

=============================================================================
