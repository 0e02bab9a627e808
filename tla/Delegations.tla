---------------------------- MODULE Delegations ----------------------------
(***************************************************************************)
(* The subagents of an agent CLI and how the adapters                      *)
(* (harnesses/*/trajectory.py) find, among the transcripts the Host has,   *)
(* which call started which.  Agent 0 is the root; a call starts a child   *)
(* or asks more of one, the child says something, the call is answered.    *)
(* The CLI may be killed and resumed, and of a child the Host may lack the *)
(* transcript, the record of its start, or both.                           *)
(***************************************************************************)
EXTENDS Integers, Sequences, FiniteSets

CONSTANTS
  Spawners,   \* the CLIs that have subagents, by the names of their adapters
  Goals,      \* what a child may be asked to do
  MaxCalls,   \* bound: calls to children
  MaxSays     \* bound: what the children say in all

ASSUME DelegationsAssumption ==
  /\ Goals # {}
  /\ Spawners \subseteq {"codex_cli", "qwen_code", "kimi_code", "zcode", "openclaw_cli", "forgecode",
                         "muse_code", "antigravity_cli", "hermes", "openhands_cli", "claude_code"}

VARIABLES
  cli,        \* the CLI of this solver
  calls,      \* who called which child to do what, in which run of the CLI
  history,    \* calls, sayings and answers as they came
  process,    \* how often the CLI was started
  told        \* what the trajectory says of the children

delegationVars == <<cli, calls, history, process, told>>

Untold == [made |-> FALSE, transcripts |-> {}, links |-> {}, embedded |-> {}, reported |-> {}]
DelegationsInit ==
  /\ cli \in Spawners
  /\ calls = <<>> /\ history = <<>> /\ process = 1 /\ told = Untold

Event(is, of) == [is |-> is, of |-> of]
Happened(is, of) == \E i \in DOMAIN history : history[i] = Event(is, of)
PlaceOf(is, of) == CHOOSE i \in DOMAIN history : history[i] = Event(is, of)

Children   == {calls[k].to : k \in DOMAIN calls}
CallsTo(c) == {k \in DOMAIN calls : calls[k].to = c}
CallsOf(a) == {k \in DOMAIN calls : calls[k].by = a}
FirstTo(c) == CHOOSE k \in CallsTo(c) : \A l \in CallsTo(c) : k <= l
Parent(c)  == calls[FirstTo(c)].by
Answered   == {k \in DOMAIN calls : Happened("answer", k)}
Spoke(c)   == Happened("says", c)
(* Some CLIs answer the call when the child has started, not when it is done. *)
Detached   == Spawners \cap {"codex_cli", "openclaw_cli"}
Working(a) ==
  a = 0 \/ \E k \in CallsTo(a) : calls[k].process = process /\ (cli \in Detached \/ k \notin Answered)

-----------------------------------------------------------------------------
(* The CLI.                                                                  *)
Nesting  == Spawners \ {"claude_code"}
Resuming == Spawners \cap {"kimi_code", "muse_code", "openhands_cli"}
Resumable ==
  IF cli = "openhands_cli" THEN {c \in Children : calls[FirstTo(c)].process = process} ELSE Children

Call ==
  /\ Len(calls) < MaxCalls /\ ~told.made
  /\ \E a \in {0} \cup IF cli \in Nesting THEN Children ELSE {} :
     \E c \in {Cardinality(Children) + 1} \cup
              IF cli \in Resuming THEN {d \in Resumable : Parent(d) = a /\ ~Working(d)} ELSE {} :
     \E g \in IF cli = "hermes" THEN Goals ELSE {CHOOSE g \in Goals : TRUE} :
       /\ Working(a)
       /\ calls' = Append(calls, [by |-> a, to |-> c, goal |-> g, process |-> process])
       /\ history' = Append(history, Event("call", Len(calls) + 1))
  /\ UNCHANGED <<cli, process, told>>

Says ==
  /\ ~told.made /\ Cardinality({i \in DOMAIN history : history[i].is = "says"}) < MaxSays
  /\ \E c \in Children : Working(c) /\ history' = Append(history, Event("says", c))
  /\ UNCHANGED <<cli, calls, process, told>>

Answer ==
  /\ ~told.made
  /\ \E k \in DOMAIN calls \ Answered :
       /\ calls[k].process = process /\ Working(calls[k].by)
       /\ cli \in Detached \/ ~ \E l \in CallsOf(calls[k].to) \ Answered : calls[l].process = process
       /\ history' = Append(history, Event("answer", k))
  /\ UNCHANGED <<cli, calls, process, told>>

(* Killed in the middle of a turn or at rest, and resumed by a later one.    *)
Restart ==
  /\ ~told.made /\ process = 1 /\ process' = 2
  /\ UNCHANGED <<cli, calls, history, told>>

-----------------------------------------------------------------------------
(* The links of one agent's calls to its children, from the transcripts and  *)
(* the start records the Host has.                                           *)
Link(k, c) == [call |-> k, child |-> c]
Named(a, known) ==
  {Link(k, calls[k].to) : k \in {l \in CallsOf(a) \cap Answered : calls[l].to \in known}}
Speaking(links) == {l \in links : Spoke(l.child)}

Marking == Spawners \ {"codex_cli", "kimi_code", "forgecode", "muse_code", "hermes", "openhands_cli"}

CodexLinks(a, transcripts)              == Speaking(Named(a, transcripts))
QwenLinks(a, transcripts, marks)        == Speaking(Named(a, transcripts \cap marks))
KimiLinks(a, transcripts)               == Speaking(Named(a, transcripts))
ZcodeLinks(a, transcripts, marks)       == Speaking(Named(a, transcripts \cap marks))
OpenclawLinks(a, transcripts, marks)    == Speaking(Named(a, transcripts \cap marks))
ForgeLinks(a, transcripts)              == Named(a, transcripts)
MuseLinks(a, transcripts)               == Speaking(Named(a, transcripts))
AntigravityLinks(a, transcripts, marks) == Speaking(Named(a, transcripts \cap marks))

(* Two calls of one agent to do the same, which one record then answers for. *)
HermesGuesses(a, transcripts) ==
  {Link(k, c) : k \in CallsOf(a) \cap Answered,
                c \in {d \in transcripts : Spoke(d) /\ Parent(d) = a}}

(* A child's record names its agent and its own first prompt, never the      *)
(* call: a goal links when one call of the agent and one record have it.     *)
HermesLinks(a, transcripts) ==
  LET asked(g)    == {k \in CallsOf(a) : calls[k].goal = g}
      recorded(g) == {c \in transcripts : /\ Spoke(c) /\ Parent(c) = a
                                          /\ calls[FirstTo(c)].goal = g}
  IN UNION {{Link(k, c) : k \in asked(g) \cap Answered, c \in recorded(g)} :
             g \in {h \in Goals : Cardinality(asked(h)) = 1 /\ Cardinality(recorded(h)) = 1}}

(* The answer names a task, and the agent's state has the sayings of the     *)
(* task of that name that ended last; names start over with the process.     *)
Task(k) == Cardinality({calls[l].to : l \in {m \in CallsOf(calls[k].by) :
                          /\ m <= FirstTo(calls[k].to)
                          /\ calls[m].process = calls[FirstTo(calls[k].to)].process
                          /\ m = FirstTo(calls[m].to)}})
SaysOf(c) == {i \in DOMAIN history : history[i] = Event("says", c)}
SaysOfTask(a, task) ==
  LET ended == {k \in CallsOf(a) \cap Answered : Task(k) = task}
      last  == CHOOSE k \in ended : \A l \in ended : PlaceOf("answer", l) <= PlaceOf("answer", k)
  IN {i \in SaysOf(calls[last].to) : i < PlaceOf("answer", last)}
OpenhandsLinks(a, transcripts) ==
  LET During(k) == PlaceOf("call", k) .. PlaceOf("answer", k)
      matches(k) == {c \in transcripts : /\ Parent(c) = a /\ Spoke(c)
                                         /\ SaysOf(c) \subseteq SaysOfTask(a, Task(k))
                                         /\ SaysOf(c) \cap During(k) # {}}
  IN UNION {{Link(k, c) : c \in matches(k)} :
             k \in {l \in CallsOf(a) \cap Answered : Cardinality(matches(l)) = 1}}

(* A child's mark names its call, answered or not.                           *)
ClaudeLinks(a, transcripts, marks) ==
  {Link(FirstTo(c), c) : c \in {d \in transcripts \cap marks : Parent(d) = a}}

-----------------------------------------------------------------------------
LinksOf(a, transcripts, marks) ==
  CASE cli = "codex_cli"       -> CodexLinks(a, transcripts)
    [] cli = "qwen_code"       -> QwenLinks(a, transcripts, marks)
    [] cli = "kimi_code"       -> KimiLinks(a, transcripts)
    [] cli = "zcode"           -> ZcodeLinks(a, transcripts, marks)
    [] cli = "openclaw_cli"    -> OpenclawLinks(a, transcripts, marks)
    [] cli = "forgecode"       -> ForgeLinks(a, transcripts)
    [] cli = "muse_code"       -> MuseLinks(a, transcripts)
    [] cli = "antigravity_cli" -> AntigravityLinks(a, transcripts, marks)
    [] cli = "hermes"          -> HermesLinks(a, transcripts)
    [] cli = "openhands_cli"   -> OpenhandsLinks(a, transcripts)
    [] cli = "claude_code"     -> ClaudeLinks(a, transcripts, marks)

(* A child is part of its agent's trajectory, if that is part of one: the     *)
(* least set with the root and, with an agent, the children it links to.      *)
Embedded(transcripts, marks) ==
  LET linked    == {c \in Children : \E l \in LinksOf(Parent(c), transcripts, marks) : l.child = c}
      closed(s) == 0 \in s /\ \A c \in linked : Parent(c) \in s => c \in s
  IN {c \in linked : \A s \in SUBSET ({0} \cup linked) : closed(s) => c \in s}

(* What is left is named: by every CLI for itself, by OpenHands below the    *)
(* directory of its agent, by claude when its mark is missing.               *)
Reported(transcripts, marks, embedded) ==
  CASE cli = "openhands_cli" -> {c \in transcripts \ embedded : Parent(c) \in {0} \cup embedded}
    [] cli = "claude_code"   -> transcripts \ marks
    [] OTHER                 -> transcripts \ embedded

Tell ==
  /\ ~told.made
  /\ \E transcripts \in SUBSET Children, marks \in IF cli \in Marking THEN SUBSET Children ELSE {{}} :
       LET embedded == Embedded(transcripts, marks)
       IN /\ cli = "openhands_cli" => \A c \in transcripts : Parent(c) \in {0} \cup transcripts
          /\ told' = [made |-> TRUE, transcripts |-> transcripts,
                      links |-> UNION {LinksOf(a, transcripts, marks) : a \in {0} \cup embedded},
                      embedded |-> embedded,
                      reported |-> Reported(transcripts, marks, embedded)]
  /\ UNCHANGED <<cli, calls, history, process>>

DelegationsNext == Call \/ Says \/ Answer \/ Restart \/ Tell

-----------------------------------------------------------------------------
(* A reference leads from a call to the child that this call went to, and    *)
(* every child the Host has a transcript of, and that said something, is     *)
(* part of the trajectory or named as left out, itself or with the agent it  *)
(* worked for: whatever was killed, resumed, asked twice or not copied.      *)
DelegationsAreTold ==
  told.made =>
    /\ \A l \in told.links : calls[l.call].to = l.child
    /\ told.embedded \cap told.reported = {}
    /\ \A c \in told.transcripts : Spoke(c) =>
         \/ c \in told.embedded \cup told.reported
         \/ cli = "openhands_cli" /\ Parent(c) \notin {0} \cup told.embedded

=============================================================================
