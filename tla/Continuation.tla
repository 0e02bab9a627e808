---------------------------- MODULE Continuation ----------------------------
(***************************************************************************)
(* Commands that use the solver an earlier episode left: a run with        *)
(* --continue-from (protocol/episode_protocol.py, cli/tasks.py) and        *)
(* `ale reverify`.  The solver's disk names the episode whose agent ran in *)
(* it last; the native session grows with every agent; each episode's      *)
(* trajectory is cut out of what its parser reads of the whole session.    *)
(*                                                                         *)
(* A sandbox has the number of the command that created it.  Steps of a    *)
(* session are told apart by what _same_step compares, their look; who     *)
(* took a step is known to the model only.                                 *)
(***************************************************************************)
EXTENDS Integers, Sequences

CONSTANTS
  Episodes,  \* 1..n: the commands, each with its episode
  Looks,     \* what _same_step sees of a step
  MaxSteps   \* bound: steps of one episode

VARIABLES
  solver,    \* per sandbox: [there, marker, session]
  image,     \* per episode: the snapshot of its solver
  run,       \* per command: [at, kind, from, box]
  kept,      \* per episode: what result.json says of its solver
  left,      \* per episode: the session when its solver was kept
  segment,   \* per episode: its trajectory [steps, resumed, start]
  whole,     \* per episode: its parser read the whole session and converted it
  crossed    \* sandboxes two commands used at once

ASSUME ContinuationAssumption == Episodes \subseteq Nat \ {0}

continuationVars == <<solver, image, run, kept, left, segment, whole, crossed>>

Nobody  == 0
Unknown == -1    \* resumed_from without native_steps
NoSolver  == [there |-> FALSE, marker |-> Nobody, session |-> <<>>]
NoSegment == [steps |-> <<>>, resumed |-> FALSE, start |-> Unknown]
NoRun     == [at |-> "idle", kind |-> "none", from |-> Nobody, box |-> Nobody]

ContinuationInit ==
  /\ solver = [b \in Episodes |-> NoSolver]
  /\ image = [e \in Episodes |-> NoSolver]
  /\ run = [e \in Episodes |-> NoRun]
  /\ kept = [e \in Episodes |-> "none"]
  /\ left = [e \in Episodes |-> <<>>]
  /\ segment = [e \in Episodes |-> NoSegment]
  /\ whole = [e \in Episodes |-> FALSE]
  /\ crossed = {}

Box(e)   == run[e].box
Using(b) == {e \in Episodes : run[e].at \notin {"idle", "over"} /\ Box(e) = b}
At(e, from, to) == run[e].at = from /\ run' = [run EXCEPT ![e].at = to]

-----------------------------------------------------------------------------
(* Where the solver comes from                                              *)

(* Commands are numbered in the order they start. *)
Enter(e, kind, s, b, at) ==
  /\ \A d \in 1 .. e - 1 : run[d].at # "idle"
  /\ run' = [run EXCEPT ![e] = [at |-> at, kind |-> kind, from |-> s, box |-> b]]

(* acquire() without a source. *)
FreshEpisode(e) ==
  /\ run[e].at = "idle"
  /\ Enter(e, "run", Nobody, e, "agent")
  /\ solver' = [solver EXCEPT ![e] = [NoSolver EXCEPT !.there = TRUE]]
  /\ UNCHANGED <<image, kept, left, segment, whole, crossed>>

(* _require_agent_episode: the sandbox still holds the source's state. *)
Holds(b, s) == solver[b].there /\ solver[b].marker = s

(* The provider attaches whatever runs; a solver that holds another         *)
(* episode's state is only disconnected again.                              *)
Attach(e, s, kind) ==
  /\ run[e].at = "idle" /\ kept[s] = "retained"
  /\ IF Holds(Box(s), s)
     THEN /\ Enter(e, kind, s, Box(s), IF kind = "run" THEN "claim" ELSE "verify")
          /\ crossed' = IF Using(Box(s)) = {} THEN crossed ELSE crossed \cup {Box(s)}
     ELSE Enter(e, kind, s, Nobody, "over") /\ UNCHANGED crossed
  /\ UNCHANGED <<solver, image, kept, left, segment, whole>>

(* A sandbox of its own, booted from the snapshot if that holds the         *)
(* source's state.                                                          *)
BootSnapshot(e, s) ==
  /\ run[e].at = "idle" /\ kept[s] = "snapshot"
  /\ image[s].marker = s
  /\ solver' = [solver EXCEPT ![e] = image[s]]
  /\ Enter(e, "run", s, e, "claim")
  /\ UNCHANGED <<image, kept, left, segment, whole, crossed>>

(* Written before anything changes the solver, so that no record of the     *)
(* source leads to it again; the write may fail.                            *)
Unclaimed(b, e) == solver
Claimed(b, e)   == [solver EXCEPT ![b].marker = e]

Claim(e) ==
  /\ At(e, "claim", "agent")
  /\ solver[Box(e)].there
  /\ solver' = Claimed(Box(e), e)
  /\ UNCHANGED <<image, kept, left, segment, whole, crossed>>

-----------------------------------------------------------------------------
(* The agent and its trajectory                                             *)

OwnSteps(e, session) == SelectSeq(session, LAMBDA t : t.by = e)

Act(e, look) ==
  /\ run[e].at = "agent" /\ solver[Box(e)].there
  /\ Len(OwnSteps(e, solver[Box(e)].session)) < MaxSteps
  /\ solver' = [solver EXCEPT ![Box(e)].session = Append(@, [by |-> e, look |-> look])]
  /\ UNCHANGED <<image, run, kept, left, segment, whole, crossed>>

(* Where the source's own steps begin in the native session. *)
AlwaysFirst(s) == 0
NativeStart(s) == IF segment[s].resumed THEN segment[s].start ELSE 0

(* _continued_segment: the source's part ends inside what was parsed, and   *)
(* its last step is where it ended.                                         *)
ContinuedSegment(parsed, s) ==
  LET own == segment[s].steps
      end == NativeStart(s) + Len(own)
  IN IF /\ NativeStart(s) # Unknown /\ own # <<>> /\ Len(parsed) > end
        /\ parsed[end].look = own[Len(own)].look
     THEN [steps |-> SubSeq(parsed, end + 1, Len(parsed)), resumed |-> TRUE, start |-> end]
     ELSE [steps |-> parsed, resumed |-> TRUE, start |-> Unknown]

(* _trajectory: the collected logs may end early. *)
Parse(e) ==
  /\ At(e, "agent", "sanitize")
  /\ solver[Box(e)].there
  /\ \E n \in 0 .. Len(solver[Box(e)].session) :
       LET session == solver[Box(e)].session
           parsed  == SubSeq(session, 1, n)
       IN /\ segment' = [segment EXCEPT ![e] =
               IF run[e].from = Nobody THEN [steps |-> parsed, resumed |-> FALSE, start |-> 0]
                                       ELSE ContinuedSegment(parsed, run[e].from)]
          /\ whole' = [whole EXCEPT ![e] = n = Len(session)]
  /\ UNCHANGED <<solver, image, kept, left, crossed>>

(* Conversion failed: the instruction and the last message, and no link.    *)
ConversionFails(e) ==
  /\ At(e, "agent", "sanitize")
  /\ \E look \in Looks :
       segment' = [segment EXCEPT ![e] =
         [steps |-> <<[by |-> e, look |-> look]>>, resumed |-> FALSE, start |-> 0]]
  /\ UNCHANGED <<solver, image, kept, left, whole, crossed>>

-----------------------------------------------------------------------------
(* Leaving the solver                                                       *)

(* _sanitize_for_retention names this episode, and the lease keeps the      *)
(* solver, takes a snapshot of it, or destroys it.                          *)
Sanitize(e) ==
  /\ At(e, "sanitize", "leave")
  /\ solver[Box(e)].there
  /\ solver' = [solver EXCEPT ![Box(e)].marker = e]
  /\ UNCHANGED <<image, kept, left, segment, whole, crossed>>

Retain(e) ==
  /\ At(e, "leave", "over")
  /\ solver[Box(e)].there
  /\ kept' = [kept EXCEPT ![e] = "retained"]
  /\ left' = [left EXCEPT ![e] = solver[Box(e)].session]
  /\ UNCHANGED <<solver, image, segment, whole, crossed>>

TakeSnapshot(e) ==
  /\ At(e, "leave", "over")
  /\ solver[Box(e)].there
  /\ image' = [image EXCEPT ![e] = solver[Box(e)]]
  /\ solver' = [solver EXCEPT ![Box(e)] = NoSolver]
  /\ kept' = [kept EXCEPT ![e] = "snapshot"]
  /\ left' = [left EXCEPT ![e] = solver[Box(e)].session]
  /\ UNCHANGED <<segment, whole, crossed>>

(* Without result.json nobody uses the episode's records. *)
NoRecords(e) ==
  /\ run' = [run EXCEPT ![e].at = "over"]
  /\ segment' = [segment EXCEPT ![e] = NoSegment]
  /\ whole' = [whole EXCEPT ![e] = FALSE]

(* A failure before or during sanitation destroys a continued solver as it  *)
(* does a fresh one.                                                        *)
DestroySolver(e) ==
  /\ run[e].at \in {"claim", "agent", "sanitize", "leave"}
  /\ NoRecords(e)
  /\ solver' = [solver EXCEPT ![Box(e)] = NoSolver]
  /\ UNCHANGED <<image, kept, left, crossed>>

(* ReverificationProtocol.run: the marker is left as it is; a shared        *)
(* verification whose sanitation failed destroys the solver.                *)
Reverify(e) ==
  /\ At(e, "verify", "over")
  /\ \/ UNCHANGED solver
     \/ solver' = [solver EXCEPT ![Box(e)] = NoSolver]
  /\ UNCHANGED <<image, kept, left, segment, whole, crossed>>

(* The command is killed: the solver stays as it is. *)
KillCommand(e) ==
  /\ run[e].at \notin {"idle", "over"}
  /\ NoRecords(e)
  /\ UNCHANGED <<solver, image, kept, left, crossed>>

ContinuationNext ==
  \E e \in Episodes :
    \/ FreshEpisode(e) \/ Claim(e) \/ Parse(e) \/ ConversionFails(e)
    \/ Sanitize(e) \/ Retain(e) \/ TakeSnapshot(e) \/ DestroySolver(e)
    \/ Reverify(e) \/ KillCommand(e)
    \/ \E look \in Looks : Act(e, look)
    \/ \E s \in Episodes : BootSnapshot(e, s) \/ \E kind \in {"run", "reverify"} : Attach(e, s, kind)

-----------------------------------------------------------------------------
(* A command that was let in finds the agent state its source left, unless  *)
(* another command used the sandbox at the same time: "A retained solver    *)
(* serves only the episode whose agent state it still holds".               *)
SourcesAreAsLeft ==
  \A e \in Episodes :
    (run[e].at \in {"claim", "verify"} /\ Box(e) \notin crossed /\ solver[Box(e)].there)
      => solver[Box(e)].session = left[run[e].from]

SegmentIsOwn(e) ==
  LET s == run[e].from IN
  (/\ s # Nobody /\ run[e].kind = "run" /\ segment[e].start # Unknown /\ segment[e].resumed
   /\ whole[s] /\ Box(e) \notin crossed /\ Box(s) \notin crossed)
    => \A i \in 1 .. Len(segment[e].steps) : segment[e].steps[i].by = e

(* A trajectory cut out after the end of a source whose own session was     *)
(* read to its end holds the steps of its own episode and no others, down   *)
(* a chain of continuations, if no sandbox of the two was shared: what a    *)
(* second command does in the source's sandbox after its log was read       *)
(* leaves with the solver and is taken for the continuation's own.          *)
SegmentsAreOwn ==
  \A e \in Episodes : SegmentIsOwn(e)

-----------------------------------------------------------------------------
(* What the two rest on                                                     *)

SessionSteps == [by : Episodes, look : Looks]
Solvers  == [there : BOOLEAN, marker : Episodes \cup {Nobody}, session : Seq(SessionSteps)]
Stages   == {"idle", "claim", "verify", "agent", "sanitize", "leave", "over"}
Runs     == [at : Stages, kind : {"none", "run", "reverify"},
             from : Episodes \cup {Nobody}, box : Episodes \cup {Nobody}]
Segments == [steps : Seq(SessionSteps), resumed : BOOLEAN, start : Nat \cup {Unknown}]

ContinuationTypeOK ==
  /\ solver \in [Episodes -> Solvers]
  /\ image \in [Episodes -> Solvers]
  /\ run \in [Episodes -> Runs]
  /\ kept \in [Episodes -> {"none", "retained", "snapshot"}]
  /\ left \in [Episodes -> Seq(SessionSteps)]
  /\ segment \in [Episodes -> Segments]
  /\ whole \in [Episodes -> BOOLEAN]
  /\ crossed \subseteq Episodes

Live(e) == run[e].at \notin {"idle", "over"}

(* A command is in a sandbox somebody started; a source is over and kept,   *)
(* and its log was read before it was.                                      *)
RunInOrder(e) ==
  /\ run[e].at = "idle" => run[e] = NoRun
  /\ Live(e) => Box(e) # Nobody
  /\ Box(e) # Nobody => run[Box(e)].at # "idle"
  /\ kept[e] # "none" => run[e].at = "over" /\ Box(e) # Nobody
  /\ run[e].from # Nobody => kept[run[e].from] # "none"
  /\ run[e].at \in {"claim", "verify"} => run[e].from # Nobody
  /\ run[e].at \in {"idle", "claim", "verify", "agent"} =>
       ~whole[e] /\ segment[e] = NoSegment
  /\ run[e].at \in {"claim", "agent", "sanitize", "leave"} => run[e].kind = "run"

RunsAreInOrder == \A e \in Episodes : RunInOrder(e)

(* Only its user works in a sandbox that was not shared. *)
UsersAreAlone ==
  \A d, e \in Episodes :
    (Live(d) /\ Live(e) /\ Box(d) = Box(e) /\ Box(e) \notin crossed) => d = e

(* A solver nobody shared is at its user's stage, or still as the episode   *)
(* it names left it.                                                        *)
AtItsStage(e) ==
  (Live(e) /\ Box(e) \notin crossed /\ solver[Box(e)].there) =>
    /\ run[e].at \in {"claim", "verify"} => solver[Box(e)].session = left[run[e].from]
    /\ run[e].at \in {"agent", "sanitize"} => solver[Box(e)].marker \in {Nobody, e}
StillAsLeft(s) ==
  /\ (kept[s] = "retained" /\ Box(s) \notin crossed /\ Holds(Box(s), s))
       => solver[Box(s)].session = left[s]
  /\ kept[s] = "snapshot" => image[s].session = left[s]

SolversKeepTheirStage == \A e \in Episodes : AtItsStage(e) /\ StillAsLeft(e)

(* Past the source's end a session holds the continuation's steps; a whole  *)
(* trajectory with a link ends where the session does.                      *)
OwnFrom(e, session, n) ==
  n <= Len(session) /\ \A i \in n + 1 .. Len(session) : session[i].by = e
EndsAt(s, session) ==
  whole[s] /\ NativeStart(s) # Unknown => NativeStart(s) + Len(segment[s].steps) = Len(session)

MeetsSession(e) ==
  Box(e) \notin crossed =>
    /\ (run[e].at = "agent" /\ run[e].from # Nobody /\ solver[Box(e)].there)
         => OwnFrom(e, solver[Box(e)].session, Len(left[run[e].from]))
    /\ (run[e].at \in {"sanitize", "leave"} /\ solver[Box(e)].there)
         => EndsAt(e, solver[Box(e)].session)
    /\ kept[e] # "none" => EndsAt(e, left[e])

SegmentsMeetSessions == \A e \in Episodes : MeetsSession(e)

ContinuationInvariant ==
  /\ ContinuationTypeOK
  /\ RunsAreInOrder
  /\ UsersAreAlone
  /\ SolversKeepTheirStage
  /\ SegmentsMeetSessions
  /\ SegmentsAreOwn
=============================================================================
