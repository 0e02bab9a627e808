---------------------------- MODULE EvidenceStore ----------------------------
(***************************************************************************)
(* recording.py: what one episode keeps on disk while its process may die  *)
(* at any file operation and open the same directory again: the execution  *)
(* trace (JsonlWriter), the content-addressed blobs (BlobStore), the       *)
(* streamed output of a command (CommandRecorder) and its recovery; and    *)
(* how the agent's trajectory is put in place, with the exact tokens of    *)
(* its model calls, before the transport trace refers to it.               *)
(*                                                                         *)
(* A command's output is named by how much of it there is; text that stays *)
(* inline in its event is left out.  A write torn by a crash leaves a      *)
(* fragment without a newline, which the next append completes.            *)
(***************************************************************************)
EXTENDS Integers, Sequences, SequencesExt

CONSTANTS
  Commands,    \* the commands recorded
  ModelCalls,  \* the settled calls the trajectory's steps belong to
  MaxOutput,   \* bound: output events of a command
  MaxCrash     \* bound: crashes

ASSUME EvidenceAssumption == MaxOutput \in Nat /\ MaxCrash \in Nat

VARIABLES
  trace,    \* the lines of trace.execution.jsonl
  nextSeq,  \* _next_seq, or -1 while no process has the trace open
  partial,  \* per command: the size of its partial file, or -1 for none
  blobs,    \* the blobs in place: {<<command, size>>}
  stray,    \* temporary files a crash left
  command,  \* per command: how far its recorder is
  held,     \* per command: the output read from the file it has unlinked
  torn,     \* whether an append was ever torn
  crashes,
  steps     \* the trajectory: how far its conversion is, and what is on disk

evidenceVars == <<trace, nextSeq, partial, blobs, stray, command, held, torn, crashes, steps>>
recorderVars == <<trace, nextSeq, partial, stray, command, held, torn, crashes>>

Fragment == [seq |-> -1, kind |-> "fragment", blob |-> <<>>]
Glued    == [seq |-> -1, kind |-> "glued", blob |-> <<>>]
Open     == nextSeq >= 0
Payload  == <<"trajectory", 1>>

EvidenceInit ==
  /\ trace = <<>> /\ nextSeq = 0
  /\ partial = [c \in Commands |-> -1]
  /\ blobs = {} /\ stray = FALSE
  /\ command = [c \in Commands |-> "none"]
  /\ held = [c \in Commands |-> -1]
  /\ torn = FALSE /\ crashes = 0
  /\ steps = [at |-> "agent", tokens |-> ModelCalls, written |-> FALSE, linked |-> {},
              references |-> "unchecked"]

-----------------------------------------------------------------------------
(* JsonlWriter.append: one line, glued to a fragment the file ends with. *)
Extended(line) ==
  IF trace # <<>> /\ trace[Len(trace)] = Fragment
    THEN Append(Front(trace), IF line = Fragment THEN Fragment ELSE Glued)
    ELSE Append(trace, line)

Log(kind, blob) ==
  /\ trace' = Extended([seq |-> nextSeq, kind |-> kind, blob |-> blob])
  /\ nextSeq' = nextSeq + 1

(* The lines a reader, and the next opening, gets before the first bad one. *)
Readable == LET bad == {i \in 1..Len(trace) : trace[i] \in {Fragment, Glued}}
            IN  IF bad = {} THEN trace
                ELSE SubSeq(trace, 1, (CHOOSE i \in bad : \A j \in bad : i <= j) - 1)

(* _existing_next_seq stops at the first line it cannot read. *)
ExistingNextSeq ==
  IF Readable = <<>> THEN 0
  ELSE 1 + (CHOOSE m \in {Readable[i].seq : i \in 1..Len(Readable)} :
              \A i \in 1..Len(Readable) : Readable[i].seq <= m)

-----------------------------------------------------------------------------
(* CommandRecorder.                                                         *)

(* A conversion is one stretch of the event loop.                           *)
LoopIsFree == steps.at \notin {"tokens", "links"} /\ steps.references = "unchecked"

Start(c) ==
  /\ Open /\ command[c] = "none" /\ LoopIsFree
  /\ Log("command_started", <<>>)
  /\ command' = [command EXCEPT ![c] = "running"]
  /\ UNCHANGED <<partial, blobs, stray, held, torn, crashes, steps>>

Write(c) ==
  /\ Open /\ command[c] = "running" /\ partial[c] < MaxOutput
  /\ partial' = [partial EXCEPT ![c] = IF @ = -1 THEN 1 ELSE @ + 1]
  /\ UNCHANGED <<trace, nextSeq, blobs, stray, command, held, torn, crashes, steps>>

(* finish: the file is read and unlinked before its blob is put. *)
Unlink(c) ==
  /\ Open /\ command[c] = "running"
  /\ command' = [command EXCEPT ![c] = "unlinked"]
  /\ held' = [held EXCEPT ![c] = partial[c]]
  /\ partial' = [partial EXCEPT ![c] = -1]
  /\ UNCHANGED <<trace, nextSeq, blobs, stray, torn, crashes, steps>>

(* BlobStore.put: a temporary file, then a rename onto the digest's name. *)
PutBlob(c) ==
  /\ Open /\ command[c] = "unlinked"
  /\ blobs' = IF held[c] > 0 THEN blobs \cup {<<c, held[c]>>} ELSE blobs
  /\ command' = [command EXCEPT ![c] = "stored"]
  /\ UNCHANGED <<trace, nextSeq, partial, stray, held, torn, crashes, steps>>

(* Mutant: the terminal event is written before what it refers to. *)
FinishableEarly(c) == command[c] \in {"unlinked", "stored"}

Finishable(c) == command[c] = "stored"

Finish(c) ==
  /\ Open /\ Finishable(c)
  /\ Log("command_finished", IF held[c] > 0 THEN <<c, held[c]>> ELSE <<>>)
  /\ command' = [command EXCEPT ![c] = "finished"]
  /\ held' = [held EXCEPT ![c] = -1]
  /\ UNCHANGED <<partial, blobs, stray, torn, crashes, steps>>

-----------------------------------------------------------------------------
(* The process dies between two file operations, in the middle of an       *)
(* append, or with a temporary blob half written.                           *)
Crash ==
  /\ Open /\ crashes < MaxCrash
  /\ crashes' = crashes + 1 /\ nextSeq' = -1
  /\ \/ UNCHANGED <<trace, stray, torn>>
     \/ trace' = Extended(Fragment) /\ torn' = TRUE /\ UNCHANGED stray
     \/ stray' = TRUE /\ UNCHANGED <<trace, torn>>
  /\ command' = [c \in Commands |-> IF command[c] \in {"none", "finished"}
                                      THEN command[c] ELSE "interrupted"]
  /\ held' = [c \in Commands |-> -1]
  /\ steps' = [steps EXCEPT !.at = IF @ = "linked" THEN @ ELSE "given_up",
                            !.references = "unchecked"]
  /\ UNCHANGED <<partial, blobs>>

(* EpisodeRecording: the trace is opened and temporary files are removed. *)
Reopen ==
  /\ ~Open
  /\ nextSeq' = ExistingNextSeq /\ stray' = FALSE
  /\ UNCHANGED <<trace, partial, blobs, command, held, torn, crashes, steps>>

(* _recover_partials: put, unlink, append; Put's rename may already have   *)
(* happened before an earlier crash.                                        *)
RecoverPut(c) ==
  /\ Open /\ command[c] = "interrupted" /\ partial[c] > 0
  /\ blobs' = blobs \cup {<<c, partial[c]>>}
  /\ command' = [command EXCEPT ![c] = "recovering"]
  /\ UNCHANGED <<trace, nextSeq, partial, stray, held, torn, crashes, steps>>

RecoverUnlink(c) ==
  /\ Open /\ command[c] = "recovering" /\ partial[c] > 0
  /\ held' = [held EXCEPT ![c] = partial[c]]
  /\ partial' = [partial EXCEPT ![c] = -1]
  /\ UNCHANGED <<trace, nextSeq, blobs, stray, command, torn, crashes, steps>>

RecoverLog(c) ==
  /\ Open /\ command[c] = "recovering" /\ held[c] > 0
  /\ Log("partial_output_recovered", <<c, held[c]>>)
  /\ held' = [held EXCEPT ![c] = -1]
  /\ command' = [command EXCEPT ![c] = "finished"]
  /\ UNCHANGED <<partial, blobs, stray, torn, crashes, steps>>

-----------------------------------------------------------------------------
(* The agent's trajectory.  Its parser puts what is too long to stay in it;  *)
(* _exact_token_metrics takes the tokens of a call out of its file and       *)
(* unlinks that before the trajectory is written, and gives up on a file     *)
(* that is not what it should be; links follow the trajectory.               *)
NothingRecorded == \A c \in Commands : command[c] \in {"none", "finished", "interrupted"} /\ partial[c] = -1

ParseTrajectory ==
  /\ Open /\ NothingRecorded /\ steps.at = "agent"
  /\ blobs' = blobs \cup {Payload} /\ steps' = [steps EXCEPT !.at = "tokens"]
  /\ UNCHANGED recorderVars

TakeTokens(m) ==
  /\ Open /\ steps.at = "tokens" /\ m \in steps.tokens
  /\ steps' \in {[steps EXCEPT !.tokens = @ \ {m}], [steps EXCEPT !.at = "given_up"]}
  /\ UNCHANGED <<blobs, recorderVars>>

WriteTrajectory ==
  /\ Open /\ steps.at = "tokens" /\ steps.tokens = {}
  /\ steps' = [steps EXCEPT !.at = "links", !.written = TRUE]
  /\ UNCHANGED <<blobs, recorderVars>>

LinkCall(m) ==
  /\ Open /\ steps.at = "links" /\ m \notin steps.linked
  /\ LET linked == steps.linked \cup {m}
     IN steps' = [steps EXCEPT !.linked = linked, !.at = IF linked = ModelCalls THEN "linked" ELSE @]
  /\ UNCHANGED <<blobs, recorderVars>>

(* verify_blob_references: every complete line is parsed, and every blob it  *)
(* or the trajectory names is there; a fragment at the end is passed over.   *)
Resolve == /\ \A i \in 1..Len(trace) : trace[i].blob # <<>> => trace[i].blob \in blobs
           /\ \A i \in 1..Len(trace) : trace[i].kind # "glued"
           /\ steps.written => Payload \in blobs

VerifyReferences ==
  /\ Open /\ NothingRecorded /\ steps.at \in {"linked", "given_up"} /\ steps.references = "unchecked"
  /\ steps' = [steps EXCEPT !.references = IF Resolve THEN "whole" ELSE "refused"]
  /\ UNCHANGED <<blobs, recorderVars>>

EvidenceNext ==
  \/ Crash \/ Reopen
  \/ ParseTrajectory \/ WriteTrajectory \/ VerifyReferences
  \/ \E m \in ModelCalls : TakeTokens(m) \/ LinkCall(m)
  \/ \E c \in Commands :
       \/ Start(c) \/ Write(c) \/ Unlink(c) \/ PutBlob(c) \/ Finish(c)
       \/ RecoverPut(c) \/ RecoverUnlink(c) \/ RecoverLog(c)

-----------------------------------------------------------------------------
(* Whatever was interrupted, a record that can be read refers to a blob that is
   there with all its bytes, no output is recorded twice, and the sequence
   numbers of the readable records run from zero without a gap.  As long as no
   append was torn, every record can be read and the episode's references are
   not refused.  What is linked to a step has its trajectory in place. *)
EvidenceResolves ==
  LET lines == Readable
  IN  /\ \A i \in 1..Len(lines) : /\ lines[i].blob # <<>> => lines[i].blob \in blobs
                                  /\ lines[i].seq = i - 1
      /\ \A i, j \in 1..Len(lines) : lines[i].blob = lines[j].blob /\ lines[i].blob # <<>> => i = j
      /\ ~torn => lines = trace /\ steps.references # "refused"
      /\ steps.linked # {} => steps.written
      /\ steps.written => Payload \in blobs
=============================================================================
