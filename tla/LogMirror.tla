------------------------------ MODULE LogMirror ------------------------------
(***************************************************************************)
(* protocol/log_mirror.py: the Host copies of a harness's logs, extended   *)
(* while the agent writes, truncates and rewrites the files, and confirmed *)
(* once it has stopped.  Every call into the sandbox is an await, so the   *)
(* file may be another one at each of them; a poll may be cancelled there. *)
(*                                                                         *)
(* A file is the sequence of its pieces; two pieces differ or are equal.   *)
(***************************************************************************)
EXTENDS Integers, Sequences

CONSTANTS
  Logs,    \* the files a declared log may hold
  Pieces,  \* what one piece may contain
  MaxSize, \* bound: pieces of a file
  Absent   \* no such file

ASSUME MirrorAssumption == MaxSize \in Nat

VARIABLES
  guestLog, \* per file: its content in the guest, or Absent
  stopped,  \* the agent has stopped
  copy,     \* per file: the Host copy
  sync,     \* "idle", "polling", "final", "confirming", "done"
  listed,   \* per file: its size in this sync's listing
  pending,  \* the files this sync is still copying
  checks,   \* per file of the final sync: digests still to take
  missed    \* _failures

mirrorVars == <<guestLog, stopped, copy, sync, listed, pending, checks, missed>>

Contents == UNION {[1..n -> Pieces] : n \in 0..MaxSize}
Size(f)  == IF guestLog[f] = Absent THEN 0 ELSE Len(guestLog[f])
IsPrefixOfLog(f) == guestLog[f] # Absent /\ Len(copy[f]) <= Len(guestLog[f])
                    /\ \A i \in 1..Len(copy[f]) : copy[f][i] = guestLog[f][i]

MirrorInit ==
  /\ guestLog = [f \in Logs |-> Absent] /\ stopped = FALSE
  /\ copy \in [Logs -> {<<>>} \cup {<<p>> : p \in Pieces}]  \* an earlier mirror's
  /\ sync = "idle" /\ listed = [f \in Logs |-> 0]
  /\ pending = {} /\ checks = [f \in Logs |-> 0] /\ missed = {}

-----------------------------------------------------------------------------
(* The agent: append, truncate, rewrite in place, remove and create.        *)

AgentWrites ==
  /\ ~stopped
  /\ \E f \in Logs, c \in Contents \cup {Absent} : guestLog' = [guestLog EXCEPT ![f] = c]
  /\ UNCHANGED <<stopped, copy, sync, listed, pending, checks, missed>>

AgentStops ==
  /\ ~stopped /\ stopped' = TRUE
  /\ UNCHANGED <<guestLog, copy, sync, listed, pending, checks, missed>>

-----------------------------------------------------------------------------
(* sync                                                                     *)

(* Mutant: the final sync, like a poll, passes over a file that did not grow. *)
WantedIfGrown(f, final) == Size(f) > Len(copy'[f])

(* What a sync copies: whatever grew, and at the end everything. *)
Wanted(f, final) == final \/ Size(f) > Len(copy'[f])

(* The listing clears the failures; a copy longer than its file starts over. *)
ListLogs(final) ==
  /\ sync = "idle" /\ (final => stopped)
  /\ LET there == {f \in Logs : guestLog[f] # Absent}
     IN  /\ copy' = [f \in Logs |-> IF f \in there /\ Size(f) < Len(copy[f]) THEN <<>> ELSE copy[f]]
         /\ listed' = [f \in Logs |-> Size(f)]
         /\ pending' = {f \in there : Wanted(f, final)}
         /\ checks' = [f \in Logs |-> IF final /\ f \in pending' THEN 2 ELSE 0]
  /\ sync' = IF final THEN "final" ELSE "polling"
  /\ missed' = {}
  /\ UNCHANGED <<guestLog, stopped>>

(* The listing fails: nothing is copied, and the root is reported. *)
ListFails(final) ==
  /\ sync = "idle" /\ (final => stopped)
  /\ missed' = Logs /\ sync' = IF final THEN "done" ELSE "idle"
  /\ UNCHANGED <<guestLog, stopped, copy, listed, pending, checks>>

Forget(f) == pending' = pending \ {f} /\ missed' = missed \cup {f}

(* Mutant: a short read is appended and the file left for the next sync. *)
PullShort(f) ==
  /\ copy' = IF Len(copy[f]) < Size(f)
               THEN [copy EXCEPT ![f] = Append(@, guestLog[f][Len(@) + 1])] ELSE copy
  /\ pending' = IF Len(copy'[f]) < listed[f] /\ Len(copy'[f]) < Size(f) THEN pending ELSE pending \ {f}
  /\ UNCHANGED missed

(* _pull: one piece, unless the file has become too short or unreadable. *)
Pull(f) ==
  \/ /\ Len(copy[f]) < listed[f] => Len(copy[f]) < Size(f)
     /\ copy' = IF Len(copy[f]) < listed[f]
                  THEN [copy EXCEPT ![f] = Append(@, guestLog[f][Len(@) + 1])] ELSE copy
     /\ pending' = IF Len(copy'[f]) < listed[f] THEN pending ELSE pending \ {f}
     /\ UNCHANGED missed
  \/ Forget(f) /\ UNCHANGED copy

PullAll ==
  /\ sync \in {"polling", "final"}
  /\ \E f \in pending : Pull(f)
  /\ UNCHANGED <<guestLog, stopped, sync, listed, checks>>

Unchecked == {f \in Logs : checks[f] > 0} \ missed

EndOfPull ==
  /\ sync \in {"polling", "final"} /\ pending = {}
  /\ sync' = IF sync = "polling" THEN "idle" ELSE "confirming"
  /\ UNCHANGED <<guestLog, stopped, copy, listed, pending, checks, missed>>

(* _confirm: a copy whose digest differs is pulled again and checked again. *)
Confirm(f) ==
  IF copy[f] = <<>> \/ IsPrefixOfLog(f)
    THEN checks' = [checks EXCEPT ![f] = 0] /\ UNCHANGED <<copy, pending, missed>>
    ELSE /\ copy' = [copy EXCEPT ![f] = <<>>]
         /\ checks' = [checks EXCEPT ![f] = @ - 1]
         /\ pending' = IF checks[f] = 2 THEN {f} ELSE {}
         /\ missed' = IF checks[f] = 2 THEN missed ELSE missed \cup {f}

ConfirmNext ==
  /\ sync = "confirming"
  /\ \/ \E f \in pending : Pull(f) /\ UNCHANGED checks
     \/ pending = {} /\ \E f \in Unchecked :
          \/ Confirm(f)
          \/ Forget(f) /\ UNCHANGED <<copy, checks>>       \* the digest cannot be read
  /\ UNCHANGED <<guestLog, stopped, sync, listed>>

EndOfSync ==
  /\ sync = "confirming" /\ pending = {} /\ Unchecked = {}
  /\ sync' = "done"
  /\ UNCHANGED <<guestLog, stopped, copy, listed, pending, checks, missed>>

(* A poll is cancelled when the agent's wait ends. *)
CancelPoll ==
  /\ sync = "polling"
  /\ sync' = "idle" /\ pending' = {}
  /\ UNCHANGED <<guestLog, stopped, copy, listed, checks, missed>>

MirrorNext ==
  \/ AgentWrites \/ AgentStops
  \/ \E final \in BOOLEAN : ListLogs(final) \/ ListFails(final)
  \/ PullAll \/ EndOfPull \/ ConfirmNext \/ EndOfSync \/ CancelPoll

MirrorSpec == MirrorInit /\ [][MirrorNext]_mirrorVars

-----------------------------------------------------------------------------
(* When the mirror reports nothing incomplete, every log the agent left is on
   the Host exactly as it was left, whatever the agent truncated, replaced or
   rewrote between a listing, a read and a cancelled poll, and whatever an
   earlier mirror had copied there. *)
UnreportedCopiesAreExact ==
  sync = "done" => \A f \in Logs :
    guestLog[f] # Absent /\ f \notin missed => copy[f] = guestLog[f]

-----------------------------------------------------------------------------
(* Why: in a final sync nothing changes in the guest, what is not pending is *)
(* as long as its log, and what is not to be checked any more is its log.    *)
MirrorTypeOK ==
  /\ guestLog \in [Logs -> Seq(Pieces) \cup {Absent}] /\ stopped \in BOOLEAN
  /\ copy \in [Logs -> Seq(Pieces)] /\ listed \in [Logs -> Nat]
  /\ sync \in {"idle", "polling", "final", "confirming", "done"}
  /\ pending \in SUBSET Logs /\ missed \in SUBSET Logs /\ checks \in [Logs -> 0 .. 2]

CopiedFinally(f) ==
  /\ listed[f] = Len(guestLog[f]) /\ Len(copy[f]) <= listed[f]
  /\ f \notin pending => Len(copy[f]) = listed[f]
  /\ f \in pending => checks[f] > 0
  /\ checks[f] = 0 => copy[f] = guestLog[f]
  /\ sync = "done" => checks[f] = 0

FinalSync ==
  sync \in {"final", "confirming", "done"} =>
    stopped /\ \A f \in Logs : guestLog[f] # Absent /\ f \notin missed => CopiedFinally(f)

MirrorInvariant == MirrorTypeOK /\ FinalSync
=============================================================================
