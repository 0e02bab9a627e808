------------------------------ MODULE RunLedger ------------------------------
(***************************************************************************)
(* ledger.py, run_episode_with_retries of episode.py and the episode loop  *)
(* of cli/tasks.py: the invocations of `ale run` that share one run        *)
(* directory.  Each is a process that may be killed between any two of its *)
(* effects on disk, and a later one, or one started beside it, opens the   *)
(* same ledger.db and decides from its rows what is left to do.            *)
(*                                                                         *)
(* The episodes are those of one identity (one Task, configuration and     *)
(* agent): rows of other identities are never compared with them.          *)
(***************************************************************************)
EXTENDS Naturals, FiniteSets

CONSTANTS
  Hosts,        \* invocations, numbered in the order in which they start
  Episodes,     \* episode ids, numbered in the order in which they are drawn
  Counts,       \* what `episodes` may be set to
  Retries,      \* settings.episode_retries
  Concurrency,  \* settings.concurrency
  Beside,       \* the invocations that may start while another is alive
  NoHost, NoRow

Attempts == 1 .. Retries + 1
Records  == {"lock", "result"}

(* What an attempt's verdict means to the retry loop.  Only "failed" asks   *)
(* for another attempt; "stopped" is a timeout, an exhausted budget, a      *)
(* refusal, or a failure of the verification's infrastructure.              *)
Endings == {"completed", "stopped", "failed"}

ASSUME LedgerAssumption ==
  /\ Hosts \subseteq Nat /\ Episodes \subseteq Nat /\ Counts \subseteq Nat
  /\ Beside \subseteq Hosts
  /\ IsFiniteSet(Episodes)
  /\ Retries \in Nat /\ Concurrency \in Nat \ {0}
  /\ NoHost \notin Hosts /\ NoRow \notin [episode: Episodes, status: Endings]

VARIABLES
  host,      \* per invocation: where _run_one is
  unread,    \* per invocation: rows it has yet to reconcile
  held,      \* per invocation: a result it has read and not yet projected
  left,      \* per invocation: episodes it has yet to queue
  row,       \* ledger.db: status and whether current_phase is set
  owner,     \* the invocation that drew the episode id
  task,      \* per episode: where its one() is
  attempt,   \* per episode: which attempt is running
  current,   \* <run>/<episode>/: whose records are in it (0: none)
  archive,   \* <run>/<episode>/attempts/<n>/: the same
  outcome,   \* what the result.json of an attempt says
  goal,      \* history: successes the invocations asked for
  together   \* history: two invocations have been alive at once

hostVars   == <<host, unread, held, left>>
taskVars   == <<task, attempt, current, archive, outcome>>
ledgerVars == <<hostVars, taskVars, row, owner, goal, together>>

Alive(h)   == host[h] \notin {"new", "ended", "killed"}
Of(h)      == {e \in Episodes : owner[e] = h}
Inside     == {"working", "decide", "archive"}   \* what one() does inside the gate
Admitted(h) == {e \in Of(h) : task[e] \in Inside}

Empty == [r \in Records |-> 0]

LedgerInit ==
  /\ host = [h \in Hosts |-> "new"]
  /\ unread = [h \in Hosts |-> {}]
  /\ held = [h \in Hosts |-> NoRow]
  /\ left = [h \in Hosts |-> 0]
  /\ row = [e \in Episodes |-> [status |-> "none", phase |-> FALSE]]
  /\ owner = [e \in Episodes |-> NoHost]
  /\ task = [e \in Episodes |-> "none"]
  /\ attempt = [e \in Episodes |-> 0]
  /\ current = [e \in Episodes |-> Empty]
  /\ archive = [e \in Episodes |-> [n \in Attempts |-> Empty]]
  /\ outcome = [e \in Episodes |-> [n \in Attempts |-> "none"]]
  /\ goal = 0 /\ together = FALSE

-----------------------------------------------------------------------------
(* Opening the ledger.                                                      *)

Terminal(s) == s \in Endings
HasResult(e) == current[e].result # 0
ResultOf(e) == outcome[e][current[e].result]

(* Mutant: stale rows are interrupted without looking for their results. *)
OpenTrustingRows(h) ==
  /\ host[h] = "new" /\ \A g \in Hosts : g < h => host[g] # "new"
  /\ h \in Beside \/ \A g \in Hosts : ~Alive(g)
  /\ host' = [host EXCEPT ![h] = "reconcile"]
  /\ together' = (together \/ \E g \in Hosts : Alive(g))
  /\ UNCHANGED <<unread, held, left, row, owner, taskVars, goal>>

(* The rows that exist are selected before any result is read. *)
Open(h) ==
  /\ host[h] = "new" /\ \A g \in Hosts : g < h => host[g] # "new"
  /\ h \in Beside \/ \A g \in Hosts : ~Alive(g)
  /\ host' = [host EXCEPT ![h] = "reconcile"]
  /\ unread' = [unread EXCEPT ![h] = {e \in Episodes : row[e].status # "none"}]
  /\ together' = (together \/ \E g \in Hosts : Alive(g))
  /\ UNCHANGED <<held, left, row, owner, taskVars, goal>>

ReadResult(h, e) ==
  /\ host[h] = "reconcile" /\ held[h] = NoRow /\ e \in unread[h]
  /\ unread' = [unread EXCEPT ![h] = @ \ {e}]
  /\ held' = IF HasResult(e)
               THEN [held EXCEPT ![h] = [episode |-> e, status |-> ResultOf(e)]]
               ELSE held
  /\ UNCHANGED <<host, left, row, owner, taskVars, goal, together>>

ProjectResult(h) ==
  /\ host[h] = "reconcile" /\ held[h] # NoRow
  /\ row' = [row EXCEPT ![held[h].episode] = [status |-> held[h].status, phase |-> FALSE]]
  /\ held' = [held EXCEPT ![h] = NoRow]
  /\ UNCHANGED <<host, unread, left, owner, taskVars, goal, together>>

(* Mutant: only the rows that ran are stale. *)
InterruptRunningRows(h) ==
  /\ host[h] = "reconcile" /\ held[h] = NoRow /\ unread[h] = {}
  /\ row' = [e \in Episodes |-> IF row[e].status = "running"
                                  THEN [status |-> "interrupted", phase |-> FALSE]
                                  ELSE row[e]]
  /\ host' = [host EXCEPT ![h] = "count"]
  /\ UNCHANGED <<unread, held, left, owner, taskVars, goal, together>>

(* Mutant: every episode that has not succeeded is declared interrupted. *)
InterruptUnsuccessfulRows(h) ==
  /\ host[h] = "reconcile" /\ held[h] = NoRow /\ unread[h] = {}
  /\ row' = [e \in Episodes |-> IF row[e].status \notin {"none", "completed"}
                                  THEN [status |-> "interrupted", phase |-> FALSE]
                                  ELSE row[e]]
  /\ host' = [host EXCEPT ![h] = "count"]
  /\ UNCHANGED <<unread, held, left, owner, taskVars, goal, together>>

InterruptStaleRows(h) ==
  /\ host[h] = "reconcile" /\ held[h] = NoRow /\ unread[h] = {}
  /\ row' = [e \in Episodes |-> IF row[e].status \in {"queued", "running"}
                                  THEN [status |-> "interrupted", phase |-> FALSE]
                                  ELSE row[e]]
  /\ host' = [host EXCEPT ![h] = "count"]
  /\ UNCHANGED <<unread, held, left, owner, taskVars, goal, together>>

-----------------------------------------------------------------------------
(* Deciding what to run.                                                    *)

Done      == {e \in Episodes : row[e].status = "completed"}
Fresh     == {e \in Episodes : owner[e] = NoHost}
Beyond(a, b) == IF a > b THEN a - b ELSE 0

(* `resume` and clean assets let completed rows count; \E n: the settings   *)
(* of this invocation.  The model has no more ids than Episodes.            *)
CountDone(h) ==
  /\ host[h] = "count"
  /\ \E n \in Counts :
       \/ /\ left' = [left EXCEPT ![h] = Beyond(n, Cardinality(Done))]
          /\ goal' = goal + Beyond(n, goal)
       \/ /\ left' = [left EXCEPT ![h] = n]
          /\ goal' = goal + n
  /\ left'[h] <= Cardinality(Fresh)
  /\ host' = [host EXCEPT ![h] = "queue"]
  /\ UNCHANGED <<unread, held, row, owner, taskVars, together>>

QueueEpisode(h, e) ==
  /\ host[h] = "queue" /\ left[h] > 0
  /\ e \in Fresh /\ \A f \in Fresh : e <= f
  /\ owner' = [owner EXCEPT ![e] = h]
  /\ row' = [row EXCEPT ![e] = [status |-> "queued", phase |-> FALSE]]
  /\ task' = [task EXCEPT ![e] = "waiting"]
  /\ left' = [left EXCEPT ![h] = @ - 1]
  /\ UNCHANGED <<host, unread, held, attempt, current, archive, outcome, goal, together>>

(* asyncio.gather starts every one(). *)
StartEpisodes(h) ==
  /\ host[h] = "queue" /\ left[h] = 0
  /\ host' = [host EXCEPT ![h] = "run"]
  /\ UNCHANGED <<unread, held, left, row, owner, taskVars, goal, together>>

-----------------------------------------------------------------------------
(* One logical episode: one() and run_episode_with_retries.                 *)

Running(h, e) == host[h] = "run" /\ owner[e] = h

Begin(e, n) ==
  /\ task' = [task EXCEPT ![e] = "working"]
  /\ attempt' = [attempt EXCEPT ![e] = n]

MarkRunning(h, e) ==
  /\ Running(h, e) /\ task[e] = "waiting"
  /\ Cardinality(Admitted(h)) < Concurrency
  /\ row' = [row EXCEPT ![e] = [status |-> "running", phase |-> FALSE]]
  /\ Begin(e, 1)
  /\ UNCHANGED <<hostVars, owner, current, archive, outcome, goal, together>>

UpdatePhase(h, e) ==
  /\ Running(h, e) /\ task[e] = "working" /\ current[e].lock = 0
  /\ row' = [row EXCEPT ![e].phase = TRUE]
  /\ UNCHANGED <<hostVars, taskVars, owner, goal, together>>

(* Mutant: the verdict is projected before its result is durable. *)
WriteLockAndRow(h, e) ==
  /\ Running(h, e) /\ task[e] = "working" /\ current[e].lock = 0
  /\ current' = [current EXCEPT ![e].lock = attempt[e]]
  /\ row' = [row EXCEPT ![e] = [status |-> "completed", phase |-> FALSE]]
  /\ UNCHANGED <<hostVars, owner, task, attempt, archive, outcome, goal, together>>

WriteLock(h, e) ==
  /\ Running(h, e) /\ task[e] = "working" /\ current[e].lock = 0
  /\ current' = [current EXCEPT ![e].lock = attempt[e]]
  /\ UNCHANGED <<hostVars, row, owner, task, attempt, archive, outcome, goal, together>>

(* The last write of an attempt; without a lock the episode has failed. *)
WriteResult(h, e) ==
  /\ Running(h, e) /\ task[e] = "working"
  /\ \E o \in Endings :
       /\ current[e].lock = 0 => o = "failed"
       /\ outcome' = [outcome EXCEPT ![e][attempt[e]] = o]
  /\ current' = [current EXCEPT ![e].result = attempt[e]]
  /\ task' = [task EXCEPT ![e] = "decide"]
  /\ UNCHANGED <<hostVars, row, owner, attempt, archive, goal, together>>

(* Mutant: one attempt too many. *)
IsBeyondLast(e) == outcome[e][attempt[e]] # "failed" \/ attempt[e] = Retries + 2

IsLast(e) == outcome[e][attempt[e]] # "failed" \/ attempt[e] = Retries + 1

MakeArchive(h, e) ==
  /\ Running(h, e) /\ task[e] = "decide" /\ ~IsLast(e)
  /\ task' = [task EXCEPT ![e] = "archive"]
  /\ UNCHANGED <<hostVars, row, owner, attempt, current, archive, outcome, goal, together>>

(* iterdir() yields the records in no particular order. *)
ArchiveRecord(h, e, r) ==
  /\ Running(h, e) /\ task[e] = "archive" /\ current[e][r] # 0
  /\ archive' = [archive EXCEPT ![e][attempt[e]][r] = current[e][r]]
  /\ current' = [current EXCEPT ![e][r] = 0]
  /\ UNCHANGED <<hostVars, row, owner, task, attempt, outcome, goal, together>>

(* Mutant: the next attempt starts although records are left behind. *)
RetryEarly(h, e) ==
  /\ Running(h, e) /\ task[e] = "archive" /\ current[e].lock = 0
  /\ Begin(e, attempt[e] + 1)
  /\ UNCHANGED <<hostVars, row, owner, current, archive, outcome, goal, together>>

Retry(h, e) ==
  /\ Running(h, e) /\ task[e] = "archive" /\ current[e] = Empty
  /\ Begin(e, attempt[e] + 1)
  /\ UNCHANGED <<hostVars, row, owner, current, archive, outcome, goal, together>>

(* The gate is left before the row is finished. *)
LeaveGate(h, e) ==
  /\ Running(h, e) /\ task[e] = "decide" /\ IsLast(e)
  /\ task' = [task EXCEPT ![e] = "settled"]
  /\ UNCHANGED <<hostVars, row, owner, attempt, current, archive, outcome, goal, together>>

(* Mutant: the row is finished with what the first attempt returned. *)
FinishWithFirst(h, e) ==
  /\ Running(h, e) /\ task[e] = "settled"
  /\ row' = [row EXCEPT ![e] = [status |-> outcome[e][1], phase |-> FALSE]]
  /\ task' = [task EXCEPT ![e] = "done"] /\ attempt' = [attempt EXCEPT ![e] = 0]
  /\ UNCHANGED <<hostVars, owner, current, archive, outcome, goal, together>>

FinishEpisode(h, e) ==
  /\ Running(h, e) /\ task[e] = "settled"
  /\ row' = [row EXCEPT ![e] = [status |-> outcome[e][attempt[e]], phase |-> FALSE]]
  /\ task' = [task EXCEPT ![e] = "done"] /\ attempt' = [attempt EXCEPT ![e] = 0]
  /\ UNCHANGED <<hostVars, owner, current, archive, outcome, goal, together>>

(* one() raises: the database is locked, a rename fails, run_episode raised *)
(* or was cancelled.  gather keeps the exception, the row stays as it is.   *)
Raise(h, e) ==
  /\ Running(h, e) /\ task[e] \in Inside \cup {"waiting", "settled"}
  /\ task' = [task EXCEPT ![e] = "raised"] /\ attempt' = [attempt EXCEPT ![e] = 0]
  /\ UNCHANGED <<hostVars, row, owner, current, archive, outcome, goal, together>>

-----------------------------------------------------------------------------
(* The end of an invocation.                                                *)

Close(h) ==
  /\ host[h] = "run" /\ \A e \in Of(h) : task[e] \in {"done", "raised"}
  /\ host' = [host EXCEPT ![h] = "ended"]
  /\ UNCHANGED <<unread, held, left, row, owner, taskVars, goal, together>>

(* What the process holds is gone, what is on disk stays. *)
Kill(h) ==
  /\ Alive(h)
  /\ host' = [host EXCEPT ![h] = "killed"]
  /\ unread' = [unread EXCEPT ![h] = {}]
  /\ held' = [held EXCEPT ![h] = NoRow]
  /\ left' = [left EXCEPT ![h] = 0]
  /\ task' = [e \in Episodes |-> IF e \in Of(h) THEN "raised" ELSE task[e]]
  /\ attempt' = [e \in Episodes |-> IF e \in Of(h) THEN 0 ELSE attempt[e]]
  /\ UNCHANGED <<row, owner, current, archive, outcome, goal, together>>

OpenStep(h) ==
  \/ Open(h) \/ \E e \in Episodes : ReadResult(h, e)
  \/ ProjectResult(h) \/ InterruptStaleRows(h) \/ CountDone(h)
  \/ \E e \in Episodes : QueueEpisode(h, e)
  \/ StartEpisodes(h)

EpisodeStep(h, e) ==
  \/ MarkRunning(h, e) \/ UpdatePhase(h, e) \/ WriteLock(h, e) \/ WriteResult(h, e)
  \/ MakeArchive(h, e) \/ (\E r \in Records : ArchiveRecord(h, e, r)) \/ Retry(h, e)
  \/ LeaveGate(h, e) \/ FinishEpisode(h, e) \/ Raise(h, e)

LedgerNext == \E h \in Hosts :
  \/ OpenStep(h) \/ (\E e \in Episodes : EpisodeStep(h, e)) \/ Close(h) \/ Kill(h)

LedgerSpec == LedgerInit /\ [][LedgerNext]_ledgerVars

-----------------------------------------------------------------------------
(* Properties.                                                              *)

Statuses == Endings \cup {"none", "queued", "running", "interrupted"}
Holding  == [Records -> Attempts \cup {0}]

(* Every variable has the type its columns and files have. *)
LedgerTypeOK ==
  /\ host \in [Hosts -> {"new", "reconcile", "count", "queue", "run", "ended", "killed"}]
  /\ unread \in [Hosts -> SUBSET Episodes]
  /\ held \in [Hosts -> {NoRow} \cup [episode: Episodes, status: Endings]]
  /\ left \in [Hosts -> Nat]
  /\ row \in [Episodes -> [status: Statuses, phase: BOOLEAN]]
  /\ owner \in [Episodes -> Hosts \cup {NoHost}]
  /\ task \in [Episodes -> Inside \cup {"none", "waiting", "settled", "done", "raised"}]
  /\ attempt \in [Episodes -> Attempts \cup {0}]
  /\ current \in [Episodes -> Holding]
  /\ archive \in [Episodes -> [Attempts -> Holding]]
  /\ outcome \in [Episodes -> [Attempts -> Endings \cup {"none"}]]
  /\ goal \in Nat /\ together \in BOOLEAN

(* A row that counts as done has a completed result.json in its directory,  *)
(* whatever processes share the ledger and wherever they were killed.       *)
CompletedIsDurable ==
  \A e \in Episodes : row[e].status = "completed" => HasResult(e) /\ ResultOf(e) = "completed"

(* A terminal row says what the current result.json says: the row is        *)
(* projected after the result and from it, through kills and reopening.     *)
RowsFollowResults ==
  ~together => \A e \in Episodes :
    Terminal(row[e].status) => HasResult(e) /\ row[e].status = ResultOf(e)

(* While an attempt runs, its directory holds no record of an earlier one,  *)
(* and each earlier one is archived, failed, under its own number.          *)
RetriesStartClean ==
  \A e \in Episodes : task[e] = "working" =>
    /\ \A r \in Records : current[e][r] \in {0, attempt[e]}
    /\ ~HasResult(e)
    /\ \A n \in Attempts : n < attempt[e] =>
         /\ outcome[e][n] = "failed"
         /\ archive[e][n].lock \in {0, n} /\ archive[e][n].result = n

Successes == {e \in Episodes : HasResult(e) /\ ResultOf(e) = "completed"}

(* Invocations that follow one another never run an episode again that has  *)
(* succeeded, even if the process died before its row said so: there are no *)
(* more successes than were asked for.                                      *)
SuccessesAreNotRepeated == ~together => Cardinality(Successes) <= goal

OwnersAreCurrent == \A h \in Hosts, e \in Episodes :
  host[h] \in {"count", "queue", "run"} /\ owner[e] # h
    => row[e].status \notin {"queued", "running"}

(* Once an invocation has opened the ledger, no row of an earlier one is    *)
(* left queued or running.                                                  *)
StaleRowsAreInterrupted == ~together => OwnersAreCurrent

(* A row's final status is final: no reopening rewrites it. *)
FinalRowsStay ==
  [][~together' => \A e \in Episodes :
       row[e].status \in Endings \cup {"interrupted"} => row'[e] = row[e]]_ledgerVars

(* docs/specs/trace.md: "Every archived attempt retains its complete        *)
(* records".  Unless an archive is being made, an attempt of which a record *)
(* is in attempts/ has none left in the current directory.                  *)
ArchivesAreComplete ==
  \A e \in Episodes, n \in Attempts, r, q \in Records :
    task[e] # "archive" /\ archive[e][n][r] # 0 => current[e][q] # archive[e][n][r]

-----------------------------------------------------------------------------
(* The inductive invariant.                                                 *)

Live == Inside \cup {"waiting", "settled"}

TaskFollowsHost(e) ==
  /\ owner[e] = NoHost <=> row[e].status = "none"
  /\ owner[e] = NoHost <=> task[e] = "none"
  /\ task[e] \in Live => host[owner[e]] \in {"queue", "run"}
  /\ task[e] \in Live \ {"waiting"} => host[owner[e]] = "run"

TasksFollowHosts == \A e \in Episodes : TaskFollowsHost(e)

DirectoryFollowsTask(e) ==
  /\ task[e] \in {"none", "waiting"} => current[e] = Empty
  /\ task[e] \in Live \ {"waiting"} =>
       /\ attempt[e] \in Attempts
       /\ \A r \in Records : current[e][r] \in {0, attempt[e]}
       /\ \A n \in Attempts : n < attempt[e] =>
            outcome[e][n] = "failed" /\ archive[e][n].result = n
  /\ task[e] = "working" => ~HasResult(e)
  /\ task[e] \in {"decide", "settled"} => HasResult(e)
  /\ task[e] = "archive" =>
       /\ outcome[e][attempt[e]] = "failed" /\ attempt[e] < Retries + 1
       /\ HasResult(e) \/ archive[e][attempt[e]].result = attempt[e]
  /\ HasResult(e) => ResultOf(e) \in Endings
  /\ \A n \in Attempts, r \in Records : archive[e][n][r] \in {0, n}

DirectoriesFollowTasks == \A e \in Episodes : DirectoryFollowsTask(e)

HeldRowsExist == \A h \in Hosts :
  /\ \A e \in unread[h] : row[e].status # "none"
  /\ held[h] # NoRow =>
       /\ host[h] = "reconcile" /\ row[held[h].episode].status # "none"
       /\ held[h].status = "completed" =>
            HasResult(held[h].episode) /\ ResultOf(held[h].episode) = "completed"

(* The rest is about invocations that follow one another. *)
OneAtATime == \A g, h \in Hosts : Alive(g) /\ Alive(h) => g = h

RowFollowsTask(e) ==
  /\ task[e] = "waiting" => row[e].status = "queued"
  /\ task[e] \in Live \ {"waiting"} => row[e].status = "running"
  /\ Terminal(row[e].status) => HasResult(e) /\ row[e].status = ResultOf(e)
  /\ row[e].status = "interrupted" => ~HasResult(e)
  /\ row[e].phase => row[e].status = "running"

RowsFollowTasks == \A e \in Episodes : RowFollowsTask(e)

Reconciling == \A h \in Hosts : host[h] = "reconcile" =>
  /\ held[h] # NoRow => HasResult(held[h].episode) /\ held[h].status = ResultOf(held[h].episode)
  /\ \A e \in Episodes : HasResult(e) =>
       \/ row[e].status = ResultOf(e) \/ e \in unread[h]
       \/ held[h] # NoRow /\ held[h].episode = e

(* What every step preserves, whatever was killed or overlaps: the part the *)
(* properties above do not say themselves.                                  *)
LedgerInvariant ==
  /\ LedgerTypeOK /\ TasksFollowHosts /\ DirectoriesFollowTasks /\ HeldRowsExist
  /\ CompletedIsDurable
  /\ ~together => OneAtATime /\ RowsFollowTasks /\ Reconciling /\ OwnersAreCurrent

(* An episode that succeeded, or still may.  While invocations follow one   *)
(* another these and the episodes yet to be queued are never more than were *)
(* asked for, and what an invocation counts as done is all that succeeded.  *)
Promised == Successes \cup {e \in Episodes : task[e] \in Live}

SuccessesArePromised == ~together =>
  /\ Cardinality(Promised) <= goal
  /\ \A h \in Hosts :
       /\ left[h] > 0 => host[h] = "queue"
       /\ host[h] = "count" => Successes \subseteq Done
       /\ Cardinality(Promised) + left[h] <= goal
=============================================================================
