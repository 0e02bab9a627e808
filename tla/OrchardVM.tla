------------------------------ MODULE OrchardVM ------------------------------
(***************************************************************************)
(* One macOS VM of the Orchard provider: the sandbox that creates, uses    *)
(* and destroys it (providers/orchard.py), the requests it makes of the    *)
(* controller (providers/orchard_client.py), the controller's record, and  *)
(* the worker that reads the record, runs the VM and reports on it.  Every *)
(* request may fail without being applied, or be applied and its answer    *)
(* lost, and no request names the UID it is meant for.  The controller and *)
(* the worker are modelled from what the client relies on.                 *)
(***************************************************************************)
EXTENDS Integers

CONSTANT MaxDestroy  \* bound: calls of destroy, the failed ones included

ASSUME OrchardAssumption == MaxDestroy \in Nat

VARIABLES
  doing,    \* what the sandbox's coroutine is about to do
  purpose,  \* why it deletes the VM: "failed_create", "destroy"
  owned,    \* OwnedVM: whether its UID is known, and stopped; and whether
            \* the record that showed it stopped was a failed one
  read,     \* the record, or the generation, it last read
  record,   \* the controller's record under the VM's name
  worker,   \* the worker's view of the VM's spec, and the VM
  outcome,  \* "none", "collision", "uncertain", "failed", "incomplete", "destroyed"
  destroys

orchardVars == <<doing, purpose, owned, read, record, worker, outcome, destroys>>

NoRecord == [uid |-> "none", power |-> "running", gen |-> 0, observed |-> 0,
             running |-> FALSE, failed |-> FALSE]
Fresh    == [NoRecord EXCEPT !.uid = "ours", !.gen = 1]
Foreign  == [Fresh EXCEPT !.uid = "another"]
Ours     == record.uid = "ours"

OrchardInit ==
  /\ doing = "name" /\ purpose = "none"
  /\ owned = [known |-> FALSE, stopped |-> FALSE, presumed |-> FALSE]
  /\ read = NoRecord
  /\ record \in {NoRecord, Foreign}
  /\ worker = [gen |-> 0, power |-> "stopped", on |-> FALSE]
  /\ outcome = "none" /\ destroys = 0

Proceed(p)    == doing' = p /\ UNCHANGED <<purpose, owned, outcome, destroys>>
Conclude(how) == doing' = "done" /\ outcome' = how /\ UNCHANGED <<purpose, owned, destroys>>

(* delete_owned raises: the failed create is reported incomplete, and a     *)
(* sandbox stays what it was, to be destroyed again.                        *)
Raise == IF purpose = "destroy" THEN Proceed("ready") ELSE Conclude("incomplete")

Deleted == Conclude(IF purpose = "destroy" THEN "destroyed" ELSE "failed")

(* A request fails before it is applied; `applied' is what it does. *)
Get(p)      == doing = p /\ UNCHANGED <<record, worker>>
Unanswered  == UNCHANGED read /\ Raise

-----------------------------------------------------------------------------
(* create_owned and the rest of OrchardProvider._create.                    *)

Name ==
  /\ Get("name") /\ UNCHANGED read
  /\ \/ record.uid = "none" /\ Proceed("create")
     \/ Conclude("collision")

(* The creation is refused, applied, or applied after its answer was given up. *)
Create ==
  /\ doing = "create" /\ UNCHANGED <<read, worker>>
  /\ \/ /\ record.uid = "none" /\ record' = Fresh
        /\ doing' = "await" /\ owned' = [owned EXCEPT !.known = TRUE]
        /\ UNCHANGED <<purpose, outcome, destroys>>
     \/ /\ Proceed("reconcile")
        /\ record' \in {record} \cup (IF record.uid = "none" THEN {Fresh} ELSE {})

(* Mutant: the record found under the name is not spoken of. *)
ReconcileQuietly == Conclude("failed")

(* One query, to be reported with the failure, whatever it finds. *)
ReconcileAloud == Conclude("uncertain")

Reconcile == Get("reconcile") /\ UNCHANGED read /\ ReconcileAloud

CreatedLate ==
  /\ doing = "reconcile" \/ outcome = "uncertain"
  /\ record.uid = "none" /\ worker.gen = 0 /\ record' = Fresh
  /\ UNCHANGED <<doing, purpose, owned, read, worker, outcome, destroys>>

CleanUp(why) == doing' = "stop_get" /\ purpose' = why /\ UNCHANGED <<owned, outcome>>

(* await_running: absent, replaced, failed, overdue, or cancelled. *)
AwaitRunning ==
  /\ Get("await") /\ UNCHANGED read
  /\ \/ Ours /\ record.running /\ ~record.failed /\ Proceed("prepare")
     \/ CleanUp("failed_create") /\ UNCHANGED destroys

(* The attested record, the two guest sessions, the relay, elevation, the   *)
(* disk and the desktop, under one deadline.                                *)
PrepareGuest ==
  /\ Get("prepare") /\ UNCHANGED read
  /\ \/ Proceed("ready") \/ (CleanUp("failed_create") /\ UNCHANGED destroys)

(* destroy, called for, or by an exec whose channel was lost or cancelled. *)
Destroy ==
  /\ Get("ready") /\ UNCHANGED read
  /\ destroys < MaxDestroy /\ destroys' = destroys + 1
  /\ CleanUp("destroy")

-----------------------------------------------------------------------------
(* stop_owned                                                               *)

StopGet ==
  /\ Get("stop_get")
  /\ \/ owned.stopped /\ Proceed("delete_get") /\ UNCHANGED read
     \/ ~owned.stopped /\ Ours /\ ~record.failed /\ read' = record
        /\ Proceed(IF record.power = "stopped" THEN "stop_poll" ELSE "put")
     \/ ~owned.stopped /\ Unanswered           \* or absent, replaced, failed

(* The answer's UID and generation are what is waited for. *)
Put ==
  /\ doing = "put" /\ UNCHANGED worker
  /\ LET applied == [record EXCEPT !.power = "stopped", !.gen = @ + 1]
     IN  \/ /\ record.uid # "none" /\ record' = applied
            /\ IF Ours THEN read' = applied /\ Proceed("stop_poll") ELSE Unanswered
         \/ /\ record' \in {record} \cup (IF record.uid # "none" THEN {applied} ELSE {})
            /\ Unanswered

(* Mutant: any report that the VM does not run will do. *)
ReportsStopped == ~record.running

StopConfirmed == record.observed >= read.gen /\ ~record.running

StopPoll ==
  /\ Get("stop_poll")
  /\ \/ Unanswered                             \* or replaced, or 60 s have passed
     \/ /\ Ours /\ StopConfirmed
        /\ owned' = [owned EXCEPT !.stopped = TRUE, !.presumed = record.failed]
        /\ doing' = "delete_get"
        /\ UNCHANGED <<read, purpose, outcome, destroys>>

(* delete_owned *)
DeleteGet ==
  /\ Get("delete_get") /\ UNCHANGED read
  /\ \/ record.uid = "none" /\ Deleted
     \/ Ours /\ Proceed("delete")
     \/ Raise

Delete ==
  /\ doing = "delete" /\ UNCHANGED <<read, worker>>
  /\ \/ record' = NoRecord /\ Proceed("delete_poll")
     \/ record' \in {record, NoRecord} /\ Raise

DeletePoll ==
  /\ Get("delete_poll") /\ UNCHANGED read
  /\ \/ record.uid = "none" /\ Deleted
     \/ Raise

-----------------------------------------------------------------------------
(* The worker, late or offline, and an operator at the controller.          *)

Elsewhere == UNCHANGED <<doing, purpose, owned, read, outcome, destroys>>

WorkerReads ==
  /\ Ours /\ worker' = [worker EXCEPT !.gen = record.gen, !.power = record.power]
  /\ UNCHANGED record /\ Elsewhere

WorkerActs ==
  /\ worker.gen > 0 /\ worker' = [worker EXCEPT !.on = (worker.power = "running")]
  /\ UNCHANGED record /\ Elsewhere

WorkerReports ==
  /\ Ours /\ worker.gen > 0
  /\ record' = [record EXCEPT !.observed = worker.gen, !.running = worker.on]
  /\ UNCHANGED worker /\ Elsewhere

(* The controller marks the VM of an offline worker failed, and not running. *)
WorkerLost ==
  /\ Ours /\ record' = [record EXCEPT !.failed = TRUE, !.running = FALSE]
  /\ UNCHANGED worker /\ Elsewhere

(* The record is gone, and the worker clears up what it still runs. *)
WorkerClears ==
  /\ ~Ours /\ worker.gen > 0 /\ worker' = [worker EXCEPT !.power = "stopped", !.on = FALSE]
  /\ UNCHANGED record /\ Elsewhere

OperatorReplaces ==
  /\ Ours /\ record' \in {NoRecord, Foreign}
  /\ UNCHANGED worker /\ Elsewhere

OrchardNext ==
  \/ Name \/ Create \/ Reconcile \/ CreatedLate \/ AwaitRunning \/ PrepareGuest \/ Destroy
  \/ StopGet \/ Put \/ StopPoll \/ DeleteGet \/ Delete \/ DeletePoll
  \/ WorkerReads \/ WorkerActs \/ WorkerReports \/ WorkerLost \/ WorkerClears
  \/ OperatorReplaces

OrchardSpec == OrchardInit /\ [][OrchardNext]_orchardVars

-----------------------------------------------------------------------------
(* What the states that can be reached have in common: the parts of the     *)
(* inductive invariant.                                                     *)

Records == [uid: {"none", "ours", "another"}, power: {"running", "stopped"}, gen: Nat,
            observed: Nat, running: BOOLEAN, failed: BOOLEAN]

OrchardTypeOK ==
  /\ doing \in {"name", "create", "reconcile", "await", "prepare", "ready", "stop_get", "put",
                "stop_poll", "delete_get", "delete", "delete_poll", "done"}
  /\ purpose \in {"none", "failed_create", "destroy"}
  /\ owned \in [known: BOOLEAN, stopped: BOOLEAN, presumed: BOOLEAN]
  /\ read \in Records /\ record \in Records
  /\ worker \in [gen: Nat, power: {"running", "stopped"}, on: BOOLEAN]
  /\ outcome \in {"none", "collision", "uncertain", "failed", "incomplete", "destroyed"}
  /\ destroys \in 0 .. MaxDestroy

(* Whose record it is can change until an answer names the UID, and no more  *)
(* after that; an end is an end.                                             *)
CreatedOnce ==
  /\ doing \in {"name", "create"} => ~Ours /\ worker.gen = 0
  /\ doing \in {"name", "create", "reconcile"} \/ outcome = "uncertain" => ~owned.stopped
  /\ outcome # "none" => doing = "done"

(* The first generation runs and every later one is stopped; the worker and  *)
(* its reports lag behind.                                                   *)
GenerationsTell ==
  /\ Ours => /\ record.gen >= 1 /\ (record.power = "running" <=> record.gen = 1)
             /\ record.observed <= worker.gen /\ worker.gen <= record.gen
             /\ worker.gen >= 1 => (worker.power = "running" <=> worker.gen = 1)
  /\ worker.gen = 0 => worker.power = "stopped" /\ ~worker.on
  /\ doing = "stop_poll" => read.gen >= 2

(* The report of a live worker that has seen the stop is evidence.           *)
ReportsAreEvidence ==
  Ours /\ ~record.failed /\ ~record.running /\ record.observed >= 2
    => worker.power = "stopped" /\ ~worker.on

(* What was seen stopped stays so, and only that is deleted.                 *)
StoppedForGood ==
  /\ doing \in {"delete_get", "delete", "delete_poll"} => owned.stopped
  /\ owned.stopped /\ ~owned.presumed =>
       /\ worker.power = "stopped" /\ ~worker.on
       /\ Ours => record.power = "stopped"
  /\ outcome \in {"failed", "destroyed"} => owned.stopped /\ ~Ours

OrchardInvariant ==
  OrchardTypeOK /\ CreatedOnce /\ GenerationsTell /\ ReportsAreEvidence /\ StoppedForGood

-----------------------------------------------------------------------------
(* A sandbox that reports its VM destroyed, and a create that fails without
   saying that something may be left, have left nothing: the VM is off, it will
   not be started any more, and the controller has no record of it.  Lost
   answers, an offline worker, stale reports and failed attempts at destroying
   it change none of that, nor does a VM somebody else made under its name.
   The one exception is a stop that a failed record stands for. *)
QuietEndsLeaveNothing ==
  outcome \in {"failed", "destroyed"} /\ ~owned.presumed
    => ~Ours /\ ~worker.on /\ worker.power = "stopped"

(* A failed record "is not physical stop evidence", as stop_owned's comment
   says: Orchard shows the VMs of a lost worker as not running. *)
FailedIsNoEvidence == ~owned.presumed
=============================================================================
