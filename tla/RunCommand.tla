----------------------------- MODULE RunCommand -----------------------------
(***************************************************************************)
(* cli/tasks.py, _run_async of cli/main.py and the egress proxy: one `ale` *)
(* command (run, validate, prepare or reverify) from its arguments to its  *)
(* exit code, with the services it starts for its episodes, the signals it *)
(* takes and what it says of its episodes.                                 *)
(*                                                                         *)
(* An episode with its retries is one job; RunLedger and EpisodeProtocol   *)
(* have what happens in it.                                                *)
(***************************************************************************)
EXTENDS Integers, FiniteSets

CONSTANTS
  CommandKinds, \* subset of {"run", "validate", "prepare", "reverify"}
  MaxTasks,     \* bound: Tasks, or episodes to reverify, of a command
  PerTask,      \* settings.episodes
  Slots         \* settings.concurrency

Exits == [completed |-> 0, crashed |-> 1, someFailed |-> 2, badReference |-> 3,
          interrupted |-> 130, terminated |-> 143]
(* What ends a command that was refused (an AleError) or that broke.         *)
Refusals == {Exits.badReference, Exits.crashed}

TaskIds == 1 .. MaxTasks
AllJobs == TaskIds \X ((1 .. 2) \cup (1 .. PerTask))

VARIABLES
  command,   \* what it is asked, where it is and what it has counted
  services,  \* the Gateway, the egress proxy and the ledger
  job,       \* of each episode where it is and what became of it
  through,   \* the episodes that have a connection through the proxy
  kept       \* the episodes whose sandbox outlives them with a connection

commandVars == <<command, services, job, through, kept>>

(* What the command asks for: an untouched and an oracle episode of each     *)
(* Task, one episode of each source, or settings.episodes of each Task.      *)
Asked == CASE command.kind = "run"      -> TaskIds \X (1 .. PerTask)
           [] command.kind = "validate" -> TaskIds \X {1, 2}
           [] command.kind = "reverify" -> TaskIds \X {1}
           [] OTHER                     -> {}

NoJob == [at |-> "none", verdict |-> "none"]

CommandInit ==
  /\ command \in [kind: CommandKinds, stage: {"configure"}, code: {-1}, signal: {FALSE},
                  failures: {0}, next: {1}, models: BOOLEAN, judged: BOOLEAN, hosts: BOOLEAN,
                  earlier: [TaskIds -> 0 .. PerTask]]
  /\ command.kind # "run" => ~command.models /\ \A t \in TaskIds : command.earlier[t] = 0
  /\ IF command.models THEN ~command.judged ELSE ~command.hosts
  /\ services = [gateway |-> "none", proxy |-> "none", ledger |-> "none"]
  /\ job = [j \in AllJobs |-> NoJob] /\ through = {} /\ kept = {}

At(stage)     == command.stage = stage
Proceed(stage)     == command' = [command EXCEPT !.stage = stage]
Leave(code)   == command' = [command EXCEPT !.stage = "ended", !.code = code]
NothingRun    == UNCHANGED <<job, through, kept>>
InState(S, s) == {j \in S : job[j].at = s}
Busy          == InState(Asked, "working") \cup InState(Asked, "unwinding")

-----------------------------------------------------------------------------
(* Before anything is started.                                               *)

(* _harness and _config: an unknown agent, a dialect it does not speak.      *)
Configure ==
  /\ At("configure") /\ (Proceed("check") \/ Leave(Exits.badReference))
  /\ UNCHANGED services /\ NothingRun

(* Credentials, Tasks, their variables and the Judges; `prepare` lints,      *)
(* `reverify` looks for retained solvers, and has its images.                *)
Check ==
  /\ At("check")
  /\ \/ Proceed(IF command.kind = "reverify" THEN "serve" ELSE "images")
     \/ \E code \in Refusals : Leave(code)
  /\ UNCHANGED services /\ NothingRun

(* One Task after the other is given its images: those made for an earlier   *)
(* one of the same source, or its own.  After them a solver to continue.     *)
PrepareImages ==
  /\ At("images")
  /\ \/ command.next < MaxTasks /\ command' = [command EXCEPT !.next = @ + 1]
     \/ command.next = MaxTasks /\ command.kind # "prepare"
          /\ command' = [command EXCEPT !.next = 1, !.stage = "serve"]
     \/ command.next = MaxTasks /\ command.kind = "prepare" /\ Leave(Exits.completed)
     \/ \E code \in Refusals : Leave(code)
  /\ UNCHANGED services /\ NothingRun

-----------------------------------------------------------------------------
(* The services of a run: no Gateway without a model, unless a Judge wants   *)
(* one, and a proxy only if a Task declares hosts.                           *)
StartServices ==
  /\ At("serve") /\ command.kind = "run" /\ command.models
  /\ \/ /\ Proceed("open")
        /\ services' = [services EXCEPT !.gateway = "up",
                          !.proxy = IF command.hosts THEN "up" ELSE @]
     \/ \E code \in Refusals : Leave(code) /\ UNCHANGED services
  /\ NothingRun

JudgeGateway ==
  /\ At("serve") /\ ~command.models
  /\ \/ /\ Proceed(IF command.kind = "reverify" THEN "work" ELSE "open")
        /\ services' = [services EXCEPT !.gateway = IF command.judged THEN "up" ELSE @]
     \/ Leave(Exits.crashed) /\ UNCHANGED services
  /\ NothingRun

OpenLedger ==
  /\ At("open")
  /\ \/ /\ Proceed(IF command.kind = "run" THEN "queue" ELSE "work")
        /\ services' = [services EXCEPT !.ledger = "up"]
     \/ Leave(Exits.crashed) /\ UNCHANGED services
  /\ NothingRun

-----------------------------------------------------------------------------
(* _run_one: everything is queued before anything runs; a resumed run skips  *)
(* as many episodes as have succeeded.  What cannot be queued ends it all.   *)
QueueTask ==
  /\ At("queue")
  /\ LET t    == command.next
         Mine == {j \in Asked : j[1] = t}
     IN \/ /\ job' = [j \in AllJobs |-> IF j \notin Mine THEN job[j]
                                      ELSE IF j[2] <= command.earlier[t]
                                        THEN [at |-> "over", verdict |-> "skipped"]
                                        ELSE [at |-> "waiting", verdict |-> "none"]]
           /\ command' = [command EXCEPT !.next = @ + 1,
                                         !.stage = IF t = MaxTasks THEN "work" ELSE @]
        \/ command' = [command EXCEPT !.stage = "close", !.code = Exits.crashed] /\ UNCHANGED job
  /\ UNCHANGED <<services, through, kept>>

(* The gate lets as many episodes in as settings.concurrency says.           *)
EnterGate ==
  /\ At("work") /\ Cardinality(Busy) < Slots
  /\ \E j \in InState(Asked, "waiting") : job' = [job EXCEPT ![j].at = "working"]
  /\ UNCHANGED <<command, services, through, kept>>

(* _validate and _reverify: one episode after the other, in the order of the *)
(* Tasks, and a Task that cannot be reverified counts as a failure.          *)
Before(j, k) == j[1] < k[1] \/ (j[1] = k[1] /\ j[2] < k[2])
FirstRaised  == \E j \in Asked : job[j].verdict = "raised"
IsNext(j)    == /\ ~FirstRaised /\ ~command.signal /\ job[j].at = "none"
                /\ \A k \in Asked : Before(k, j) => job[k].at = "over"

StartPass ==
  /\ At("work") /\ command.kind = "validate"
  /\ \E j \in Asked : IsNext(j) /\ job' = [job EXCEPT ![j].at = "working"]
  /\ UNCHANGED <<command, services, through, kept>>

StartSource ==
  /\ At("work") /\ command.kind = "reverify"
  /\ \E j \in Asked : IsNext(j) /\
       job' \in {[job EXCEPT ![j].at = "working"],
                 [job EXCEPT ![j] = [at |-> "over", verdict |-> "unmatched"]]}
  /\ UNCHANGED <<command, services, through, kept>>

(* What an episode uses is there to its end: its row is written, its model   *)
(* and its hosts answer.                                                     *)
WellServed ==
  /\ command.kind # "reverify" => services.ledger = "up"
  /\ command.models \/ command.judged => services.gateway = "up"
  /\ command.hosts => services.proxy = "up"

(* One that earns what it should not (an untouched episode anything, the     *)
(* oracle's not everything), or is not reportable under --require-reportable,*)
(* has failed for the command.                                               *)
Verdicts == {"completed", "failed", "raised"}

FinishJob ==
  /\ command.stage # "ended"
  /\ \E j \in InState(Asked, "working") :
       /\ \E v \in IF WellServed THEN Verdicts ELSE {"starved"} :
            job' = [job EXCEPT ![j] = [at |-> "over", verdict |-> v]]
       /\ kept' \in {kept, kept \cup ({j} \cap through)}
  /\ UNCHANGED <<command, services, through>>

(* A cancelled episode is over when its shielded teardown is.                *)
UnwindJob ==
  /\ command.stage # "ended"
  /\ \E j \in InState(Asked, "unwinding") :
       /\ job' = [job EXCEPT ![j] = [at |-> "over", verdict |-> "cancelled"]]
       /\ kept' \in {kept, kept \cup ({j} \cap through)}
  /\ UNCHANGED <<command, services, through>>

-----------------------------------------------------------------------------
(* The episodes of a run are waited for together, whatever becomes of one;   *)
(* an exception ends a validation, and unless it is an AleError, which       *)
(* counts as a failure, a reverification.                                    *)
AllOverOrRaised == InState(Asked, "over") = Asked \/ FirstRaised
AllOver         == InState(Asked, "over") = Asked

Unsuccessful == {j \in Asked : job[j].verdict \notin {"completed", "skipped"}}
(* _validation_notices: a Task passes with both its episodes.                *)
TasksFailed  == {j[1] : j \in Unsuccessful}
Count        == Cardinality(IF command.kind = "run" THEN Unsuccessful ELSE TasksFailed)

Tally ==
  /\ At("work") /\ ~command.signal /\ AllOver /\ (FirstRaised => command.kind = "run")
  /\ command' = [command EXCEPT !.stage = "close", !.failures = Count,
                   !.code = IF Count = 0 THEN Exits.completed ELSE Exits.someFailed]
  /\ UNCHANGED services /\ NothingRun

Abort ==
  /\ At("work") /\ ~command.signal /\ command.kind # "run" /\ FirstRaised
  /\ command' = [command EXCEPT !.stage = "close", !.code = Exits.crashed]
  /\ UNCHANGED services /\ NothingRun

(* The ledger, then the proxy, which waits for the connections it has, then  *)
(* the Gateway.                                                              *)
CloseLedger ==
  /\ At("close") /\ services.ledger = "up"
  /\ services' = [services EXCEPT !.ledger = "down"]
  /\ UNCHANGED command /\ NothingRun

StopProxy ==
  /\ At("close") /\ services.ledger # "up" /\ services.proxy = "up"
  /\ services' = [services EXCEPT !.proxy = "closing"]
  /\ UNCHANGED command /\ NothingRun

ProxyStopped ==
  /\ At("close") /\ services.proxy = "closing" /\ through = {}
  /\ services' = [services EXCEPT !.proxy = "down"]
  /\ UNCHANGED command /\ NothingRun

StopGateway ==
  /\ At("close") /\ services.ledger # "up" /\ services.proxy \notin {"up", "closing"}
  /\ services' = [services EXCEPT !.gateway = IF @ = "up" THEN "down" ELSE @]
  /\ Leave(command.code) /\ NothingRun

-----------------------------------------------------------------------------
(* SIGTERM or Ctrl-C cancels: what is not working is over, what works unwinds*)
(* and is waited for.  A second signal kills.                                *)
Cancelled(j) ==
  CASE job[j].at = "waiting" -> [at |-> "over", verdict |-> "cancelled"]
    [] job[j].at = "working" -> [job[j] EXCEPT !.at = "unwinding"]
    [] OTHER                 -> job[j]

Terminate ==
  /\ command.stage \in {"check", "images", "serve", "work", "close"} /\ ~command.signal
  /\ \E code \in {Exits.interrupted, Exits.terminated} :
       command' = [command EXCEPT !.signal = TRUE, !.code = code,
                                  !.stage = IF @ = "work" THEN @ ELSE "ended"]
  /\ job' = [j \in AllJobs |-> Cancelled(j)]
  /\ UNCHANGED <<services, through, kept>>

Unwound ==
  /\ At("work") /\ command.signal /\ Busy = {} /\ Proceed("close")
  /\ UNCHANGED services /\ NothingRun

Kill ==
  /\ command.signal /\ command.stage # "ended"
  /\ \E code \in {Exits.interrupted, Exits.terminated} : Leave(code)
  /\ UNCHANGED services /\ NothingRun

-----------------------------------------------------------------------------
(* The egress proxy.  The token is that of an episode at work, and is looked *)
(* at once: from then on bytes are copied, whatever becomes of the episode.  *)
Accept ==
  /\ services.proxy = "up" /\ command.stage # "ended"
  /\ \E j \in Busy \ through : through' = through \cup {j}
  /\ UNCHANGED <<command, services, job, kept>>

(* A connection ends with its sandbox, or when either side hangs up.         *)
Cut(S) ==
  /\ \E j \in through \cap S : through' = through \ {j}
  /\ UNCHANGED <<command, services, job, kept>>
CutTunnel == Cut(InState(Asked, "over") \ kept)
HangUp    == Cut(AllJobs)

Hosting == StartServices \/ JudgeGateway \/ OpenLedger \/ CloseLedger \/ StopProxy
             \/ ProxyStopped \/ StopGateway
Working == QueueTask \/ EnterGate \/ StartPass \/ StartSource \/ FinishJob \/ UnwindJob
Progress == Configure \/ Check \/ PrepareImages \/ Hosting \/ Working \/ Tally \/ Abort \/ Unwound

CommandNext == Progress \/ Terminate \/ Kill \/ Accept \/ CutTunnel \/ HangUp

-----------------------------------------------------------------------------
Completed(S) == \A j \in S : job[j].verdict \in {"completed", "skipped"}

(* Zero says that all that was asked for has completed, two that some of it  *)
(* has not, for a reason of its own, three that nothing was started.         *)
Truthful ==
  /\ command.code = Exits.completed => Completed(Asked) /\ AllOver
  /\ command.code = Exits.someFailed => AllOver /\ ~Completed(Asked)
  /\ command.code = Exits.badReference => \A j \in Asked : job[j] = NoJob
  /\ \A j \in Asked : job[j].verdict # "starved"

(* A command ends, whatever becomes of one of its episodes and whenever it   *)
(* is told to stop, and its exit code is true: unless a connection of a      *)
(* sandbox that was kept holds the proxy open.                               *)
CommandsEndTruly ==
  At("check") ~> \/ At("ended") /\ Truthful
                 \/ services.proxy = "closing" /\ kept \cap through # {}
=============================================================================
