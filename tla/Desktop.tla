------------------------------ MODULE Desktop ------------------------------
(***************************************************************************)
(* A guest's desktop: the Cua Driver that captures it and moves its        *)
(* pointer, who starts the Driver again (guestd itself on Linux, the boot  *)
(* service on Windows, nobody on macOS), and the programs that call it:    *)
(* guestd for the Host, and the agent's own cua-desktop MCP server, which  *)
(* is the same code under the agent's account.                             *)
(***************************************************************************)
EXTENDS Integers, Sequences

CONSTANTS
  Systems,    \* "linux", "windows", "macos"
  Threads,    \* connections guestd serves, one thread each
  Agent,      \* the agent's MCP server
  Batches,    \* what one request asks of the Driver: its calls, "read" or "act"
  DriverIds,  \* bound: Driver processes one can tell apart
  MaxFault    \* bound: deaths, failed starts and sign-outs

ASSUME DesktopAssumption == 0 \notin DriverIds

VARIABLES
  system,     \* the guest's operating system
  session,    \* the agent account's desktop session: "out" or "shown"
  drivers,    \* each Driver process: "none", "starting" or "serving"
  socket,     \* the process whose socket has the path, or 0
  server,     \* the Driver guestd, or what stands in for it, started last, or 0
  requests,   \* what each caller is doing
  service,    \* the Windows service: where it is, its token, what it runs
  host,       \* the Provider's wait for the desktop
  faults      \* how many there were

desktopVars == <<system, session, drivers, socket, server, requests, service, host, faults>>
driverVars  == <<drivers, socket, server>>

Callers  == Threads \cup {Agent}
Quiet    == [at |-> "idle", batch |-> <<>>, call |-> 1, done |-> <<>>]
NoToken  == [at |-> "await", token |-> FALSE, guestd |-> "none", driver |-> FALSE]

DesktopInit ==
  /\ system \in Systems /\ session = "out"
  /\ drivers = [d \in DriverIds |-> "none"] /\ socket = 0 /\ server = 0
  /\ requests = [c \in Callers |-> Quiet]
  /\ service = NoToken /\ host = "waiting" /\ faults = 0

Lives(d)   == d # 0 /\ drivers[d] # "none"
Reachable == socket # 0 /\ drivers[socket] = "serving"
Done      == UNION {{requests[c].done[i].by : i \in DOMAIN requests[c].done} : c \in Callers}
Spare     == {d \in DriverIds \ ({socket, server} \cup Done) : ~Lives(d)}
Fault     == faults < MaxFault /\ faults' = faults + 1

(* One not seen before; which of them it is makes no difference.             *)
Fresh     == CHOOSE d \in Spare : TRUE

Launch ==
  /\ Spare # {} /\ server' = Fresh
  /\ drivers' = [drivers EXCEPT ![server'] = "starting"] /\ UNCHANGED socket

-----------------------------------------------------------------------------
(* A request: the calls of its actions one after the other.                  *)
Go(c, place) == requests' = [requests EXCEPT ![c].at = place]
Fail(c)      == requests' = [requests EXCEPT ![c] = Quiet]

(* What the Host asks of guestd: a capture, again and again, until there is  *)
(* one, and then the Task's requests.  On Windows guestd answers only while  *)
(* the service has it running.                                               *)
HostRequest(c) ==
  /\ c \in Threads /\ requests[c].at = "idle"
  /\ (host = "waiting" /\ system # "macos") \/ host = "ready"
  /\ system = "windows" => service.guestd = "up"
  /\ \E batch \in IF host = "waiting" THEN {<<"read">>} ELSE Batches :
       requests' = [requests EXCEPT ![c].at = "call", ![c].batch = batch]
  /\ UNCHANGED <<system, session, driverVars, service, host, faults>>

(* A tool call of the agent, one at a time: its MCP server reads the next    *)
(* line when it has answered.                                                *)
AgentRequest(c) ==
  /\ c = Agent /\ requests[c].at = "idle" /\ host = "ready"
  /\ \E batch \in Batches : requests' = [requests EXCEPT ![c].at = "call", ![c].batch = batch]
  /\ UNCHANGED <<system, session, driverVars, service, host, faults>>

Request(c) == HostRequest(c) \/ AgentRequest(c)

(* Pressing without releasing, which the Driver does not offer.              *)
Unsupported(c) ==
  /\ requests[c].at = "call" /\ host = "ready" /\ Fail(c)
  /\ UNCHANGED <<system, session, driverVars, service, host, faults>>

Did(c) ==
  LET r == requests[c]
  IN IF r.batch[r.call] = "read" THEN r.done ELSE Append(r.done, [call |-> r.call, by |-> socket])

(* A first capture is the desktop's unless nothing has been drawn yet.       *)
Photographed == host' \in IF host = "waiting" THEN {"waiting", "ready"} ELSE {host}

Answered(c, done) ==
  LET r == requests[c]
  IN /\ requests' = [requests EXCEPT ![c] =
          IF r.call = Len(r.batch) THEN Quiet
          ELSE [r EXCEPT !.at = "call", !.call = @ + 1, !.done = done]]
     /\ Photographed

(* No answer: whatever the Driver has done by then.                          *)
Unanswered(c, done) ==
  requests' = [requests EXCEPT ![c].at = IF @ = "call" THEN "start" ELSE "failing", ![c].done = done]

(* The tool succeeds, or answers that it failed; or it does not answer.      *)
Invoke(c) ==
  /\ requests[c].at \in {"call", "again"}
  /\ \/ Reachable /\ Answered(c, Did(c))
     \/ Reachable /\ Fail(c) /\ UNCHANGED host
     \/ /\ \E done \in {requests[c].done} \cup (IF Reachable THEN {Did(c)} ELSE {}) :
             Unanswered(c, done)
        /\ UNCHANGED host
  /\ UNCHANGED <<system, session, driverVars, service, faults>>

Raise(c) ==
  /\ requests[c].at = "failing" /\ Fail(c)
  /\ UNCHANGED <<system, session, driverVars, service, host, faults>>

(* The scan of the account's processes for one that is drawn somewhere.      *)
SessionIsShown == session = "shown"

(* guestd starts one, and never another.                                     *)
MayStartOnce(c) ==
  /\ system = "linux" /\ SessionIsShown
  /\ c \in Threads => server = 0

(* _start_server: on Linux only, when no Driver of this process is running,  *)
(* in a session that is drawn.  The agent's process has never started one.   *)
MayStart(c) ==
  /\ system = "linux" /\ SessionIsShown
  /\ c \in Threads => ~Lives(server)

(* The call is repeated whether or not a Driver was started.                 *)
TryStartOrRepeat(c) ==
  /\ requests[c].at = "start"
  /\ IF MayStart(c) THEN Go(c, "unlink") ELSE Go(c, "again")
  /\ UNCHANGED <<system, session, driverVars, service, host, faults>>

TryStart(c) ==
  /\ requests[c].at = "start"
  /\ IF MayStart(c) THEN Go(c, "unlink") ELSE Fail(c)
  /\ UNCHANGED <<system, session, driverVars, service, host, faults>>

(* Whatever has the path loses it.  Only root may take on an account's       *)
(* groups, so the agent's process then starts none.                          *)
Start(c) ==
  /\ requests[c].at = "unlink" /\ socket' = 0
  /\ \/ /\ c \in Threads /\ Spare # {} /\ server' = Fresh
        /\ drivers' = [drivers EXCEPT ![server'] = "starting"]
        /\ Go(c, "wait") /\ UNCHANGED faults
     \/ c \in Threads /\ Fault /\ Fail(c) /\ UNCHANGED <<drivers, server>>
     \/ c = Agent /\ Fail(c) /\ UNCHANGED <<drivers, server, faults>>
  /\ UNCHANGED <<system, session, service, host>>

(* For fifteen seconds, and as long as the Driver started last is running.   *)
Wait(c) ==
  /\ requests[c].at = "wait"
  /\ \/ Lives(server) /\ socket # 0 /\ Go(c, "again") /\ UNCHANGED faults
     \/ ~Lives(server) /\ Fail(c) /\ UNCHANGED faults
     \/ Lives(server) /\ socket = 0 /\ Fault /\ Fail(c)
  /\ UNCHANGED <<system, session, driverVars, service, host>>

-----------------------------------------------------------------------------
(* The Driver, and the session it belongs to.                                *)
Bind(d) ==
  /\ drivers[d] = "starting"
  /\ IF socket = 0 \/ system # "linux"
       THEN socket' = d /\ drivers' = [drivers EXCEPT ![d] = "serving"]
       ELSE drivers' = [drivers EXCEPT ![d] = "none"] /\ UNCHANGED socket
  /\ UNCHANGED <<system, session, server, requests, service, host, faults>>

(* A path is left of it, but not of a Windows pipe.                          *)
Dies(d) ==
  /\ Lives(d) /\ Fault
  /\ drivers' = [drivers EXCEPT ![d] = "none"]
  /\ socket' = IF system = "windows" /\ socket = d THEN 0 ELSE socket
  /\ UNCHANGED <<system, session, server, requests, service, host>>

SignIn ==
  /\ session = "out" /\ session' = "shown"
  /\ UNCHANGED <<system, driverVars, requests, service, host, faults>>

Hangup == [c \in Callers |-> IF c \in Threads THEN Quiet ELSE requests[c]]

SignOut ==
  /\ session = "shown" /\ session' = "out" /\ Fault
  /\ drivers' = [d \in DriverIds |-> "none"]
  /\ IF system = "windows"
       THEN /\ socket' = 0 /\ requests' = Hangup
            /\ service' = [service EXCEPT !.token = FALSE,
                              !.guestd = IF @ = "up" THEN "exited" ELSE @]
       ELSE UNCHANGED <<socket, requests, service>>
  /\ UNCHANGED <<system, server, host>>

-----------------------------------------------------------------------------
(* The Windows service: _keep_up.                                            *)
Serving == system = "windows" /\ service.at # "ended"

TakeToken ==
  /\ Serving /\ service.at = "await" /\ session = "shown"
  /\ service' = [service EXCEPT !.at = "start", !.token = TRUE]
  /\ UNCHANGED <<system, session, driverVars, requests, host, faults>>

(* The programs it still runs are terminated, and sign-in awaited again.     *)
LetGo(next) ==
  /\ service' = [NoToken EXCEPT !.at = next]
  /\ drivers' = IF service.driver /\ Lives(server) THEN [drivers EXCEPT ![server] = "none"] ELSE drivers
  /\ socket' = IF service.driver /\ socket = server THEN 0 ELSE socket
  /\ requests' = Hangup
  /\ UNCHANGED server

StartGuestd ==
  /\ Serving /\ service.at = "start" /\ service.guestd = "none" /\ service.token
  /\ service' = [service EXCEPT !.guestd = "up"]
  /\ UNCHANGED <<system, session, driverVars, requests, host, faults>>

StartDriver ==
  /\ Serving /\ service.at = "start" /\ service.guestd # "none" /\ ~service.driver /\ service.token
  /\ service' = [service EXCEPT !.driver = TRUE] /\ Launch
  /\ UNCHANGED <<system, session, requests, host, faults>>

Watch ==
  /\ Serving /\ service.at = "start" /\ service.guestd # "none" /\ service.driver
  /\ service' = [service EXCEPT !.at = "watch"]
  /\ UNCHANGED <<system, session, driverVars, requests, host, faults>>

(* One that exited is forgotten, and started again.                          *)
Reap ==
  /\ Serving /\ service.at = "watch"
  /\ \/ service.guestd = "exited" /\ service' = [service EXCEPT !.at = "start", !.guestd = "none"]
     \/ ~Lives(server) /\ service' = [service EXCEPT !.at = "start", !.driver = FALSE]
  /\ UNCHANGED <<system, session, driverVars, requests, host, faults>>

GuestdDies ==
  /\ service.guestd = "up" /\ Fault
  /\ service' = [service EXCEPT !.guestd = "exited"] /\ requests' = Hangup
  /\ UNCHANGED <<system, session, driverVars, host>>

(* A program would not start, or its session is gone.                        *)
StartFails ==
  /\ Serving /\ service.at = "start" /\ (service.guestd = "none" \/ ~service.driver)
  /\ IF service.token THEN Fault ELSE UNCHANGED faults
  /\ LetGo("await")
  /\ UNCHANGED <<system, session, host>>

(* The guest shuts down; or the account has no full token, and nobody        *)
(* starts the service again.                                                 *)
Stop ==
  /\ Serving /\ Fault /\ LetGo("ended")
  /\ UNCHANGED <<system, session, host>>

-----------------------------------------------------------------------------
(* The Provider on macOS starts the Driver once, and probes it.              *)
OpenDriver ==
  /\ system = "macos" /\ host = "waiting" /\ session = "shown" /\ server = 0
  /\ Launch
  /\ UNCHANGED <<system, session, requests, service, host, faults>>

ProbeDesktop ==
  /\ system = "macos" /\ host = "waiting" /\ server # 0 /\ Reachable
  /\ host' = "ready"
  /\ UNCHANGED <<system, session, driverVars, requests, service, faults>>

(* Two to five minutes, a Driver that would not open, another's console, or  *)
(* another resolution than was asked for.                                    *)
GiveUp ==
  /\ host = "waiting" /\ host' = "failed"
  /\ UNCHANGED <<system, session, driverVars, requests, service, faults>>

Steps(c)  == Invoke(c) \/ Raise(c) \/ TryStart(c) \/ Start(c) \/ Wait(c)
KeepingUp == TakeToken \/ StartGuestd \/ StartDriver \/ Watch \/ Reap \/ StartFails

DesktopNext ==
  \/ \E c \in Callers : Request(c) \/ Unsupported(c) \/ Steps(c)
  \/ \E d \in DriverIds : Bind(d) \/ Dies(d)
  \/ SignIn \/ SignOut \/ KeepingUp \/ GuestdDies \/ Stop
  \/ OpenDriver \/ ProbeDesktop \/ GiveUp

-----------------------------------------------------------------------------
(* What a request has the Driver do is done in its order, everything before  *)
(* the call it is at, and nothing twice by one Driver: a call is repeated    *)
(* only to a Driver that came after the one that did not answer.             *)
NothingTwice(acts) ==
  \A i, j \in DOMAIN acts : i < j =>
    \/ acts[i].call < acts[j].call
    \/ acts[i].call = acts[j].call /\ acts[i].by # acts[j].by

NothingLeftOut(r) ==
  \A k \in 1 .. r.call - 1 : r.batch[k] = "act" => \E i \in DOMAIN r.done : r.done[i].call = k

ActionsAreDoneInOrder ==
  \A c \in Callers : NothingTwice(requests[c].done) /\ NothingLeftOut(requests[c])

(* What that rests on: a Driver that did something is never started again,   *)
(* and while a call is about to be repeated another one has the path.        *)
Places  == {"idle", "call", "again", "start", "unlink", "wait", "failing"}
DoneActs == [call : Nat, by : DriverIds]
Calls   == [at : Places, batch : Batches \cup {<<>>, <<"read">>}, call : Nat \ {0},
            done : Seq(DoneActs)]

CallsTypeOK ==
  /\ drivers \in [DriverIds -> {"none", "starting", "serving"}]
  /\ socket \in DriverIds \cup {0} /\ server \in DriverIds \cup {0}
  /\ requests \in [Callers -> Calls]

InItsTurn(r) ==
  /\ \A i \in DOMAIN r.done : r.done[i].call <= r.call
  /\ r.at = "idle" => r.call = 1 /\ r.done = <<>>
  /\ r.at = "call" => \A i \in DOMAIN r.done : r.done[i].call < r.call
  /\ r.at \in {"wait", "again"} =>
       \A i \in DOMAIN r.done : r.done[i].call = r.call => r.done[i].by # socket

DesktopInvariant ==
  /\ CallsTypeOK
  /\ ActionsAreDoneInOrder
  /\ \A c \in Callers : InItsTurn(requests[c])
  /\ \A d \in Done : drivers[d] # "starting"

(* As long as somebody asks for it, the session lasts and the agent's own    *)
(* server has not tried to start a Driver, the desktop comes back after      *)
(* every fault: guestd's threads start it again on Linux, the service does   *)
(* on Windows.                                                               *)
DesktopsComeBack ==
  /\ system # "macos"
  /\ [](requests[Agent].at # "unlink" /\ service.at # "ended" /\ host # "failed")
  /\ <>[](session = "shown")
  => []<>Reachable

=============================================================================
