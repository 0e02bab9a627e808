----------------------------- MODULE DaytonaVM ------------------------------
(***************************************************************************)
(* One sandbox of the Daytona provider (providers/daytona.py,              *)
(* daytona_api.py, daytona_image.py): the image is published to Daytona's  *)
(* registry, a sandbox is created from it under a name of its own, started *)
(* and connected to; a failed pull is repaired once by publishing again.   *)
(* Whatever fails or is cancelled on the way deletes what was created.     *)
(* Then its network is opened and closed, its tunnel reconnects, and it is *)
(* destroyed or retained.                                                  *)
(*                                                                         *)
(* Daytona itself is modelled from how the API is used: a request may be   *)
(* served after its caller stopped waiting, and settings are applied some  *)
(* time after they were stored, in their order.                            *)
(***************************************************************************)
EXTENDS Integers, Sequences

CONSTANT MaxToggle  \* bound: how often egress is opened or closed

ASSUME DaytonaAssumption == MaxToggle \in Nat

Attempts == {1, 2}

VARIABLES
  stage,     \* the await of create, destroy or retain
  try,       \* the attempt of _start
  held,      \* the attempt whose sandbox id the code has, or 0
  cloud,     \* per attempt: the sandbox of its create request at Daytona
  registry,  \* the image: in Daytona's registry, and recorded here as pushed
  troubled,  \* a call that deletes or looks a sandbox up failed
  overdue,   \* a sandbox was made after it had been looked for
  network,   \* settings not applied yet, the network, and what was reported
  misread,   \* a probe failed for a reason other than a closed network
  toggles,
  tunnel,    \* the Host end of the tunnel
  failures   \* sessions in a row that did not become ready

daytonaVars == <<stage, try, held, cloud, registry, troubled, overdue,
                 network, misread, toggles, tunnel, failures>>
createVars  == <<stage, try, held, cloud, registry, troubled, overdue>>
egressVars  == <<network, misread, toggles>>
tunnelVars  == <<tunnel, failures>>

Alive == {"starting", "started", "failed"}
Live(a) == cloud[a] \in Alive

DaytonaInit ==
  /\ stage = "publish" /\ try = 1 /\ held = 0
  /\ cloud = [a \in Attempts |-> "none"]
  /\ registry \in [pushed : BOOLEAN, recorded : BOOLEAN]
  /\ troubled = FALSE /\ overdue = FALSE
  /\ network = [pending |-> <<>>, open |-> FALSE, told |-> "closed"]
  /\ misread = FALSE /\ toggles = 0
  /\ tunnel = "none" /\ failures = 0

Stage(from, to) == stage = from /\ stage' = to

-----------------------------------------------------------------------------
(* create: publish, _created and _reclaim                                   *)

(* The second attempt pushes whatever the record says. *)
Publish ==
  /\ Stage("publish", "post")
  /\ registry' = IF registry.recorded /\ try = 1 THEN registry
                 ELSE [pushed |-> TRUE, recorded |-> TRUE]
  /\ UNCHANGED <<try, held, cloud, troubled, overdue, egressVars, tunnelVars>>

PublishFails ==
  /\ Stage("publish", "raised")
  /\ UNCHANGED <<try, held, cloud, registry, troubled, overdue, egressVars, tunnelVars>>

Post ==
  /\ Stage("post", "creating")
  /\ cloud' = [cloud EXCEPT ![try] = "requested"]
  /\ UNCHANGED <<try, held, registry, troubled, overdue, egressVars, tunnelVars>>

NameIsFree == \A a \in Attempts : ~Live(a)

(* Daytona makes the sandbox, also when nobody waits for the reply any more.*)
Made(a) ==
  /\ cloud[a] = "requested" /\ NameIsFree
  /\ cloud' = [cloud EXCEPT ![a] = "starting"]
  /\ overdue' = (overdue \/ ~(try = a /\ stage \in {"creating", "reclaim"}))
  /\ UNCHANGED <<stage, try, held, registry, troubled, egressVars, tunnelVars>>

(* ... or refuses it: the rate limit lasted, the name is taken, a quota. *)
Refused(a) ==
  /\ cloud[a] = "requested"
  /\ cloud' = [cloud EXCEPT ![a] = "refused"]
  /\ UNCHANGED <<stage, try, held, registry, troubled, overdue, egressVars, tunnelVars>>

Replied ==
  /\ Live(try) /\ Stage("creating", "waiting")
  /\ held' = try
  /\ UNCHANGED <<try, cloud, registry, troubled, overdue, egressVars, tunnelVars>>

(* Mutant: a create without a reply just raises. *)
RaiseAtOnce == "raised"

LookForIt == "reclaim"

(* The request failed, its reply was lost, or the caller was cancelled. *)
NoReply ==
  /\ Stage("creating", LookForIt)
  /\ UNCHANGED <<try, held, cloud, registry, troubled, overdue, egressVars, tunnelVars>>

(* _reclaim: by the reply that came late, or else by the name, which the    *)
(* sandbox of the first attempt has as well.                                *)
Reclaim ==
  \/ \E a \in Attempts :
       /\ Live(a) /\ Stage("reclaim", "discard")
       /\ held' = a
       /\ UNCHANGED <<try, cloud, registry, troubled, overdue, egressVars, tunnelVars>>
  \/ /\ NameIsFree /\ Stage("reclaim", "raised")
     /\ UNCHANGED <<try, held, cloud, registry, troubled, overdue, egressVars, tunnelVars>>
  \/ /\ Stage("reclaim", "raised")
     /\ troubled' = TRUE
     /\ UNCHANGED <<try, held, cloud, registry, overdue, egressVars, tunnelVars>>

-----------------------------------------------------------------------------
(* create: wait_started, the connections and the checks                     *)

Build(a) ==
  /\ cloud[a] = "starting"
  /\ \/ registry.pushed /\ cloud' = [cloud EXCEPT ![a] = "started"]
     \/ cloud' = [cloud EXCEPT ![a] = "failed"]
  /\ UNCHANGED <<stage, try, held, registry, troubled, overdue, egressVars, tunnelVars>>

Started ==
  /\ cloud[try] = "started" /\ Stage("waiting", "connect")
  /\ UNCHANGED <<try, held, cloud, registry, troubled, overdue, egressVars, tunnelVars>>

(* A failed pull on the first attempt is repaired; anything else, the       *)
(* deadline and cancellation included, raises.                              *)
NotStarted ==
  /\ \/ /\ try = 1 /\ cloud[try] = "failed"
        /\ Stage("waiting", "discard_and_retry")
     \/ Stage("waiting", "discard")
  /\ UNCHANGED <<try, held, cloud, registry, troubled, overdue, egressVars, tunnelVars>>

Closed == IF tunnel = "none" THEN tunnel ELSE "closed"

(* _discard and destroy wait until Daytona no longer has the sandbox. *)
Delete(from, to) ==
  /\ Stage(from, to)
  /\ \/ cloud' = [cloud EXCEPT ![held] = "gone"] /\ UNCHANGED troubled
     \/ troubled' = TRUE /\ UNCHANGED cloud
  /\ tunnel' = Closed

Discard ==
  /\ Delete("discard", "raised")
  /\ UNCHANGED <<try, held, registry, overdue, egressVars, failures>>

DiscardAndRetry ==
  /\ Delete("discard_and_retry", "publish")
  /\ try' = 2 /\ held' = 0
  /\ UNCHANGED <<registry, overdue, egressVars, failures>>

(* guestd, the framework's identity, the privileges, the daemon's ports and *)
(* the GPUs are as they should be; a tunnel starts if there is a Gateway.   *)
Connect ==
  /\ Stage("connect", "tunnel")
  /\ tunnel' \in {"none", "down"}
  /\ UNCHANGED <<try, held, cloud, registry, troubled, overdue, egressVars, failures>>

(* The tunnel has been up; the image's command, the desktop and the         *)
(* connection for files.                                                    *)
Ready ==
  /\ tunnel \in {"none", "up"}
  /\ Stage("tunnel", "ready")
  /\ UNCHANGED <<try, held, cloud, registry, troubled, overdue, egressVars, tunnelVars>>

CreateFails ==
  /\ stage \in {"connect", "tunnel"} /\ stage' = "discard"
  /\ tunnel' = Closed
  /\ UNCHANGED <<try, held, cloud, registry, troubled, overdue, egressVars, failures>>

-----------------------------------------------------------------------------
(* open_egress and close_egress                                             *)

SetEgress(open) ==
  /\ Stage("ready", "probing") /\ toggles < MaxToggle
  /\ toggles' = toggles + 1
  /\ network' = [network EXCEPT !.pending = Append(@, open), !.told = "unknown"]
  /\ UNCHANGED <<try, held, cloud, registry, troubled, overdue, misread, tunnelVars>>

Applied ==
  /\ network.pending # <<>>
  /\ network' = [network EXCEPT !.open = Head(network.pending), !.pending = Tail(@)]
  /\ UNCHANGED <<createVars, misread, toggles, tunnelVars>>

(* The settings asked for last. *)
Wanted == IF network.pending # <<>> THEN network.pending[Len(network.pending)]
                                     ELSE network.open

(* Mutant: the API's answer is enough. *)
BelieveTheApi(handshake) == TRUE

BehavesAsAsked(handshake) == handshake = Wanted

(* A handshake completes only over an open network, but may fail over one. *)
Probe ==
  /\ \E handshake \in {network.open, FALSE} :
       /\ BehavesAsAsked(handshake)
       /\ misread' = (misread \/ handshake # network.open)
  /\ Stage("probing", "ready")
  /\ network' = [network EXCEPT !.told = IF Wanted THEN "open" ELSE "closed"]
  /\ UNCHANGED <<try, held, cloud, registry, troubled, overdue, toggles, tunnelVars>>

(* Refused, stored otherwise, or not in effect in time: the phase fails. *)
EgressFails ==
  /\ Stage("probing", "failed")
  /\ UNCHANGED <<try, held, cloud, registry, troubled, overdue, egressVars, tunnelVars>>

-----------------------------------------------------------------------------
(* destroy and retain                                                       *)

Destroy ==
  /\ \/ Delete("ready", "destroyed")
     \/ Delete("failed", "destroyed")
  /\ UNCHANGED <<try, held, registry, overdue, egressVars, failures>>

Retain ==
  /\ Stage("ready", "retained")
  /\ tunnel' = Closed
  /\ UNCHANGED <<try, held, cloud, registry, troubled, overdue, egressVars, failures>>

-----------------------------------------------------------------------------
(* _Tunnel._supervise                                                       *)

InUse == stage \in {"tunnel", "ready", "probing", "failed"}

TunnelDials ==
  /\ InUse /\ tunnel = "down"
  /\ tunnel' = "dialing"
  /\ UNCHANGED <<createVars, egressVars, failures>>

TunnelReady ==
  /\ InUse /\ tunnel = "dialing"
  /\ tunnel' = "up" /\ failures' = 0
  /\ UNCHANGED <<createVars, egressVars>>

(* Mutant: a session that did not become ready is not counted. *)
Uncounted == failures

Counted == failures + 1

(* No SSH session, no answer within a minute, or an error: the third in a   *)
(* row is the last, and nobody is told unless the tunnel never was up.      *)
TunnelFails ==
  /\ InUse /\ tunnel = "dialing"
  /\ failures' = Counted
  /\ tunnel' = IF failures' = 3 THEN "given_up" ELSE "down"
  /\ UNCHANGED <<createVars, egressVars>>

TunnelDrops ==
  /\ InUse /\ tunnel = "up"
  /\ tunnel' = "down"
  /\ UNCHANGED <<createVars, egressVars, failures>>

Supervise == TunnelDials \/ TunnelReady \/ TunnelFails

Daytona == (\E a \in Attempts : Made(a) \/ Refused(a) \/ Build(a)) \/ Applied

DaytonaNext ==
  \/ Publish \/ PublishFails \/ Post \/ Replied \/ NoReply \/ Reclaim \/ Started \/ NotStarted
  \/ Discard \/ DiscardAndRetry \/ Connect \/ Ready \/ CreateFails
  \/ SetEgress(TRUE) \/ SetEgress(FALSE) \/ Probe \/ EgressFails \/ Destroy \/ Retain
  \/ Supervise \/ TunnelDrops \/ Daytona

-----------------------------------------------------------------------------
(* Nothing is left at Daytona by a create that raised, by a first attempt   *)
(* that was repaired, or by a destroy, unless one of the calls that remove  *)
(* it failed, or Daytona made the sandbox after it had been looked for.     *)
CreatesLeaveNothing ==
  ~troubled /\ ~overdue =>
    /\ stage \in {"raised", "destroyed"} => NameIsFree
    /\ stage \in {"ready", "probing", "failed", "retained"} =>
         \A a \in Attempts : Live(a) <=> a = held

(* Who holds what, stage by stage: until a create is answered nothing but   *)
(* its own sandbox can be there, afterwards the one it holds is.            *)
Asking  == {"publish", "post", "creating", "reclaim"}
Holding == {"waiting", "discard_and_retry", "connect", "tunnel", "ready", "probing", "failed",
            "retained"}
Ended   == {"raised", "destroyed"}

DaytonaCreates ==
  /\ stage \in Asking \cup Holding \cup Ended \cup {"discard"}
  /\ try \in Attempts /\ held \in Attempts \cup {0}
  /\ cloud \in [Attempts -> Alive \cup {"none", "requested", "refused", "gone"}]
  /\ troubled \in BOOLEAN /\ overdue \in BOOLEAN
  /\ try = 1 => cloud[2] = "none"
  /\ stage = "discard_and_retry" => try = 1
  /\ stage \in {"publish", "post"} => cloud[try] = "none"
  /\ stage \in Holding => held = try
  /\ stage \in Holding \cup {"discard"} => held # 0 /\ Live(held)
  /\ ~troubled /\ ~overdue =>
       /\ stage \in Asking => \A a \in Attempts : Live(a) => a = try
       /\ stage \in Holding \cup {"discard"} => \A a \in Attempts : Live(a) => a = held
       /\ stage \in Ended => NameIsFree

(* Once close_egress has returned, the network is closed, although Daytona  *)
(* applies settings after it has answered; unless a probe failed over an    *)
(* open network.                                                            *)
ReportedClosedIsClosed == network.told = "closed" /\ ~misread => ~network.open

(* Between two reports only the last setting asked for may differ from what *)
(* the network does; a report says that it does not.                        *)
Unreported == network.told = "unknown"

EgressSettles ==
  /\ network \in [pending : Seq(BOOLEAN), open : BOOLEAN, told : {"closed", "open", "unknown"}]
  /\ misread \in BOOLEAN
  /\ Unreported => stage \in {"probing", "failed", "destroyed"}
  /\ ~misread =>
       /\ \A i \in 1 .. Len(network.pending) - 1 : network.pending[i] = network.open
       /\ ~Unreported =>
            /\ network.told = "closed" <=> ~network.open
            /\ \A i \in 1 .. Len(network.pending) : network.pending[i] = network.open

(* A tunnel that is down comes up again or is given up: the supervisor does *)
(* not try forever.                                                         *)
DroppedTunnelsSettle == tunnel = "down" ~> tunnel \in {"up", "given_up", "closed"}
=============================================================================
