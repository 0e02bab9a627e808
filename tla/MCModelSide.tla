---------------------------- MODULE MCModelSide ----------------------------
(* The parts between an agent and its model, and the command that starts    *)
(* them for its episodes, each checked on its own small instance: which one *)
(* a behaviour is about is chosen when it starts, and the variables of the  *)
(* others keep their first value.                                           *)
EXTENDS MCGatewaySession, GuestChannel, SubscriptionRefresh, RunCommand

VARIABLE part

Judge == INSTANCE GatewaySession WITH Purpose <- "judge"

JudgeNext == Judge!Next /\ pc'[c3] = "idle"    \* two calls are enough
Profiles  == <<1, 1, 2>>                      \* two Gateways, one with two requests

FirstCommand == [kind |-> "prepare", stage |-> "configure", code |-> -1, signal |-> FALSE,
                 failures |-> 0, next |-> 1, models |-> FALSE, judged |-> FALSE,
                 hosts |-> FALSE, earlier |-> [t \in TaskIds |-> 0]]

sideVars == <<part, vars, channelVars, refreshVars, commandVars>>

SideInit ==
  /\ part \in {"agent_session", "judge_session", "channel", "refresh", "command"}
  /\ Init /\ ChannelInit /\ RefreshInit /\ CommandInit
  /\ part # "command" => command = FirstCommand

SideNext ==
  /\ part' = part
  /\ \/ part = "agent_session" /\ Next /\ UNCHANGED <<channelVars, refreshVars, commandVars>>
     \/ part = "judge_session" /\ JudgeNext /\ UNCHANGED <<channelVars, refreshVars, commandVars>>
     \/ part = "channel" /\ ChannelNext /\ UNCHANGED <<vars, refreshVars, commandVars>>
     \/ part = "refresh" /\ RefreshNext /\ UNCHANGED <<vars, channelVars, commandVars>>
     \/ part = "command" /\ CommandNext /\ UNCHANGED <<vars, channelVars, refreshVars>>

Responds(c) == IF part = "judge_session" THEN Judge!Respond(c)
                                        ELSE part = "agent_session" /\ Respond(c)
Settles(c)  == IF part = "judge_session" THEN Judge!Settle(c)
                                        ELSE part = "agent_session" /\ Settle(c)

(* Every handler of the session runs; both ends of a channel read, and an   *)
(* operation of the guest comes to its end.  A command goes on, its         *)
(* episodes end, and a connection of the egress proxy ends with its sandbox.*)
SideFairness ==
  /\ \A c \in Calls : WF_vars(Responds(c)) /\ WF_vars(Settles(c))
  /\ WF_channelVars(HostReads)
  /\ WF_channelVars(GuestActs)
  /\ WF_channelVars(part = "channel" /\ Exit)
  /\ WF_channelVars(part = "channel" /\ SendBody)
  /\ WF_commandVars(part = "command" /\ Progress)
  /\ WF_commandVars(part = "command" /\ CutTunnel)

SideSpec == SideInit /\ [][SideNext]_sideVars /\ SideFairness
=============================================================================
