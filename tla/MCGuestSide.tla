---------------------------- MODULE MCGuestSide ----------------------------
(* The parts of a guest whose promises are about time: its egress tunnel,   *)
(* the life of a Daytona sandbox, and its desktop.  A behaviour is about    *)
(* one of the three; the others keep their first value.                     *)
EXTENDS TunnelMux, DaytonaVM, Desktop

VARIABLE part

BothWays == [guest |-> <<2, 0>>, host |-> <<0, 1>>]

(* A click, and a pointer moved, a size asked for and a wheel turned.       *)
ClickOrMoveAndScroll == {<<"act">>, <<"act", "read", "act">>}

sideVars == <<part, muxVars, daytonaVars, desktopVars>>

SideInit ==
  /\ part \in {"tunnel", "daytona", "desktop"}
  /\ MuxInit /\ DaytonaInit /\ DesktopInit
  /\ part # "tunnel"  => limit = 1
  /\ part # "daytona" => registry = [pushed |-> FALSE, recorded |-> FALSE]
  /\ part # "desktop" => system = "linux"

SideNext ==
  /\ part' = part
  /\ \/ part = "tunnel" /\ MuxNext /\ UNCHANGED <<daytonaVars, desktopVars>>
     \/ part = "daytona" /\ DaytonaNext /\ UNCHANGED <<muxVars, desktopVars>>
     \/ part = "desktop" /\ DesktopNext /\ UNCHANGED <<muxVars, daytonaVars>>

(* Both ends of the tunnel dispatch what arrives, the copies of a stream    *)
(* whose socket is not stuck go on, and the supervisor goes on dialling.    *)
(* The Host goes on making desktop requests, not all of them unsupported;   *)
(* guestd goes on with each, a started Driver binds its socket, and the     *)
(* Windows service does its round.                                          *)
SideFairness ==
  /\ \A e \in TunnelEnds : WF_muxVars(DispatchFrame(e) \/ EndRun(e))
  /\ \A s \in Sids \ Slow : SF_muxVars(part = "tunnel" /\ Moves(s))
  /\ WF_daytonaVars(part = "daytona" /\ Supervise)
  /\ \A c \in Threads : /\ WF_desktopVars(part = "desktop" /\ Request(c))
                        /\ SF_desktopVars(part = "desktop" /\ Invoke(c))
                        /\ WF_desktopVars(part = "desktop" /\ Steps(c))
  /\ \A d \in DriverIds : WF_desktopVars(part = "desktop" /\ Bind(d))
  /\ WF_desktopVars(part = "desktop" /\ KeepingUp)

SideSpec == SideInit /\ [][SideNext]_sideVars /\ SideFairness
=============================================================================
