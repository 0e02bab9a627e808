------------------------------- MODULE QemuVM -------------------------------
(***************************************************************************)
(* QEMU sandboxes on one Host (providers/qemu.py): the storage directory   *)
(* with the overlay and the guest token, the forwarded port, the runner    *)
(* container, the guest's claim (guestd's Claim), the snapshots other VMs  *)
(* boot from, and the commands that attach to or destroy what was kept.    *)
(*                                                                         *)
(* A create, its token, its container, its guest and its snapshot share    *)
(* the create's number; 0 is none.  Every await is a step that may fail;   *)
(* the process of a create may be killed anywhere.  GPUs, the firewall and *)
(* the guest's contents are left out (DeviceLease has the device locks).   *)
(***************************************************************************)
EXTENDS Integers

CONSTANTS
  Vms,     \* 1..n, the creates
  HostPorts

ASSUME QemuAssumption ==
  /\ Vms \subseteq Nat \ {0}
  /\ HostPorts \subseteq Nat \ {0}

VARIABLES
  phase,    \* per create: the await its code is in
  base,     \* per create: the snapshot its VM boots from, or 0
  storage,  \* per create: its storage directory, with token and overlay, exists
  port,     \* per create: the Host port it published, or 0
  runner,   \* per create: its container
  claimed,  \* per guest: the token it belongs to, on its disk
  client,   \* per create: the guest its client is connected to
  saved,    \* per create: the snapshot taken of it
  overtook, \* per create: a destroy listed the containers before this one existed
  order     \* the `ale sandbox` command or later run acting on what was kept

qemuVars == <<phase, base, storage, port, runner, claimed, client, saved, overtook, order>>

NoSnapshot == [disk |-> "none", record |-> FALSE]
NoOrder    == [op |-> "none", vm |-> 0, port |-> 0, guest |-> 0]

(* _snapshot_record: both files are there. *)
Listed(s) == saved[s].record /\ saved[s].disk # "none"

QemuInit ==
  /\ phase = [v \in Vms |-> "idle"]
  /\ base = [v \in Vms |-> 0]
  /\ storage = [v \in Vms |-> FALSE]
  /\ port = [v \in Vms |-> 0]
  /\ runner = [v \in Vms |-> "none"]
  /\ claimed = [v \in Vms |-> 0]
  /\ client = [v \in Vms |-> 0]
  /\ saved = [v \in Vms |-> NoSnapshot]
  /\ overtook = [v \in Vms |-> FALSE]
  /\ order = NoOrder

Phase(v, from, to) == phase[v] = from /\ phase' = [phase EXCEPT ![v] = to]

Bound(p) == \E u \in Vms : runner[u] = "running" /\ port[u] = p

(* Claim.admit: the first token owns the guest. *)
Admits(g, t) == claimed[g] \in {0, t}

(* TcpTransport.start: whatever runner publishes the port answers. *)
Reaches(p, t, g) == runner[g] = "running" /\ port[g] = p /\ Admits(g, t)
ClaimedBy(g, t)  == claimed' = [claimed EXCEPT ![g] = IF @ = 0 THEN t ELSE @]

-----------------------------------------------------------------------------
(* create                                                                   *)

(* The prepared disk, or a snapshot whose record is read now. *)
ResolveDisk(v) ==
  /\ Phase(v, "idle", "resolved")
  /\ \E b \in {0} \cup {s \in Vms : Listed(s)} :
       /\ base' = [base EXCEPT ![v] = b]
       /\ overtook' = [overtook EXCEPT ![v] = order.op = "destroy_snapshot" /\ order.vm = b]
  /\ UNCHANGED <<storage, port, runner, claimed, client, saved, order>>

MakeStorage(v) ==
  /\ Phase(v, "resolved", "overlay")
  /\ storage' = [storage EXCEPT ![v] = TRUE]
  /\ UNCHANGED <<base, port, runner, claimed, client, saved, overtook, order>>

(* Nothing removes the directory when the overlay or the lease fails. *)
OverlayFails(v) ==
  /\ Phase(v, "overlay", "left")
  /\ UNCHANGED <<base, storage, port, runner, claimed, client, saved, overtook, order>>

(* _free_port: free when the socket was closed. *)
FreePort(v) ==
  /\ Phase(v, "overlay", "boot")
  /\ \E p \in HostPorts : ~Bound(p) /\ port' = [port EXCEPT ![v] = p]
  /\ UNCHANGED <<base, storage, runner, claimed, client, saved, overtook, order>>

DiskIsThere(v) == base[v] # 0 => saved[base[v]].disk # "none"

(* _boot: docker binds the port and mounts the disk, or the run fails. *)
DockerRun(v) ==
  /\ ~Bound(port[v]) /\ DiskIsThere(v)
  /\ runner' = [runner EXCEPT ![v] = "running"]
  /\ Phase(v, "boot", "connect")
  /\ UNCHANGED <<base, storage, port, claimed, client, saved, overtook, order>>

(* The run failed, timed out or was cancelled: its container is left as it  *)
(* is, and create removes the storage.                                      *)
DockerRunFails(v) ==
  /\ Phase(v, "boot", "left")
  /\ \E r \in {"none", "created"} \cup (IF Bound(port[v]) \/ ~DiskIsThere(v)
                                           THEN {} ELSE {"running"}) :
       runner' = [runner EXCEPT ![v] = r]
  /\ storage' = [storage EXCEPT ![v] = FALSE]
  /\ UNCHANGED <<base, port, claimed, client, saved, overtook, order>>

(* _connect retries until somebody admits the token. *)
ConnectVm(v) ==
  /\ Phase(v, "connect", "contract")
  /\ \E g \in Vms : /\ Reaches(port[v], v, g)
                    /\ ClaimedBy(g, v)
                    /\ client' = [client EXCEPT ![v] = g]
  /\ UNCHANGED <<base, storage, port, runner, saved, overtook, order>>

(* The account, the root storage, the desktop and the privileges are as     *)
(* requested, and the file client connects.                                 *)
Ready(v) ==
  /\ Phase(v, "contract", "ready")
  /\ client[v] # 0 /\ runner[client[v]] = "running"
  /\ UNCHANGED <<base, storage, port, runner, claimed, client, saved, overtook, order>>

StepFails(v) ==
  /\ phase[v] \in {"connect", "contract"}
  /\ phase' = [phase EXCEPT ![v] = "remove"]
  /\ client' = [client EXCEPT ![v] = 0]
  /\ UNCHANGED <<base, storage, port, runner, claimed, saved, overtook, order>>

-----------------------------------------------------------------------------
(* snapshot, retain and destroy                                             *)

StartSnapshot(v) ==
  /\ Phase(v, "ready", "power_off")
  /\ UNCHANGED <<base, storage, port, runner, claimed, client, saved, overtook, order>>

(* _power_off: the guest the client reaches shuts down, the clients are     *)
(* closed and the create's own runner has exited; the export begins.        *)
PowerOff(v) ==
  /\ Phase(v, "power_off", "export")
  /\ runner[client[v]] = "running"
  /\ runner' = [runner EXCEPT ![client[v]] = "exited"]
  /\ runner'[v] = "exited"
  /\ client' = [client EXCEPT ![v] = 0]
  /\ saved' = [saved EXCEPT ![v].disk = "torn"]
  /\ UNCHANGED <<base, storage, port, claimed, overtook, order>>

(* _export reads the overlay and the disk under it. *)
Export(v) ==
  /\ Phase(v, "export", "record")
  /\ storage[v] /\ DiskIsThere(v)
  /\ saved' = [saved EXCEPT ![v].disk = "whole"]
  /\ UNCHANGED <<base, storage, port, runner, claimed, client, overtook, order>>

RecordSnapshot(v) ==
  /\ Phase(v, "record", "remove")
  /\ saved' = [saved EXCEPT ![v].record = TRUE]
  /\ UNCHANGED <<base, storage, port, runner, claimed, client, overtook, order>>

SnapshotFails(v) ==
  /\ phase[v] \in {"power_off", "export", "record"}
  /\ phase' = [phase EXCEPT ![v] = "remove"]
  /\ saved' = [saved EXCEPT ![v] = NoSnapshot]
  /\ client' = [client EXCEPT ![v] = 0]
  /\ UNCHANGED <<base, storage, port, runner, claimed, overtook, order>>

RetainVm(v) ==
  /\ Phase(v, "ready", "kept")
  /\ client' = [client EXCEPT ![v] = 0]
  /\ UNCHANGED <<base, storage, port, runner, claimed, saved, overtook, order>>

DestroyVm(v) ==
  /\ Phase(v, "ready", "remove")
  /\ client' = [client EXCEPT ![v] = 0]
  /\ UNCHANGED <<base, storage, port, runner, claimed, saved, overtook, order>>

(* docker rm -f, whose failure is suppressed, and then the storage. *)
RemoveVm(v) ==
  /\ Phase(v, "remove", "left")
  /\ \E r \in {"none", runner[v]} : runner' = [runner EXCEPT ![v] = r]
  /\ storage' = [storage EXCEPT ![v] = FALSE]
  /\ UNCHANGED <<base, port, claimed, client, saved, overtook, order>>

-----------------------------------------------------------------------------
(* The runner and the guest by themselves; a killed process.                *)

RunnerExits(v) ==
  /\ runner[v] = "running"
  /\ runner' = [runner EXCEPT ![v] = "exited"]
  /\ UNCHANGED <<phase, base, storage, port, claimed, client, saved, overtook, order>>

(* Mutant: the claim was only in memory. *)
ForgetClaim(g) == [claimed EXCEPT ![g] = 0]

(* guestd starts again and loads its claim from the disk. *)
LoadClaim(g) == claimed

GuestRestarts(g) ==
  /\ runner[g] = "running"
  /\ claimed' = LoadClaim(g)
  /\ UNCHANGED <<phase, base, storage, port, runner, client, saved, overtook, order>>

Kill(v) ==
  /\ phase[v] \notin {"idle", "kept", "left"}
  /\ phase' = [phase EXCEPT ![v] = "left"]
  /\ client' = [client EXCEPT ![v] = 0]
  /\ UNCHANGED <<base, storage, port, runner, claimed, saved, overtook, order>>

-----------------------------------------------------------------------------
(* destroy_retained and attach_retained, by another command                 *)

(* `docker ps` found no VM on the snapshot's disk; one that has read the    *)
(* record and has no container yet is not seen.                             *)
Unseen(v, s) == base[v] = s /\ phase[v] \in {"resolved", "overlay", "boot"}

(* Mutant: the containers are not looked at. *)
NobodyCares(s) == TRUE

NobodyRunsOn(s) == \A v \in Vms : base[v] = s => runner[v] = "none"

LookBeforeDestroy(s) ==
  /\ order = NoOrder /\ Listed(s) /\ NobodyRunsOn(s)
  /\ order' = [NoOrder EXCEPT !.op = "destroy_snapshot", !.vm = s]
  /\ overtook' = [v \in Vms |-> overtook[v] \/ Unseen(v, s)]
  /\ UNCHANGED <<phase, base, storage, port, runner, claimed, client, saved>>

RemoveSnapshot ==
  /\ order.op = "destroy_snapshot"
  /\ saved' = [saved EXCEPT ![order.vm] = NoSnapshot]
  /\ order' = NoOrder
  /\ UNCHANGED <<phase, base, storage, port, runner, claimed, client, overtook>>

(* Everything labelled `keep` may be destroyed, a VM still in use included; *)
(* the storage goes after the container.                                    *)
DestroyKept(v) ==
  /\ runner[v] # "none" /\ storage[v]
  /\ runner' = [runner EXCEPT ![v] = "none"]
  /\ storage' = [storage EXCEPT ![v] = FALSE]
  /\ UNCHANGED <<phase, base, port, claimed, client, saved, overtook, order>>

(* A later run inspects a running VM and reads its token and port, ... *)
AttachKept(v) ==
  /\ order = NoOrder
  /\ phase[v] = "kept" /\ runner[v] = "running" /\ storage[v]
  /\ order' = [op |-> "attach", vm |-> v, port |-> port[v], guest |-> 0]
  /\ UNCHANGED <<phase, base, storage, port, runner, claimed, client, saved, overtook>>

(* ... connects to whatever publishes that port now, and leaves again. *)
AttachConnects ==
  /\ order.op = "attach" /\ order.guest = 0
  /\ \E g \in Vms : /\ Reaches(order.port, order.vm, g)
                    /\ ClaimedBy(g, order.vm)
                    /\ order' = [order EXCEPT !.guest = g]
  /\ UNCHANGED <<phase, base, storage, port, runner, client, saved, overtook>>

Detach ==
  /\ order.op = "attach"
  /\ order' = NoOrder
  /\ UNCHANGED <<phase, base, storage, port, runner, claimed, client, saved, overtook>>

QemuNext ==
  \/ \E v \in Vms :
       \/ ResolveDisk(v) \/ MakeStorage(v) \/ OverlayFails(v) \/ FreePort(v)
       \/ DockerRun(v) \/ DockerRunFails(v) \/ ConnectVm(v) \/ Ready(v) \/ StepFails(v)
       \/ StartSnapshot(v) \/ PowerOff(v) \/ Export(v) \/ RecordSnapshot(v)
       \/ SnapshotFails(v) \/ RetainVm(v) \/ DestroyVm(v) \/ RemoveVm(v)
       \/ RunnerExits(v) \/ GuestRestarts(v) \/ Kill(v)
       \/ LookBeforeDestroy(v) \/ DestroyKept(v) \/ AttachKept(v)
  \/ RemoveSnapshot \/ AttachConnects \/ Detach

QemuSpec == QemuInit /\ [][QemuNext]_qemuVars

-----------------------------------------------------------------------------
(* What the states that can be reached have in common: the parts of the     *)
(* inductive invariant.                                                     *)

Snapshots == [disk: {"none", "torn", "whole"}, record: BOOLEAN]

Booting   == {"resolved", "overlay", "boot"}
Exporting == {"power_off", "export", "record"}

QemuTypeOK ==
  /\ phase \in [Vms -> {"idle", "connect", "contract", "ready", "remove", "kept", "left"}
                       \cup Booting \cup Exporting]
  /\ base \in [Vms -> Vms \cup {0}]
  /\ storage \in [Vms -> BOOLEAN]
  /\ port \in [Vms -> HostPorts \cup {0}]
  /\ runner \in [Vms -> {"none", "created", "running", "exited"}]
  /\ claimed \in [Vms -> Vms \cup {0}]
  /\ client \in [Vms -> Vms \cup {0}]
  /\ saved \in [Vms -> Snapshots]
  /\ overtook \in [Vms -> BOOLEAN]
  /\ order \in [op: {"none", "attach", "destroy_snapshot"}, vm: Vms \cup {0},
                port: HostPorts \cup {0}, guest: Vms \cup {0}]

(* Whoever is connected to a guest has claimed it. *)
ConnectedClaims ==
  /\ \A v \in Vms : client[v] # 0 => claimed[client[v]] = v
  /\ order.op = "attach" => /\ order.vm # 0
                            /\ order.guest # 0 => claimed[order.guest] = order.vm

(* A snapshot is recorded once it is whole, and its create is past it then.  *)
RecordedWhole ==
  \A v \in Vms :
    /\ saved[v].record => saved[v].disk = "whole" /\ phase[v] \in {"remove", "left"}
    /\ phase[v] = "record" => saved[v].disk = "whole"

(* What a VM boots from was recorded, and is whole until it is removed.      *)
BasesRecorded ==
  \A v \in Vms :
    /\ phase[v] = "idle" => base[v] = 0
    /\ base[v] # 0 => /\ phase[base[v]] \in {"remove", "left"}
                      /\ saved[base[v]].disk \in {"none", "whole"}
                      /\ saved[base[v]].record <=> saved[base[v]].disk = "whole"

(* The command that removes a snapshot has seen every VM on it, or overtook  *)
(* its create.                                                               *)
RemovalLooked ==
  order.op = "destroy_snapshot" =>
    /\ order.vm # 0 /\ saved[order.vm].record
    /\ \A v \in Vms : base[v] = order.vm /\ ~overtook[v] =>
                        runner[v] # "running" /\ phase[v] \notin Booting

RunsOnWhole ==
  \A v \in Vms : runner[v] = "running" /\ base[v] # 0 /\ ~overtook[v]
                   => saved[base[v]].disk = "whole"

QemuInvariant ==
  QemuTypeOK /\ ConnectedClaims /\ RecordedWhole /\ BasesRecorded /\ RemovalLooked /\ RunsOnWhole

-----------------------------------------------------------------------------
(* A guest takes commands under one token only: a client that reaches the   *)
(* guest of another VM, over a port that passed from one runner to the      *)
(* next, is refused unless it came first, and then the other one is.        *)
CommandsOf(g) == {v \in Vms : client[v] = g} \cup
                 (IF order.op = "attach" /\ order.guest = g THEN {order.vm} ELSE {})

GuestsServeOneToken ==
  \A g \in Vms : \A u, v \in CommandsOf(g) : u = v

(* A snapshot that can be listed was exported completely from a VM that had *)
(* shut down, and it is there as long as a VM runs on it, unless the        *)
(* command that destroyed it looked before that VM's container existed.     *)
SnapshotsStayWhole ==
  \A v \in Vms :
    /\ Listed(v) => saved[v].disk = "whole"
    /\ runner[v] = "running" /\ base[v] # 0 /\ ~overtook[v]
         => saved[base[v]].disk = "whole"
=============================================================================
