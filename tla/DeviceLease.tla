----------------------------- MODULE DeviceLease -----------------------------
(***************************************************************************)
(* GPU devices of the Docker provider (providers/docker.py, gpu.py).  Two   *)
(* things reserve a device: an flock, for as long as the process that took *)
(* it lives or until it releases it, and the label of a running container, *)
(* for as long as the container runs.  A sandbox passes from one to the    *)
(* other while other processes create theirs.                              *)
(*                                                                         *)
(* Every create here asks for GPUs and runs in a process of its own; each  *)
(* call of the docker command line is one step.                            *)
(***************************************************************************)
EXTENDS Integers, FiniteSets, FiniteSetsExt

CONSTANTS
  Creates,     \* DockerProvider.create calls, model values
  Devices,     \* the eligible devices, numbered as their keys sort
  Requested    \* per create: request.resources.gpus

ASSUME DeviceAssumption ==
  /\ Devices \subseteq Nat /\ IsFiniteSet(Devices)
  /\ Requested \in [Creates -> Nat \ {0}]

VARIABLES
  at,        \* per create: what it is about to do
  untried,   \* per create: keys GpuLease.acquire has not tried
  locked,    \* per create: the devices whose lock file it holds
  container, \* per create: "none", "late" (the daemon will start it), "running",
             \* "stopped", "removed"
  label,     \* per create: the devices given to its container
  network,   \* the creates whose network exists
  unchecked  \* the creates that started on devices nobody checked

deviceVars == <<at, untried, locked, container, label, network, unchecked>>

Everyone(x) == [c \in Creates |-> x]

DeviceInit ==
  /\ at = Everyone("begin") /\ untried = Everyone({}) /\ locked = Everyone({})
  /\ container = Everyone("none") /\ label = Everyone({})
  /\ network = {} /\ unchecked = {}

CreateAt(c, p)  == at' = [at EXCEPT ![c] = p]
Becomes(c, how) == container' = [container EXCEPT ![c] = how]
Unlock(c)       == locked' = [locked EXCEPT ![c] = {}]

(* _managed_gpu_ids: docker ps lists what runs; when it fails, nothing. *)
Managed == UNION {label[d] : d \in {e \in Creates : container[e] = "running"}}

-----------------------------------------------------------------------------
(* DockerProvider.create, up to the lease.                                  *)

(* check_image or the snapshot's label refuses, or the network is created. *)
EnsureNetwork(c) ==
  /\ at[c] = "begin"
  /\ \/ CreateAt(c, "address") /\ network' = network \cup {c}
     \/ CreateAt(c, "address") /\ UNCHANGED network            \* an open network
     \/ CreateAt(c, "failed") /\ UNCHANGED network
  /\ UNCHANGED <<untried, locked, container, label, unchecked>>

(* A failure from here to the lease leaves the network behind. *)
BridgeHostIp(c) ==
  /\ at[c] = "address"
  /\ \E p \in {"list", "failed"} : CreateAt(c, p)
  /\ UNCHANGED <<untried, locked, container, label, network, unchecked>>

ListContainers(c) ==
  /\ at[c] = "list"
  /\ \E used \in {Managed, {}} : untried' = [untried EXCEPT ![c] = Devices \ used]
  /\ CreateAt(c, "acquire")
  /\ UNCHANGED <<locked, container, label, network, unchecked>>

(* GpuLease.acquire: the keys in order, none waited for. *)
TryLock(c) ==
  /\ at[c] \in {"acquire", "acquire_again"} /\ untried[c] # {}
  /\ Cardinality(locked[c]) < Requested[c]
  /\ LET key == Min(untried[c])
         taken == \E d \in Creates : key \in locked[d]
     IN  /\ untried' = [untried EXCEPT ![c] = @ \ {key}]
         /\ locked' = [locked EXCEPT ![c] = IF taken THEN @ ELSE @ \cup {key}]
  /\ UNCHANGED <<at, container, label, network, unchecked>>

TooFew(c) ==
  /\ at[c] \in {"acquire", "acquire_again"} /\ untried[c] = {}
  /\ Cardinality(locked[c]) < Requested[c]
  /\ Unlock(c) /\ CreateAt(c, "failed")
  /\ UNCHANGED <<untried, container, label, network, unchecked>>

(* The second lease is not compared with the containers again. *)
Selected(c) ==
  /\ at[c] \in {"acquire", "acquire_again"} /\ Cardinality(locked[c]) = Requested[c]
  /\ label' = [label EXCEPT ![c] = locked[c]]
  /\ untried' = [untried EXCEPT ![c] = {}]
  /\ CreateAt(c, IF at[c] = "acquire" THEN "compare" ELSE "run")
  /\ unchecked' = IF at[c] = "acquire" THEN unchecked ELSE unchecked \cup {c}
  /\ UNCHANGED <<locked, container, network>>

(* Mutant: the devices are taken as they were listed before the lock. *)
NeverTaken(c, used) == FALSE

Taken(c, used) == label[c] \cap used # {}

Compare(c) ==
  /\ at[c] = "compare"
  /\ \E used \in {Managed, {}} :
       /\ IF Taken(c, used)
            THEN /\ Unlock(c) /\ CreateAt(c, "acquire_again")
                 /\ label' = [label EXCEPT ![c] = {}]
                 /\ untried' = [untried EXCEPT ![c] = Devices \ used]
            ELSE CreateAt(c, "run") /\ UNCHANGED <<locked, label, untried>>
       /\ unchecked' = IF used = Managed THEN unchecked ELSE unchecked \cup {c}
  /\ UNCHANGED <<container, network>>

-----------------------------------------------------------------------------
(* The container.                                                           *)

(* docker run; when it fails or times out the daemon may have started it. *)
Run(c) ==
  /\ at[c] = "run"
  /\ \/ CreateAt(c, "wire") /\ Becomes(c, "running")
     \/ CreateAt(c, "remove") /\ \E how \in {"none", "running"} : Becomes(c, how)
  /\ UNCHANGED <<untried, locked, label, network, unchecked>>

(* The image's identity, the host rules, the two guest sessions, elevation, *)
(* the devices the guest sees, and the desktop.                             *)
Connect(c) ==
  /\ at[c] = "wire"
  /\ \E p \in {"ready", "remove"} : CreateAt(c, p)
  /\ UNCHANGED <<untried, locked, container, label, network, unchecked>>

(* docker rm -f: its failure is not noticed; DockerSandbox.destroy runs once, *)
(* and a timeout there skips the network.                                     *)
RemoveContainer(c) ==
  /\ at[c] \in {"remove", "destroy", "destroy_snapshot"}
  /\ \/ Becomes(c, "removed") /\ CreateAt(c, "remove_network")
     \/ \E p \in {"remove_network", "release"} : CreateAt(c, p) /\ UNCHANGED container
  /\ UNCHANGED <<untried, locked, label, network, unchecked>>

RemoveNetwork(c) ==
  /\ at[c] = "remove_network"
  /\ CreateAt(c, "release")
  /\ network' = IF container[c] = "running" THEN network ELSE network \ {c}
  /\ UNCHANGED <<untried, locked, container, label, unchecked>>

Release(c) ==
  /\ at[c] = "release"
  /\ Unlock(c) /\ CreateAt(c, "left")
  /\ UNCHANGED <<untried, container, label, network, unchecked>>

(* The episode ends: destroy, retain, or stop and commit a snapshot. *)
Finalize(c) ==
  /\ at[c] = "ready"
  /\ \E p \in {"destroy", "release", "snapshot"} : CreateAt(c, p)
  /\ UNCHANGED <<untried, locked, container, label, network, unchecked>>

Snapshot(c) ==
  /\ at[c] = "snapshot"
  /\ \/ Becomes(c, "stopped") \/ UNCHANGED container      \* docker stop fails
  /\ CreateAt(c, "destroy_snapshot")
  /\ UNCHANGED <<untried, locked, label, network, unchecked>>

(* ale sandbox destroy, of a container its create has left behind. *)
DestroyRetained(c) ==
  /\ at[c] \in {"left", "dead"} /\ container[c] \in {"running", "stopped"}
  /\ Becomes(c, "removed") /\ network' = network \ {c}
  /\ UNCHANGED <<at, untried, locked, label, unchecked>>

-----------------------------------------------------------------------------
(* The process dies: the kernel releases its locks.  A docker run in flight *)
(* is finished by the daemon, now or later.                                 *)
Die(c) ==
  /\ at[c] \notin {"begin", "failed", "left", "dead"}
  /\ CreateAt(c, "dead") /\ Unlock(c)
  /\ untried' = [untried EXCEPT ![c] = {}]
  /\ \E how \in IF at[c] = "run" THEN {"none", "late", "running"} ELSE {container[c]} :
       Becomes(c, how)
  /\ UNCHANGED <<label, network, unchecked>>

StartLate(c) ==
  /\ container[c] = "late" /\ Becomes(c, "running")
  /\ unchecked' = unchecked \cup {c}
  /\ UNCHANGED <<at, untried, locked, label, network>>

DeviceNext ==
  \E c \in Creates :
    \/ EnsureNetwork(c) \/ BridgeHostIp(c) \/ ListContainers(c) \/ TryLock(c) \/ TooFew(c)
    \/ Selected(c) \/ Compare(c) \/ Run(c) \/ Connect(c) \/ RemoveContainer(c) \/ RemoveNetwork(c)
    \/ Release(c) \/ Finalize(c) \/ Snapshot(c) \/ DestroyRetained(c)
    \/ Die(c) \/ StartLate(c)

DeviceSpec == DeviceInit /\ [][DeviceNext]_deviceVars

-----------------------------------------------------------------------------
(* No device is given to two running containers, while sandboxes are created,
   fail, are retained, destroyed and abandoned by processes that know nothing
   of each other, except to a create that started on devices it had not
   compared with the containers: those taken instead of a container's, those of
   a docker ps that failed, and those of a container the daemon started after
   its creator's death. *)
DevicesAreExclusive ==
  \A c, d \in Creates :
    /\ c # d /\ container[c] = "running" /\ container[d] = "running"
    /\ {c, d} \cap unchecked = {}
    => label[c] \cap label[d] = {}

-----------------------------------------------------------------------------
(* Why: a device goes from its lock to the label of a running container    *)
(* while the lock is held.                                                  *)
Reserving  == {"compare", "run", "wire", "ready", "remove", "destroy", "snapshot",
              "destroy_snapshot", "remove_network", "release"}
Unreserved == {"begin", "address", "list", "acquire", "acquire_again", "failed", "left", "dead"}
Started    == {"wire", "ready", "remove", "destroy", "snapshot", "destroy_snapshot",
              "remove_network", "release", "left", "dead"}

(* No two creates hold the lock of one device. *)
LocksExclude == \A c, d \in Creates : c # d => locked[c] \cap locked[d] = {}

(* From the comparison to the release, what is on the label is what is locked. *)
LabelsAreLocked == \A c \in Creates : at[c] \in Reserving => label[c] = locked[c]

(* A container comes after its docker run. *)
StartedByRun == \A c \in Creates : container[c] \in {"running", "late"} => at[c] \in Started

(* Who has compared devices that are running, or is about to run on them. *)
Compared(c) == c \notin unchecked /\ (at[c] = "run" \/ container[c] = "running")

ComparedApart ==
  \A c, d \in Creates :
    c # d /\ Compared(c) /\ Compared(d) /\ container[d] = "running" => label[c] \cap label[d] = {}

DeviceTypeOK ==
  /\ at \in [Creates -> Reserving \cup Unreserved]
  /\ container \in [Creates -> {"none", "late", "running", "stopped", "removed"}]
  /\ locked = [c \in Creates |-> locked[c]] /\ label = [c \in Creates |-> label[c]]

DeviceInvariant ==
  DeviceTypeOK /\ LocksExclude /\ LabelsAreLocked /\ StartedByRun /\ ComparedApart
=============================================================================
