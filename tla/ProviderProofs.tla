-------------------------- MODULE ProviderProofs --------------------------
(***************************************************************************)
(* Theorems about what the providers keep: the devices of DeviceLease, the *)
(* machines of OrchardVM and QemuVM, the images of FramedImages. Each      *)
(* component has its inductive invariant (DeviceInvariant,                 *)
(* OrchardInvariant, QemuInvariant, FramingInvariant), and each part of    *)
(* one a lemma with one step per action.                                   *)
(***************************************************************************)
EXTENDS DeviceLease, OrchardVM, QemuVM, FramedImages, TLAPS

-----------------------------------------------------------------------------
(* GPU devices (DeviceLease)                                              *)

(* An operation changes the place of its own create only. *)
LEMMA TypeStep ==
  ASSUME DeviceTypeOK, [DeviceNext]_deviceVars PROVE DeviceTypeOK'
<1>0. CASE UNCHANGED deviceVars BY <1>0 DEF DeviceTypeOK, deviceVars
<1>1. ASSUME NEW c \in Creates, EnsureNetwork(c) \/ BridgeHostIp(c) \/ ListContainers(c)
      PROVE  DeviceTypeOK'
  BY <1>1 DEF EnsureNetwork, BridgeHostIp, ListContainers, CreateAt, DeviceTypeOK, Reserving, Unreserved
<1>2. ASSUME NEW c \in Creates, TryLock(c) PROVE DeviceTypeOK'
  BY <1>2 DEF TryLock, DeviceTypeOK
<1>3. ASSUME NEW c \in Creates, TooFew(c) PROVE DeviceTypeOK'
  BY <1>3 DEF TooFew, CreateAt, Unlock, DeviceTypeOK, Unreserved
<1>4. ASSUME NEW c \in Creates, Selected(c) PROVE DeviceTypeOK'
  BY <1>4 DEF Selected, CreateAt, DeviceTypeOK, Reserving
<1>5. ASSUME NEW c \in Creates, Compare(c) PROVE DeviceTypeOK'
  BY <1>5 DEF Compare, CreateAt, Unlock, DeviceTypeOK, Reserving, Unreserved
<1>6. ASSUME NEW c \in Creates, Run(c) PROVE DeviceTypeOK'
  BY <1>6 DEF Run, CreateAt, Becomes, DeviceTypeOK, Reserving
<1>7. ASSUME NEW c \in Creates, Connect(c) \/ Finalize(c) \/ RemoveNetwork(c) PROVE DeviceTypeOK'
  BY <1>7 DEF Connect, Finalize, RemoveNetwork, CreateAt, DeviceTypeOK, Reserving
<1>8. ASSUME NEW c \in Creates, RemoveContainer(c) \/ Snapshot(c) PROVE DeviceTypeOK'
  BY <1>8 DEF RemoveContainer, Snapshot, CreateAt, Becomes, DeviceTypeOK, Reserving
<1>9. ASSUME NEW c \in Creates, Release(c) PROVE DeviceTypeOK'
  BY <1>9 DEF Release, CreateAt, Unlock, DeviceTypeOK, Unreserved
<1>10. ASSUME NEW c \in Creates, DestroyRetained(c) \/ StartLate(c) PROVE DeviceTypeOK'
  BY <1>10 DEF DestroyRetained, StartLate, Becomes, DeviceTypeOK
<1>11. ASSUME NEW c \in Creates, Die(c) PROVE DeviceTypeOK'
  BY <1>11 DEF Die, CreateAt, Becomes, Unlock, DeviceTypeOK, Unreserved
<1>12. QED
  BY <1>0, <1>1, <1>2, <1>3, <1>4, <1>5, <1>6, <1>7, <1>8, <1>9, <1>10, <1>11 DEF DeviceNext

(* A device is locked only when nobody holds its lock. *)
LEMMA LocksStep ==
  ASSUME DeviceTypeOK, LocksExclude, [DeviceNext]_deviceVars PROVE LocksExclude'
<1>0. ASSUME UNCHANGED locked PROVE LocksExclude' BY <1>0 DEF LocksExclude
<1>1. ASSUME NEW c \in Creates, TryLock(c) PROVE LocksExclude'
  <2> DEFINE key == Min(untried[c])
  <2>1. \/ UNCHANGED locked
        \/ /\ \A d \in Creates : key \notin locked[d]
           /\ locked' = [locked EXCEPT ![c] = @ \cup {key}]
    BY <1>1 DEF TryLock, DeviceTypeOK
  <2> HIDE DEF key
  <2>2. CASE UNCHANGED locked BY <1>0, <2>2
  <2>3. CASE /\ \A d \in Creates : key \notin locked[d]
             /\ locked' = [locked EXCEPT ![c] = @ \cup {key}]
    BY <2>3 DEF LocksExclude, DeviceTypeOK
  <2>4. QED BY <2>1, <2>2, <2>3
<1>2. ASSUME NEW c \in Creates, Unlock(c) PROVE LocksExclude'
  BY <1>2 DEF Unlock, LocksExclude, DeviceTypeOK
<1>3. ASSUME DeviceNext PROVE UNCHANGED locked \/ \E c \in Creates : Unlock(c) \/ TryLock(c)
  BY <1>3 DEF DeviceNext, EnsureNetwork, BridgeHostIp, ListContainers, TooFew, Selected, Compare,
    Run, Connect, RemoveContainer, RemoveNetwork, Release, Finalize, Snapshot, DestroyRetained,
    Die, StartLate
<1>4. QED BY <1>0, <1>1, <1>2, <1>3 DEF DeviceNext, deviceVars

(* The label is what is locked when it is written, and neither changes until *)
(* the release.                                                              *)
LEMMA LabelsStep ==
  ASSUME DeviceTypeOK, LabelsAreLocked, [DeviceNext]_deviceVars PROVE LabelsAreLocked'
<1>0. CASE UNCHANGED deviceVars BY <1>0 DEF LabelsAreLocked, deviceVars
<1>1. ASSUME NEW c \in Creates, EnsureNetwork(c) \/ BridgeHostIp(c) \/ ListContainers(c)
      PROVE  LabelsAreLocked'
  BY <1>1 DEF EnsureNetwork, BridgeHostIp, ListContainers, CreateAt, DeviceTypeOK, LabelsAreLocked,
    Reserving
<1>2. ASSUME NEW c \in Creates, TryLock(c) PROVE LabelsAreLocked'
  <2>1. at' = at /\ label' = label /\ at[c] \notin Reserving BY <1>2 DEF TryLock, Reserving
  <2>2. \A d \in Creates \ {c} : locked'[d] = locked[d] BY <1>2 DEF TryLock, DeviceTypeOK
  <2>3. QED BY <2>1, <2>2 DEF LabelsAreLocked
<1>3. ASSUME NEW c \in Creates, TooFew(c) \/ Release(c) PROVE LabelsAreLocked'
  BY <1>3 DEF TooFew, Release, CreateAt, Unlock, DeviceTypeOK, LabelsAreLocked, Reserving
<1>4. ASSUME NEW c \in Creates, Selected(c) PROVE LabelsAreLocked'
  BY <1>4 DEF Selected, CreateAt, DeviceTypeOK, LabelsAreLocked, Reserving
<1>5. ASSUME NEW c \in Creates, Compare(c) PROVE LabelsAreLocked'
  BY <1>5 DEF Compare, CreateAt, Unlock, DeviceTypeOK, LabelsAreLocked, Reserving
<1>6. ASSUME NEW c \in Creates, Run(c) \/ Connect(c) \/ RemoveNetwork(c) PROVE LabelsAreLocked'
  BY <1>6 DEF Run, Connect, RemoveNetwork, CreateAt, DeviceTypeOK, LabelsAreLocked, Reserving
<1>7. ASSUME NEW c \in Creates, Finalize(c) \/ RemoveContainer(c) \/ Snapshot(c)
      PROVE  LabelsAreLocked'
  BY <1>7 DEF Finalize, RemoveContainer, Snapshot, CreateAt, DeviceTypeOK, LabelsAreLocked, Reserving
<1>8. ASSUME NEW c \in Creates, DestroyRetained(c) \/ StartLate(c) PROVE LabelsAreLocked'
  BY <1>8 DEF DestroyRetained, StartLate, LabelsAreLocked
<1>9. ASSUME NEW c \in Creates, Die(c) PROVE LabelsAreLocked'
  <2>1. at' = [at EXCEPT ![c] = "dead"] /\ locked' = [locked EXCEPT ![c] = {}] /\ label' = label
    BY <1>9 DEF Die, CreateAt, Unlock
  <2>2. QED BY <2>1 DEF DeviceTypeOK, LabelsAreLocked, Reserving
<1>10. QED
  BY <1>0, <1>1, <1>2, <1>3, <1>4, <1>5, <1>6, <1>7, <1>8, <1>9 DEF DeviceNext

(* Only docker run, or the daemon after it, starts a container. *)
LEMMA StartedStep ==
  ASSUME DeviceTypeOK, StartedByRun, [DeviceNext]_deviceVars PROVE StartedByRun'
<1>0. CASE UNCHANGED deviceVars BY <1>0 DEF StartedByRun, deviceVars
<1>1. ASSUME NEW c \in Creates, EnsureNetwork(c) \/ BridgeHostIp(c) \/ ListContainers(c)
      PROVE  StartedByRun'
  BY <1>1 DEF EnsureNetwork, BridgeHostIp, ListContainers, CreateAt, DeviceTypeOK, StartedByRun, Started
<1>2. ASSUME NEW c \in Creates, TryLock(c) \/ DestroyRetained(c) \/ StartLate(c) PROVE StartedByRun'
  BY <1>2 DEF TryLock, DestroyRetained, StartLate, Becomes, DeviceTypeOK, StartedByRun
<1>3. ASSUME NEW c \in Creates, TooFew(c) \/ Selected(c) PROVE StartedByRun'
  BY <1>3 DEF TooFew, Selected, CreateAt, DeviceTypeOK, StartedByRun, Started
<1>4. ASSUME NEW c \in Creates, Compare(c) PROVE StartedByRun'
  <2>1. \E p \in {"run", "acquire_again"} : at' = [at EXCEPT ![c] = p] BY <1>4 DEF Compare, CreateAt
  <2>2. at[c] = "compare" /\ container' = container BY <1>4 DEF Compare
  <2>3. QED BY <2>1, <2>2 DEF DeviceTypeOK, StartedByRun, Started
<1>5. ASSUME NEW c \in Creates, Run(c) \/ Connect(c) \/ RemoveNetwork(c) PROVE StartedByRun'
  BY <1>5 DEF Run, Connect, RemoveNetwork, CreateAt, Becomes, DeviceTypeOK, StartedByRun, Started
<1>6. ASSUME NEW c \in Creates, Finalize(c) \/ RemoveContainer(c) \/ Snapshot(c) \/ Release(c)
      PROVE  StartedByRun'
  BY <1>6 DEF Finalize, RemoveContainer, Snapshot, Release, CreateAt, Becomes, DeviceTypeOK,
    StartedByRun, Started
<1>7. ASSUME NEW c \in Creates, Die(c) PROVE StartedByRun'
  <2>1. \A d \in Creates \ {c} : at'[d] = at[d] /\ container'[d] = container[d]
    BY <1>7 DEF Die, CreateAt, Becomes, DeviceTypeOK
  <2>2. at'[c] = "dead" BY <1>7 DEF Die, CreateAt, DeviceTypeOK
  <2>3. QED BY <2>1, <2>2 DEF StartedByRun, Started
<1>8. QED
  BY <1>0, <1>1, <1>2, <1>3, <1>4, <1>5, <1>6, <1>7 DEF DeviceNext

(* What disturbs nothing: nobody is newly compared or newly running. *)
LEMMA ApartKept ==
  ASSUME ComparedApart,
         \A c \in Creates : Compared(c)' => Compared(c) /\ label'[c] = label[c],
         \A c \in Creates : Compared(c)' /\ container'[c] = "running" => container[c] = "running"
  PROVE  ComparedApart'
BY DEF ComparedApart

(* A create whose devices are those of no running container may run on them; *)
(* two that may are kept apart by their locks.                               *)
LEMMA ApartCompare ==
  ASSUME DeviceTypeOK, StartedByRun, ComparedApart, NEW c \in Creates, Compare(c)
  PROVE  ComparedApart'
<1>1. container' = container /\ container[c] # "running"
  BY DEF Compare, StartedByRun, Started
<1>2. /\ \A d \in Creates \ {c} : at'[d] = at[d] /\ label'[d] = label[d]
      /\ unchecked \subseteq unchecked'
  BY DEF Compare, CreateAt, DeviceTypeOK
<1>3. Compared(c)' => label'[c] = label[c] /\ label[c] \cap Managed = {}
  <2>1. SUFFICES ASSUME Compared(c)' PROVE label'[c] = label[c] /\ label[c] \cap Managed = {}
    OBVIOUS
  <2>2. at'[c] = "run" /\ c \notin unchecked' BY <1>1, <2>1 DEF Compared
  <2>3. PICK used \in {Managed, {}} :
          /\ IF Taken(c, used)
               THEN CreateAt(c, "acquire_again") ELSE CreateAt(c, "run") /\ UNCHANGED label
          /\ unchecked' = IF used = Managed THEN unchecked ELSE unchecked \cup {c}
    BY DEF Compare
  <2>4. used = Managed BY <2>2, <2>3
  <2>5. ~Taken(c, used) BY <2>2, <2>3 DEF CreateAt, DeviceTypeOK
  <2>6. QED BY <2>3, <2>4, <2>5 DEF Taken
<1>4. ASSUME NEW d \in Creates, d # c PROVE (Compared(d)' => Compared(d)) /\ label'[d] = label[d]
  <2>1. at'[d] = at[d] /\ label'[d] = label[d] BY <1>2, <1>4
  <2>2. QED BY <1>1, <1>2, <2>1 DEF Compared
<1>5. \A d \in Creates : container[d] = "running" => label[d] \subseteq Managed BY DEF Managed
<1>6. ASSUME NEW d \in Creates, NEW e \in Creates, d # e, Compared(d)', Compared(e)',
             container'[e] = "running"
      PROVE  label'[d] \cap label'[e] = {}
  <2>1. e # c /\ container[e] = "running" BY <1>1, <1>6
  <2>2. Compared(e) /\ label'[e] = label[e] BY <1>4, <1>6, <2>1
  <2>3. CASE d = c BY <1>3, <1>5, <1>6, <2>1, <2>2, <2>3
  <2>4. CASE d # c
    <3>1. Compared(d) /\ label'[d] = label[d] BY <1>4, <1>6, <2>4
    <3>2. QED BY <1>6, <2>1, <2>2, <3>1 DEF ComparedApart
  <2>5. QED BY <2>3, <2>4
<1>7. QED BY <1>6 DEF ComparedApart

(* docker run starts a container while the locks of its devices are held; so  *)
(* does a docker run whose caller has died.                                   *)
LEMMA ApartRun ==
  ASSUME DeviceTypeOK, LocksExclude, LabelsAreLocked, ComparedApart, NEW c \in Creates,
         at[c] = "run", UNCHANGED <<label, unchecked>>,
         \A d \in Creates \ {c} : at'[d] = at[d] /\ container'[d] = container[d]
  PROVE  ComparedApart'
<1>1. ASSUME NEW d \in Creates, Compared(d)' PROVE Compared(d)
  <2>1. CASE d = c BY <1>1, <2>1 DEF Compared
  <2>2. CASE d # c BY <1>1, <2>2 DEF Compared
  <2>3. QED BY <2>1, <2>2
<1>2. ASSUME NEW d \in Creates, NEW e \in Creates, d # e, Compared(d), Compared(e),
             at[e] = "run", at[d] = "run" \/ container[d] = "running"
      PROVE  label[d] \cap label[e] = {}
  <2>1. CASE container[d] = "running" BY <1>2, <2>1 DEF ComparedApart
  <2>2. CASE at[d] = "run"
    <3>1. label[d] = locked[d] /\ label[e] = locked[e]
      BY <1>2, <2>2 DEF LabelsAreLocked, Reserving
    <3>2. QED BY <1>2, <3>1 DEF LocksExclude
  <2>3. QED BY <1>2, <2>1, <2>2
<1>3. ASSUME NEW d \in Creates, NEW e \in Creates, d # e, Compared(d)', Compared(e)',
             container'[e] = "running"
      PROVE  label'[d] \cap label'[e] = {}
  <2>1. Compared(d) /\ Compared(e) BY <1>1, <1>3
  <2>2. CASE container[e] = "running" BY <1>3, <2>1, <2>2 DEF ComparedApart
  <2>3. CASE container[e] # "running"
    <3>1. e = c BY <1>3, <2>3
    <3>2. at[d] = "run" \/ container[d] = "running" BY <2>1 DEF Compared
    <3>3. QED BY <1>2, <1>3, <2>1, <3>1, <3>2
  <2>4. QED BY <2>2, <2>3
<1>4. QED BY <1>3 DEF ComparedApart

(* Every step keeps the containers whose devices were compared apart. *)
LEMMA ApartStep ==
  ASSUME DeviceTypeOK, LocksExclude, LabelsAreLocked, StartedByRun, ComparedApart,
         [DeviceNext]_deviceVars
  PROVE  ComparedApart'
<1>0. CASE UNCHANGED deviceVars BY <1>0, ApartKept DEF Compared, deviceVars
<1>1. ASSUME NEW c \in Creates, EnsureNetwork(c) \/ BridgeHostIp(c) \/ ListContainers(c)
      PROVE  ComparedApart'
  BY <1>1, ApartKept DEF EnsureNetwork, BridgeHostIp, ListContainers, CreateAt, DeviceTypeOK, Compared
<1>2. ASSUME NEW c \in Creates, TryLock(c) \/ TooFew(c) PROVE ComparedApart'
  BY <1>2, ApartKept DEF TryLock, TooFew, CreateAt, DeviceTypeOK, Compared
<1>3. ASSUME NEW c \in Creates, Selected(c) PROVE ComparedApart'
  <2>1. container' = container /\ container[c] # "running"
    BY <1>3 DEF Selected, StartedByRun, Started
  <2>2. \A d \in Creates \ {c} : at'[d] = at[d] /\ label'[d] = label[d]
    BY <1>3 DEF Selected, CreateAt, DeviceTypeOK
  <2>3. \A d \in Creates : d \notin unchecked' => d \notin unchecked
    BY <1>3 DEF Selected
  <2>4. ~Compared(c)'
    <3>1. CASE at[c] = "acquire"
      <4>1. at'[c] = "compare" BY <1>3, <3>1 DEF Selected, CreateAt, DeviceTypeOK
      <4>2. QED BY <2>1, <4>1 DEF Compared
    <3>2. CASE at[c] # "acquire"
      <4>1. c \in unchecked' BY <1>3, <3>2 DEF Selected
      <4>2. QED BY <4>1 DEF Compared
    <3>3. QED BY <3>1, <3>2
  <2>5. ASSUME NEW d \in Creates, Compared(d)' PROVE Compared(d) /\ label'[d] = label[d]
    <3>1. d # c BY <2>4, <2>5
    <3>2. QED BY <2>1, <2>2, <2>3, <2>5, <3>1 DEF Compared
  <2>6. QED BY <2>1, <2>5, ApartKept
<1>4. ASSUME NEW c \in Creates, Compare(c) PROVE ComparedApart' BY <1>4, ApartCompare
<1>5. ASSUME NEW c \in Creates, Run(c) PROVE ComparedApart'
  <2>1. at[c] = "run" /\ UNCHANGED <<label, unchecked>> BY <1>5 DEF Run
  <2>2. \A d \in Creates \ {c} : at'[d] = at[d] /\ container'[d] = container[d]
    BY <1>5 DEF Run, CreateAt, Becomes, DeviceTypeOK
  <2>3. QED BY <2>1, <2>2, ApartRun
<1>6. ASSUME NEW c \in Creates, Connect(c) \/ Finalize(c) \/ RemoveNetwork(c) \/ Release(c)
      PROVE  ComparedApart'
  BY <1>6, ApartKept DEF Connect, Finalize, RemoveNetwork, Release, CreateAt, DeviceTypeOK, Compared
<1>7. ASSUME NEW c \in Creates, RemoveContainer(c) \/ Snapshot(c) PROVE ComparedApart'
  BY <1>7, ApartKept DEF RemoveContainer, Snapshot, CreateAt, Becomes, DeviceTypeOK, Compared
<1>8. ASSUME NEW c \in Creates, DestroyRetained(c) PROVE ComparedApart'
  BY <1>8, ApartKept DEF DestroyRetained, Becomes, DeviceTypeOK, Compared
<1>9. ASSUME NEW c \in Creates, StartLate(c) PROVE ComparedApart'
  BY <1>9, ApartKept DEF StartLate, Becomes, DeviceTypeOK, Compared
<1>10. ASSUME NEW c \in Creates, Die(c) PROVE ComparedApart'
  <2>1. UNCHANGED <<label, unchecked>> BY <1>10 DEF Die
  <2>2. \A d \in Creates \ {c} : at'[d] = at[d] /\ container'[d] = container[d]
    BY <1>10 DEF Die, CreateAt, Becomes, DeviceTypeOK
  <2>3. CASE at[c] = "run" BY <2>1, <2>2, <2>3, ApartRun
  <2>4. CASE at[c] # "run"
    <3>1. at'[c] = "dead" /\ container'[c] = container[c]
      BY <1>10, <2>4 DEF Die, CreateAt, Becomes, DeviceTypeOK
    <3>2. QED BY <2>1, <2>2, <2>4, <3>1, ApartKept DEF Compared
  <2>5. QED BY <2>3, <2>4
<1>11. QED
  BY <1>0, <1>1, <1>2, <1>3, <1>4, <1>5, <1>6, <1>7, <1>8, <1>9, <1>10 DEF DeviceNext

(* The invariant holds of every behaviour of the creates. *)
THEOREM DeviceInvariantHolds == DeviceSpec => []DeviceInvariant
<1>1. DeviceInit => DeviceInvariant
  BY DEF DeviceInit, Everyone, DeviceInvariant, DeviceTypeOK, LocksExclude, LabelsAreLocked,
    StartedByRun, ComparedApart, Compared, Reserving, Unreserved
<1>2. DeviceInvariant /\ [DeviceNext]_deviceVars => DeviceInvariant'
  BY TypeStep, LocksStep, LabelsStep, StartedStep, ApartStep DEF DeviceInvariant
<1>3. QED BY <1>1, <1>2, PTL DEF DeviceSpec

(* No device is given to two running containers, except to a create that     *)
(* started on devices it had not compared with the containers (docker.py).   *)
THEOREM DevicesAreExclusiveHolds == DeviceSpec => []DevicesAreExclusive
<1>1. DeviceInvariant => DevicesAreExclusive
  BY DEF DeviceInvariant, ComparedApart, Compared, DevicesAreExclusive
<1>2. QED BY <1>1, DeviceInvariantHolds, PTL

-----------------------------------------------------------------------------
(* Orchard machines (OrchardVM)                                           *)

(* The records there are at first, and what each kind of update makes of one. *)
LEMMA RecordsAre ==
  /\ Fresh \in Records /\ NoRecord \in Records /\ Foreign \in Records
  /\ Fresh.uid = "ours" /\ Fresh.gen = 1 /\ Fresh.power = "running" /\ Fresh.observed = 0
  /\ NoRecord.uid = "none" /\ Foreign.uid = "another"
BY DEF Records, Fresh, Foreign, NoRecord

(* A stop that was put raises the generation by one, and is polled for at
   it. *)
LEMMA PutChanges ==
  ASSUME OrchardTypeOK, Put
  PROVE  \/ UNCHANGED record /\ doing' # "stop_poll"
         \/ /\ record' \in Records /\ record'.gen = record.gen + 1 /\ record'.power = "stopped"
            /\ record'.uid = record.uid /\ record'.observed = record.observed
            /\ record'.running = record.running /\ record'.failed = record.failed
            /\ doing' = "stop_poll" => read' = record'
<1>1. /\ record' = [record EXCEPT !.power = "stopped", !.gen = @ + 1] \/ record' = record
      /\ doing' = "stop_poll" =>
           read' = record' /\ record' = [record EXCEPT !.power = "stopped", !.gen = @ + 1]
  BY Zenon DEF Put, Unanswered, Raise, Proceed, Conclude
<1>2. record \in Records /\ record.gen + 1 \in Nat BY DEF OrchardTypeOK, Records
<1>3. ASSUME record' = [record EXCEPT !.power = "stopped", !.gen = @ + 1]
      PROVE  /\ record'.gen = record.gen + 1 /\ record'.power = "stopped"
             /\ record'.uid = record.uid /\ record'.observed = record.observed
             /\ record'.running = record.running /\ record'.failed = record.failed
  BY <1>2, <1>3 DEF Records
<1>4. ASSUME record' = [record EXCEPT !.power = "stopped", !.gen = @ + 1] PROVE record' \in Records
  BY <1>2, <1>4 DEF Records
<1>5. QED BY <1>1, <1>3, <1>4

(* The worker takes over what is asked of it, ... *)
LEMMA ReadsChange ==
  ASSUME OrchardTypeOK, WorkerReads
  PROVE  /\ worker' \in [gen: Nat, power: {"running", "stopped"}, on: BOOLEAN]
         /\ worker'.gen = record.gen /\ worker'.power = record.power /\ worker'.on = worker.on
<1>1. record.gen \in Nat /\ record.power \in {"running", "stopped"} BY DEF OrchardTypeOK, Records
<1>2. worker' = [worker EXCEPT !.gen = record.gen, !.power = record.power] BY DEF WorkerReads
<1>3. QED BY <1>1, <1>2 DEF OrchardTypeOK

(* ... does it, ... *)
LEMMA ActsChange ==
  ASSUME OrchardTypeOK, WorkerActs
  PROVE  /\ worker' \in [gen: Nat, power: {"running", "stopped"}, on: BOOLEAN]
         /\ worker'.gen = worker.gen /\ worker'.power = worker.power
         /\ worker'.on = (worker.power = "running")
<1>1. worker' = [worker EXCEPT !.on = (worker.power = "running")] BY DEF WorkerActs
<1>2. QED BY <1>1 DEF OrchardTypeOK

(* ... or has nothing left to do. *)
LEMMA ClearsChange ==
  ASSUME OrchardTypeOK, WorkerClears
  PROVE  /\ worker' \in [gen: Nat, power: {"running", "stopped"}, on: BOOLEAN]
         /\ worker'.gen = worker.gen /\ worker'.power = "stopped" /\ ~worker'.on
<1>1. worker' = [worker EXCEPT !.power = "stopped", !.on = FALSE] BY DEF WorkerClears
<1>2. QED BY <1>1 DEF OrchardTypeOK

(* What it reports is of the generation it acted on. *)
LEMMA ReportsChange ==
  ASSUME OrchardTypeOK, WorkerReports
  PROVE  /\ record' \in Records
         /\ record'.observed = worker.gen /\ record'.running = worker.on
         /\ record'.uid = record.uid /\ record'.power = record.power /\ record'.gen = record.gen
         /\ record'.failed = record.failed
<1>1. record \in Records /\ worker.gen \in Nat /\ worker.on \in BOOLEAN BY DEF OrchardTypeOK
<1>2. record' = [record EXCEPT !.observed = worker.gen, !.running = worker.on] BY DEF WorkerReports
<1>3. QED BY <1>1, <1>2 DEF Records

(* A worker that is lost takes the machine with it, and says so. *)
LEMMA LostChanges ==
  ASSUME OrchardTypeOK, WorkerLost
  PROVE  /\ record' \in Records /\ record'.failed /\ ~record'.running
         /\ record'.uid = record.uid /\ record'.power = record.power /\ record'.gen = record.gen
         /\ record'.observed = record.observed
<1>1. record \in Records BY DEF OrchardTypeOK
<1>2. record' = [record EXCEPT !.failed = TRUE, !.running = FALSE] BY DEF WorkerLost
<1>3. QED BY <1>1, <1>2 DEF Records

(* The sandbox proceeds from step to step, and the rest keeps its type. *)
LEMMA OrchardTypeStep ==
  ASSUME OrchardTypeOK, [OrchardNext]_orchardVars PROVE OrchardTypeOK'
<1>0. CASE UNCHANGED orchardVars BY <1>0 DEF OrchardTypeOK, orchardVars
<1>1. ASSUME Name \/ Reconcile PROVE OrchardTypeOK'
  BY <1>1 DEF Name, Reconcile, ReconcileAloud, Get, Proceed, Conclude, OrchardTypeOK
<1>2. ASSUME Create PROVE OrchardTypeOK'
  <2>1. record' \in {record, Fresh} BY <1>2 DEF Create
  <2>2. record' \in Records BY <2>1, RecordsAre DEF OrchardTypeOK
  <2>3. owned' \in [known: BOOLEAN, stopped: BOOLEAN, presumed: BOOLEAN]
    BY <1>2 DEF Create, Proceed, OrchardTypeOK
  <2>4. QED BY <1>2, <2>2, <2>3 DEF Create, Proceed, OrchardTypeOK
<1>3. ASSUME CreatedLate PROVE OrchardTypeOK'
  BY <1>3, RecordsAre DEF CreatedLate, OrchardTypeOK
<1>4. ASSUME AwaitRunning \/ PrepareGuest PROVE OrchardTypeOK'
  BY <1>4 DEF AwaitRunning, PrepareGuest, Get, Proceed, CleanUp, OrchardTypeOK
<1>5. ASSUME Destroy PROVE OrchardTypeOK'
  <2>1. destroys' \in 0 .. MaxDestroy BY <1>5, OrchardAssumption DEF Destroy, OrchardTypeOK
  <2>2. QED BY <1>5, <2>1 DEF Destroy, Get, CleanUp, OrchardTypeOK
<1>6. ASSUME StopGet PROVE OrchardTypeOK'
  BY <1>6 DEF StopGet, Get, Unanswered, Raise, Proceed, Conclude, OrchardTypeOK
<1>7. ASSUME Put PROVE OrchardTypeOK'
  <2>1. record' \in Records BY <1>7, PutChanges DEF OrchardTypeOK
  <2>2. read' \in {read, record'} BY <1>7 DEF Put, Unanswered
  <2>3. /\ doing' \in {"stop_poll", "ready", "done"} /\ outcome' \in {outcome, "incomplete"}
        /\ UNCHANGED <<purpose, owned, worker, destroys>>
    BY <1>7 DEF Put, Unanswered, Raise, Proceed, Conclude
  <2>4. QED BY <2>1, <2>2, <2>3 DEF OrchardTypeOK
<1>8. ASSUME StopPoll PROVE OrchardTypeOK'
  <2>1. owned' \in [known: BOOLEAN, stopped: BOOLEAN, presumed: BOOLEAN]
    <3>1. record.failed \in BOOLEAN BY DEF OrchardTypeOK, Records
    <3>2. owned' = owned \/ owned' = [owned EXCEPT !.stopped = TRUE, !.presumed = record.failed]
      BY <1>8 DEF StopPoll, Unanswered, Raise, Proceed, Conclude
    <3>3. QED BY <3>1, <3>2 DEF OrchardTypeOK
  <2>2. /\ doing' \in {"delete_get", "ready", "done"} /\ outcome' \in {outcome, "incomplete"}
        /\ UNCHANGED <<purpose, read, record, worker, destroys>>
    BY <1>8 DEF StopPoll, Get, Unanswered, Raise, Proceed, Conclude
  <2>3. QED BY <2>1, <2>2 DEF OrchardTypeOK
<1>9. ASSUME DeleteGet \/ DeletePoll PROVE OrchardTypeOK'
  BY <1>9 DEF DeleteGet, DeletePoll, Deleted, Get, Raise, Proceed, Conclude, OrchardTypeOK
<1>10. ASSUME Delete PROVE OrchardTypeOK'
  <2>1. record' \in Records BY <1>10, RecordsAre DEF Delete, OrchardTypeOK
  <2>2. QED BY <1>10, <2>1 DEF Delete, Raise, Proceed, Conclude, OrchardTypeOK
<1>11. ASSUME WorkerReads PROVE OrchardTypeOK'
  BY <1>11, ReadsChange DEF WorkerReads, Elsewhere, OrchardTypeOK
<1>12. ASSUME WorkerActs PROVE OrchardTypeOK'
  BY <1>12, ActsChange DEF WorkerActs, Elsewhere, OrchardTypeOK
<1>13. ASSUME WorkerClears PROVE OrchardTypeOK'
  BY <1>13, ClearsChange DEF WorkerClears, Elsewhere, OrchardTypeOK
<1>14. ASSUME WorkerReports PROVE OrchardTypeOK'
  <2>1. record' \in Records /\ UNCHANGED worker /\ Elsewhere BY <1>14, ReportsChange DEF WorkerReports
  <2>2. QED BY <2>1 DEF Elsewhere, OrchardTypeOK
<1>15. ASSUME WorkerLost PROVE OrchardTypeOK'
  <2>1. record' \in Records /\ UNCHANGED worker /\ Elsewhere BY <1>15, LostChanges DEF WorkerLost
  <2>2. QED BY <2>1 DEF Elsewhere, OrchardTypeOK
<1>16. ASSUME OperatorReplaces PROVE OrchardTypeOK'
  <2>1. record' \in Records /\ UNCHANGED worker /\ Elsewhere
    BY <1>16, RecordsAre DEF OperatorReplaces
  <2>2. QED BY <2>1 DEF Elsewhere, OrchardTypeOK
<1>17. QED
  BY <1>0, <1>1, <1>2, <1>3, <1>4, <1>5, <1>6, <1>7, <1>8, <1>9, <1>10, <1>11, <1>12, <1>13,
    <1>14, <1>15, <1>16 DEF OrchardNext

(* Nothing is known to be stopped before the answer that names the UID. *)
LEMMA CreatedOnceStep ==
  ASSUME OrchardTypeOK, CreatedOnce, [OrchardNext]_orchardVars PROVE CreatedOnce'
<1>0. CASE UNCHANGED orchardVars BY <1>0 DEF CreatedOnce, orchardVars, Ours
<1>1. ASSUME Name \/ Reconcile PROVE CreatedOnce'
  BY <1>1 DEF Name, Reconcile, ReconcileAloud, Get, Proceed, Conclude, CreatedOnce, Ours
<1>2. ASSUME Create PROVE CreatedOnce'
  BY <1>2, RecordsAre DEF Create, Proceed, CreatedOnce, Ours
<1>3. ASSUME CreatedLate PROVE CreatedOnce'
  BY <1>3, RecordsAre DEF CreatedLate, CreatedOnce, Ours
<1>4. ASSUME AwaitRunning \/ PrepareGuest \/ Destroy PROVE CreatedOnce'
  BY <1>4 DEF AwaitRunning, PrepareGuest, Destroy, Get, Proceed, CleanUp, CreatedOnce
<1>5. ASSUME StopGet \/ Put \/ StopPoll PROVE CreatedOnce'
  BY <1>5 DEF StopGet, Put, StopPoll, Get, Unanswered, Raise, Proceed, Conclude, CreatedOnce
<1>6. ASSUME DeleteGet \/ Delete \/ DeletePoll PROVE CreatedOnce'
  BY <1>6 DEF DeleteGet, Delete, DeletePoll, Deleted, Get, Raise, Proceed, Conclude, CreatedOnce
<1>7. ASSUME WorkerReads PROVE CreatedOnce'
  BY <1>7 DEF WorkerReads, Elsewhere, CreatedOnce, Ours
<1>8. ASSUME WorkerActs \/ WorkerClears PROVE CreatedOnce'
  <2>1. worker'.gen = worker.gen /\ UNCHANGED record /\ Elsewhere
    BY <1>8, ActsChange, ClearsChange DEF WorkerActs, WorkerClears
  <2>2. QED BY <2>1 DEF Elsewhere, CreatedOnce, Ours
<1>9. ASSUME WorkerReports \/ WorkerLost \/ OperatorReplaces PROVE CreatedOnce'
  <2>1. Ours /\ UNCHANGED worker /\ Elsewhere
    BY <1>9 DEF WorkerReports, WorkerLost, OperatorReplaces
  <2>2. QED BY <2>1 DEF Elsewhere, CreatedOnce
<1>10. QED BY <1>0, <1>1, <1>2, <1>3, <1>4, <1>5, <1>6, <1>7, <1>8, <1>9 DEF OrchardNext

(* Only our own updates raise the generation, and every one of them stops    *)
(* the VM.                                                                   *)
LEMMA GenerationsStep ==
  ASSUME OrchardTypeOK, CreatedOnce, GenerationsTell, [OrchardNext]_orchardVars
  PROVE  GenerationsTell'
<1> USE DEF GenerationsTell, Ours
<1>0. CASE UNCHANGED orchardVars BY <1>0 DEF orchardVars
<1>1. ASSUME Name \/ Reconcile PROVE GenerationsTell'
  BY <1>1 DEF Name, Reconcile, ReconcileAloud, Get, Proceed, Conclude
<1>2. ASSUME Create PROVE GenerationsTell'
  <2>1. record' = record \/ record' = Fresh BY <1>2 DEF Create
  <2>2. worker.gen = 0 /\ worker' = worker /\ doing' # "stop_poll"
    BY <1>2 DEF Create, Proceed, CreatedOnce
  <2>3. QED BY <2>1, <2>2, RecordsAre
<1>3. ASSUME CreatedLate PROVE GenerationsTell'
  BY <1>3, RecordsAre DEF CreatedLate
<1>4. ASSUME AwaitRunning \/ PrepareGuest \/ Destroy PROVE GenerationsTell'
  BY <1>4 DEF AwaitRunning, PrepareGuest, Destroy, Get, Proceed, CleanUp
<1>5. ASSUME StopGet PROVE GenerationsTell'
  BY <1>5 DEF StopGet, Get, Unanswered, Raise, Proceed, Conclude, OrchardTypeOK, Records
<1>6. ASSUME Put PROVE GenerationsTell'
  <2>1. worker' = worker /\ (doing' = "stop_poll" => Ours) /\ doing = "put"
    BY <1>6 DEF Put, Unanswered, Raise, Proceed, Conclude
  <2>2. record.gen \in Nat /\ record.observed \in Nat /\ worker.gen \in Nat
    BY DEF OrchardTypeOK, Records
  <2>3. CASE UNCHANGED record /\ doing' # "stop_poll" BY <2>1, <2>3
  <2>4. CASE /\ record'.gen = record.gen + 1 /\ record'.power = "stopped"
             /\ record'.uid = record.uid /\ record'.observed = record.observed
             /\ doing' = "stop_poll" => read' = record'
    BY <2>1, <2>2, <2>4
  <2>5. QED BY <1>6, <2>3, <2>4, PutChanges
<1>7. ASSUME StopPoll \/ DeleteGet \/ DeletePoll PROVE GenerationsTell'
  BY <1>7 DEF StopPoll, DeleteGet, DeletePoll, Deleted, Get, Unanswered, Raise, Proceed, Conclude
<1>8. ASSUME Delete PROVE GenerationsTell'
  BY <1>8, RecordsAre DEF Delete, Raise, Proceed, Conclude
<1>9. ASSUME WorkerReads PROVE GenerationsTell'
  BY <1>9, ReadsChange DEF WorkerReads, Elsewhere, OrchardTypeOK, Records
<1>10. ASSUME WorkerActs \/ WorkerClears PROVE GenerationsTell'
  BY <1>10, ActsChange, ClearsChange DEF WorkerActs, WorkerClears, Elsewhere
<1>11. ASSUME WorkerReports PROVE GenerationsTell'
  BY <1>11, ReportsChange DEF WorkerReports, Elsewhere, OrchardTypeOK
<1>12. ASSUME WorkerLost PROVE GenerationsTell'
  BY <1>12, LostChanges DEF WorkerLost, Elsewhere
<1>13. ASSUME OperatorReplaces PROVE GenerationsTell'
  BY <1>13, RecordsAre DEF OperatorReplaces, Elsewhere
<1>14. QED
  BY <1>0, <1>1, <1>2, <1>3, <1>4, <1>5, <1>6, <1>7, <1>8, <1>9, <1>10, <1>11, <1>12, <1>13
  DEF OrchardNext

(* A worker that has seen the stop, and reports the VM not running, will not  *)
(* start it any more.                                                        *)
LEMMA EvidenceStep ==
  ASSUME OrchardTypeOK, CreatedOnce, GenerationsTell, ReportsAreEvidence, [OrchardNext]_orchardVars
  PROVE  ReportsAreEvidence'
<1> USE DEF ReportsAreEvidence, Ours
<1>0. CASE UNCHANGED orchardVars BY <1>0 DEF orchardVars
<1>1. ASSUME Name \/ Reconcile \/ AwaitRunning \/ PrepareGuest \/ Destroy \/ StopGet \/ StopPoll
             \/ DeleteGet \/ DeletePoll
      PROVE  ReportsAreEvidence'
  BY <1>1 DEF Name, Reconcile, AwaitRunning, PrepareGuest, Destroy, StopGet, StopPoll, DeleteGet,
    DeletePoll, Get
<1>2. ASSUME Create \/ CreatedLate PROVE ReportsAreEvidence'
  <2>1. (record' = record \/ record' = Fresh) /\ worker' = worker BY <1>2 DEF Create, CreatedLate
  <2>2. QED BY <2>1, RecordsAre
<1>3. ASSUME Put PROVE ReportsAreEvidence' BY <1>3, PutChanges DEF Put
<1>4. ASSUME Delete PROVE ReportsAreEvidence' BY <1>4, RecordsAre DEF Delete
<1>5. ASSUME WorkerReads PROVE ReportsAreEvidence'
  BY <1>5, ReadsChange DEF WorkerReads, GenerationsTell, OrchardTypeOK, Records
<1>6. ASSUME WorkerActs PROVE ReportsAreEvidence' BY <1>6, ActsChange DEF WorkerActs
<1>7. ASSUME WorkerClears PROVE ReportsAreEvidence' BY <1>7, ClearsChange DEF WorkerClears
<1>8. ASSUME WorkerReports PROVE ReportsAreEvidence'
  BY <1>8, ReportsChange DEF WorkerReports, GenerationsTell, OrchardTypeOK
<1>9. ASSUME WorkerLost PROVE ReportsAreEvidence' BY <1>9, LostChanges DEF WorkerLost
<1>10. ASSUME OperatorReplaces PROVE ReportsAreEvidence'
  BY <1>10, RecordsAre DEF OperatorReplaces
<1>11. QED
  BY <1>0, <1>1, <1>2, <1>3, <1>4, <1>5, <1>6, <1>7, <1>8, <1>9, <1>10 DEF OrchardNext

(* What was seen stopped is not started again, and nothing is deleted that    *)
(* was not seen stopped.                                                     *)
LEMMA StoppedStep ==
  ASSUME OrchardTypeOK, CreatedOnce, GenerationsTell, ReportsAreEvidence, StoppedForGood,
         [OrchardNext]_orchardVars
  PROVE  StoppedForGood'
<1> USE DEF StoppedForGood, Ours
<1>0. CASE UNCHANGED orchardVars BY <1>0 DEF orchardVars
<1>1. ASSUME Name \/ Reconcile PROVE StoppedForGood'
  BY <1>1 DEF Name, Reconcile, ReconcileAloud, Get, Proceed, Conclude, CreatedOnce
<1>2. ASSUME Create PROVE StoppedForGood'
  <2>1. ~owned'.stopped
    <3>1. ~owned.stopped BY <1>2 DEF Create, CreatedOnce
    <3>2. owned' = owned \/ owned' = [owned EXCEPT !.known = TRUE] BY <1>2 DEF Create, Proceed
    <3>3. QED BY <3>1, <3>2 DEF OrchardTypeOK
  <2>2. doing' \in {"await", "reconcile"} /\ outcome' = outcome /\ doing = "create"
    BY <1>2 DEF Create, Proceed
  <2>3. QED BY <2>1, <2>2 DEF CreatedOnce
<1>3. ASSUME CreatedLate PROVE StoppedForGood'
  BY <1>3 DEF CreatedLate, CreatedOnce
<1>4. ASSUME AwaitRunning \/ PrepareGuest \/ Destroy PROVE StoppedForGood'
  BY <1>4 DEF AwaitRunning, PrepareGuest, Destroy, Get, Proceed, CleanUp
<1>5. ASSUME StopGet PROVE StoppedForGood'
  BY <1>5 DEF StopGet, Get, Unanswered, Raise, Proceed, Conclude
<1>6. ASSUME Put PROVE StoppedForGood'
  <2>1. /\ UNCHANGED <<owned, worker>> /\ doing' \in {"stop_poll", "ready", "done"}
        /\ outcome' \in {outcome, "incomplete"}
    BY <1>6 DEF Put, Unanswered, Raise, Proceed, Conclude
  <2>2. QED BY <1>6, <2>1, PutChanges
<1>7. ASSUME StopPoll PROVE StoppedForGood'
  <2>1. UNCHANGED <<record, worker>> BY <1>7 DEF StopPoll, Get
  <2>2. CASE Unanswered BY <1>7, <2>1, <2>2 DEF StopPoll, Unanswered, Raise, Proceed, Conclude
  <2>3. CASE ~Unanswered
    <3>1. /\ Ours /\ StopConfirmed /\ read.gen >= 2 /\ outcome' = outcome
          /\ owned' = [owned EXCEPT !.stopped = TRUE, !.presumed = record.failed]
      BY <1>7, <2>3 DEF StopPoll, Get, GenerationsTell
    <3>2. owned'.stopped /\ owned'.presumed = record.failed BY <3>1 DEF OrchardTypeOK
    <3>3. record.observed >= 2 /\ ~record.running /\ record.gen >= 2
      BY <3>1 DEF StopConfirmed, GenerationsTell, OrchardTypeOK, Records
    <3>4. ~record.failed => worker.power = "stopped" /\ ~worker.on
      BY <3>1, <3>3 DEF ReportsAreEvidence
    <3>5. record.power = "stopped" BY <3>1, <3>3 DEF GenerationsTell, OrchardTypeOK, Records
    <3>6. QED BY <2>1, <3>1, <3>2, <3>4, <3>5
  <2>4. QED BY <2>2, <2>3
<1>8. ASSUME DeleteGet \/ DeletePoll PROVE StoppedForGood'
  BY <1>8 DEF DeleteGet, DeletePoll, Deleted, Get, Raise, Proceed, Conclude
<1>9. ASSUME Delete PROVE StoppedForGood'
  <2>1. record' = record \/ record' = NoRecord BY <1>9 DEF Delete
  <2>2. /\ UNCHANGED <<owned, worker>> /\ outcome' \in {outcome, "incomplete"} /\ owned.stopped
    BY <1>9 DEF Delete, Raise, Proceed, Conclude
  <2>3. QED BY <2>1, <2>2, RecordsAre
<1>10. ASSUME WorkerReads PROVE StoppedForGood'
  BY <1>10, ReadsChange DEF WorkerReads, Elsewhere
<1>11. ASSUME WorkerActs \/ WorkerClears PROVE StoppedForGood'
  BY <1>11, ActsChange, ClearsChange DEF WorkerActs, WorkerClears, Elsewhere
<1>12. ASSUME WorkerReports PROVE StoppedForGood'
  BY <1>12, ReportsChange DEF WorkerReports, Elsewhere
<1>13. ASSUME WorkerLost PROVE StoppedForGood'
  BY <1>13, LostChanges DEF WorkerLost, Elsewhere
<1>14. ASSUME OperatorReplaces PROVE StoppedForGood'
  <2>1. ~(Ours') /\ worker' = worker /\ Elsewhere BY <1>14, RecordsAre DEF OperatorReplaces
  <2>2. QED BY <2>1 DEF Elsewhere
<1>15. QED
  BY <1>0, <1>1, <1>2, <1>3, <1>4, <1>5, <1>6, <1>7, <1>8, <1>9, <1>10, <1>11, <1>12, <1>13, <1>14
  DEF OrchardNext

(* The invariant holds of every behaviour of the VM, its controller and its   *)
(* worker.                                                                   *)
THEOREM OrchardInvariantHolds == OrchardSpec => []OrchardInvariant
<1>1. OrchardInit => OrchardInvariant
  <2>1. ASSUME OrchardInit PROVE OrchardTypeOK
    BY <2>1, OrchardAssumption, RecordsAre DEF OrchardInit, OrchardTypeOK
  <2>2. ASSUME OrchardInit
        PROVE  CreatedOnce /\ GenerationsTell /\ ReportsAreEvidence /\ StoppedForGood
    BY <2>2, RecordsAre DEF OrchardInit, CreatedOnce, GenerationsTell, ReportsAreEvidence,
      StoppedForGood, Ours
  <2>3. QED BY <2>1, <2>2 DEF OrchardInvariant
<1>2. OrchardInvariant /\ [OrchardNext]_orchardVars => OrchardInvariant'
  BY OrchardTypeStep, CreatedOnceStep, GenerationsStep, EvidenceStep, StoppedStep
  DEF OrchardInvariant
<1>3. QED BY <1>1, <1>2, PTL DEF OrchardSpec

(* A sandbox reported destroyed, and a create that failed without a warning,  *)
(* leave no VM and no record, however many destroys were tried and whatever  *)
(* answers were lost (orchard.py, orchard_client.py).                        *)
THEOREM QuietEndsLeaveNothingHolds == OrchardSpec => []QuietEndsLeaveNothing
<1>1. OrchardInvariant => QuietEndsLeaveNothing
  BY DEF OrchardInvariant, StoppedForGood, QuietEndsLeaveNothing
<1>2. QED BY <1>1, OrchardInvariantHolds, PTL

-----------------------------------------------------------------------------
(* QEMU machines and their snapshots (QemuVM)                             *)

(* Each await of a create, and each command, keeps the types. *)
LEMMA QemuTypeStep ==
  ASSUME QemuTypeOK, [QemuNext]_qemuVars PROVE QemuTypeOK'
<1> USE DEF QemuTypeOK, Booting, Exporting, Phase
<1>0. CASE UNCHANGED qemuVars BY <1>0 DEF qemuVars
<1>s. NoSnapshot \in Snapshots BY DEF NoSnapshot, Snapshots
<1>z. 0 \notin Vms BY QemuAssumption
<1>1. ASSUME NEW v \in Vms, ResolveDisk(v) PROVE QemuTypeOK' BY <1>1 DEF ResolveDisk
<1>2. ASSUME NEW v \in Vms, MakeStorage(v) \/ OverlayFails(v) \/ FreePort(v) PROVE QemuTypeOK'
  <2>1. CASE MakeStorage(v) BY <2>1 DEF MakeStorage
  <2>2. CASE OverlayFails(v) BY <2>2 DEF OverlayFails
  <2>3. CASE FreePort(v) BY <2>3 DEF FreePort
  <2>4. QED BY <1>2, <2>1, <2>2, <2>3
<1>3. ASSUME NEW v \in Vms, DockerRun(v) \/ DockerRunFails(v) PROVE QemuTypeOK'
  <2>1. CASE DockerRun(v) BY <2>1 DEF DockerRun
  <2>2. CASE DockerRunFails(v)
    <3>1. runner' \in [Vms -> {"none", "created", "running", "exited"}]
      BY <2>2 DEF DockerRunFails
    <3>2. phase' \in [Vms -> {"idle", "connect", "contract", "ready", "remove", "kept", "left"}
                             \cup Booting \cup Exporting]
      BY <2>2 DEF DockerRunFails
    <3>3. QED BY <2>2, <3>1, <3>2 DEF DockerRunFails
  <2>3. QED BY <1>3, <2>1, <2>2
<1>4. ASSUME NEW v \in Vms, ConnectVm(v) PROVE QemuTypeOK' BY <1>4 DEF ConnectVm, ClaimedBy
<1>5. ASSUME NEW v \in Vms, Ready(v) \/ StepFails(v) \/ StartSnapshot(v) PROVE QemuTypeOK'
  BY <1>5 DEF Ready, StepFails, StartSnapshot
<1>6. ASSUME NEW v \in Vms, PowerOff(v) PROVE QemuTypeOK'
  <2>1. saved' \in [Vms -> Snapshots] BY <1>6 DEF PowerOff, Snapshots
  <2>2. QED BY <1>6, <2>1 DEF PowerOff
<1>7. ASSUME NEW v \in Vms, Export(v) PROVE QemuTypeOK'
  <2>1. saved' \in [Vms -> Snapshots] BY <1>7 DEF Export, Snapshots
  <2>2. QED BY <1>7, <2>1 DEF Export
<1>8. ASSUME NEW v \in Vms, RecordSnapshot(v) PROVE QemuTypeOK'
  <2>1. saved' \in [Vms -> Snapshots] BY <1>8 DEF RecordSnapshot, Snapshots
  <2>2. QED BY <1>8, <2>1 DEF RecordSnapshot
<1>9. ASSUME NEW v \in Vms, SnapshotFails(v) PROVE QemuTypeOK' BY <1>s, <1>9 DEF SnapshotFails
<1>10. ASSUME NEW v \in Vms, RetainVm(v) \/ DestroyVm(v) \/ RemoveVm(v) PROVE QemuTypeOK'
  <2>1. CASE RetainVm(v) BY <2>1 DEF RetainVm
  <2>2. CASE DestroyVm(v) BY <2>2 DEF DestroyVm
  <2>3. CASE RemoveVm(v) BY <2>3 DEF RemoveVm
  <2>4. QED BY <1>10, <2>1, <2>2, <2>3
<1>11. ASSUME NEW v \in Vms, RunnerExits(v) \/ GuestRestarts(v) \/ Kill(v) PROVE QemuTypeOK'
  BY <1>11 DEF RunnerExits, GuestRestarts, LoadClaim, Kill
<1>12. ASSUME NEW v \in Vms, LookBeforeDestroy(v) PROVE QemuTypeOK'
  <2>1. order' = [op |-> "destroy_snapshot", vm |-> v, port |-> 0, guest |-> 0]
    BY <1>12 DEF LookBeforeDestroy, NoOrder
  <2>2. overtook' \in [Vms -> BOOLEAN] BY <1>12 DEF LookBeforeDestroy, Unseen
  <2>3. QED BY <1>12, <2>1, <2>2 DEF LookBeforeDestroy
<1>13. ASSUME NEW v \in Vms, DestroyKept(v) PROVE QemuTypeOK' BY <1>13 DEF DestroyKept
<1>14. ASSUME NEW v \in Vms, AttachKept(v) PROVE QemuTypeOK' BY <1>14 DEF AttachKept
<1>15. CASE RemoveSnapshot BY <1>15, <1>s DEF RemoveSnapshot, NoOrder
<1>16. CASE AttachConnects
  <2>1. PICK g \in Vms : ClaimedBy(g, order.vm) /\ order' = [order EXCEPT !.guest = g]
    BY <1>16 DEF AttachConnects
  <2>2. claimed' \in [Vms -> Vms \cup {0}] BY <2>1 DEF ClaimedBy
  <2>3. QED BY <1>16, <2>1, <2>2 DEF AttachConnects
<1>17. CASE Detach BY <1>17 DEF Detach, NoOrder
<1>18. QED
  BY <1>0, <1>1, <1>2, <1>3, <1>4, <1>5, <1>6, <1>7, <1>8, <1>9, <1>10, <1>11, <1>12, <1>13,
    <1>14, <1>15, <1>16, <1>17 DEF QemuNext

(* A claim is for good: no step takes a guest from the token it belongs to.  *)
LEMMA ClaimsKept ==
  ASSUME QemuTypeOK, [QemuNext]_qemuVars, NEW g \in Vms, claimed[g] # 0
  PROVE  claimed'[g] = claimed[g]
<1> USE DEF QemuTypeOK
<1>1. ASSUME NEW v \in Vms, ConnectVm(v) PROVE claimed'[g] = claimed[g]
  BY <1>1 DEF ConnectVm, ClaimedBy
<1>2. CASE AttachConnects BY <1>2 DEF AttachConnects, ClaimedBy
<1>3. ASSUME claimed' = claimed PROVE claimed'[g] = claimed[g] BY <1>3
<1>4. claimed' = claimed \/ AttachConnects \/ \E v \in Vms : ConnectVm(v)
  BY DEF QemuNext, qemuVars, ResolveDisk, MakeStorage, OverlayFails, FreePort, DockerRun,
    DockerRunFails, Ready, StepFails, StartSnapshot, PowerOff, Export, RecordSnapshot,
    SnapshotFails, RetainVm, DestroyVm, RemoveVm, RunnerExits, GuestRestarts, LoadClaim, Kill,
    LookBeforeDestroy, DestroyKept, AttachKept, RemoveSnapshot, Detach
<1>5. QED BY <1>1, <1>2, <1>3, <1>4

(* A client is closed, stays, or is connected to the guest it has claimed.   *)
LEMMA ConnectedStep ==
  ASSUME QemuInvariant, [QemuNext]_qemuVars PROVE ConnectedClaims'
<1> USE DEF QemuInvariant, QemuTypeOK
<1>0. ConnectedClaims BY Zenon
<1>k. \A g \in Vms : claimed[g] # 0 => claimed'[g] = claimed[g] BY ClaimsKept
<1>z. 0 \notin Vms BY QemuAssumption
<1>1. ASSUME NEW v \in Vms, client'[v] # 0 PROVE claimed'[client'[v]] = v
  <2>1. ASSUME NEW u \in Vms, ConnectVm(u) PROVE claimed'[client'[v]] = v
    <3>1. PICK g \in Vms : /\ Admits(g, u) /\ ClaimedBy(g, u)
                           /\ client' = [client EXCEPT ![u] = g]
      BY <2>1 DEF ConnectVm, Reaches
    <3>2. claimed'[g] = u BY <3>1 DEF Admits, ClaimedBy
    <3>3. QED BY <3>1, <3>2, <1>0, <1>1, <1>k, <1>z DEF ConnectedClaims
  <2>2. ASSUME client'[v] = client[v] PROVE claimed'[client'[v]] = v
    BY <2>2, <1>0, <1>1, <1>k, <1>z DEF ConnectedClaims
  <2>3. client'[v] \in {0, client[v]} \/ \E u \in Vms : ConnectVm(u)
    <3>1. client' = client \/ (\E u \in Vms : client' = [client EXCEPT ![u] = 0])
            \/ \E u \in Vms : ConnectVm(u)
      BY Zenon DEF QemuNext, qemuVars, ResolveDisk, MakeStorage, OverlayFails, FreePort, DockerRun,
        DockerRunFails, Ready, StepFails, StartSnapshot, PowerOff, Export, RecordSnapshot,
        SnapshotFails, RetainVm, DestroyVm, RemoveVm, RunnerExits, GuestRestarts, Kill,
        LookBeforeDestroy, DestroyKept, AttachKept, RemoveSnapshot, AttachConnects, Detach
    <3>2. QED BY <3>1
  <2>4. QED BY <1>1, <2>1, <2>2, <2>3
<1>2. ASSUME order'.op = "attach"
      PROVE order'.vm # 0 /\ (order'.guest # 0 => claimed'[order'.guest] = order'.vm)
  <2>1. ASSUME NEW u \in Vms, AttachKept(u)
        PROVE order'.vm # 0 /\ (order'.guest # 0 => claimed'[order'.guest] = order'.vm)
    BY <2>1, <1>z DEF AttachKept
  <2>2. CASE AttachConnects
    <3>1. PICK g \in Vms : /\ Admits(g, order.vm) /\ ClaimedBy(g, order.vm)
                           /\ order' = [order EXCEPT !.guest = g]
      BY <2>2 DEF AttachConnects, Reaches
    <3>2. order.op = "attach" BY <2>2 DEF AttachConnects
    <3>3. claimed'[g] = order.vm BY <3>1 DEF Admits, ClaimedBy
    <3>4. order'.guest = g /\ order'.vm = order.vm BY <3>1
    <3>5. QED BY <3>2, <3>3, <3>4, <1>0 DEF ConnectedClaims
  <2>3. ASSUME order' = order
        PROVE order'.vm # 0 /\ (order'.guest # 0 => claimed'[order'.guest] = order'.vm)
    BY <2>3, <1>0, <1>2, <1>k, <1>z DEF ConnectedClaims
  <2>4. order' = order \/ order' = NoOrder \/ AttachConnects
          \/ \E u \in Vms : AttachKept(u) \/ LookBeforeDestroy(u)
    BY Zenon DEF QemuNext, qemuVars, ResolveDisk, MakeStorage, OverlayFails, FreePort, DockerRun,
      DockerRunFails, ConnectVm, Ready, StepFails, StartSnapshot, PowerOff, Export,
      RecordSnapshot, SnapshotFails, RetainVm, DestroyVm, RemoveVm, RunnerExits, GuestRestarts,
      Kill, DestroyKept, RemoveSnapshot, Detach
  <2>5. order' # NoOrder BY <1>2 DEF NoOrder
  <2>6. ASSUME NEW u \in Vms, LookBeforeDestroy(u) PROVE FALSE
    BY <2>6, <1>2 DEF LookBeforeDestroy, NoOrder
  <2>7. QED BY <2>1, <2>2, <2>3, <2>4, <2>5, <2>6
<1>3. QED BY <1>1, <1>2 DEF ConnectedClaims

(* What the steps of a snapshot, and of its removal, make of it: every other *)
(* step leaves what was saved as it is.                                      *)
LEMMA SavedChanges ==
  ASSUME QemuTypeOK, [QemuNext]_qemuVars, NEW v \in Vms
  PROVE  \/ saved'[v] = saved[v] /\ ~Export(v)
         \/ PowerOff(v) /\ saved'[v].disk = "torn" /\ saved'[v].record = saved[v].record
         \/ Export(v) /\ saved'[v].disk = "whole" /\ saved'[v].record = saved[v].record
         \/ RecordSnapshot(v) /\ saved'[v].record /\ saved'[v].disk = saved[v].disk
         \/ /\ SnapshotFails(v) \/ (RemoveSnapshot /\ order.vm = v)
            /\ saved'[v].disk = "none" /\ ~saved'[v].record
<1> USE DEF QemuTypeOK, Snapshots, NoSnapshot
<1>1. ASSUME NEW u \in Vms, PowerOff(u)
      PROVE IF u = v THEN saved'[v].disk = "torn" /\ saved'[v].record = saved[v].record
                     ELSE saved'[v] = saved[v]
  BY <1>1 DEF PowerOff
<1>2. ASSUME NEW u \in Vms, Export(u)
      PROVE IF u = v THEN saved'[v].disk = "whole" /\ saved'[v].record = saved[v].record
                     ELSE saved'[v] = saved[v]
  BY <1>2 DEF Export
<1>3. ASSUME NEW u \in Vms, RecordSnapshot(u)
      PROVE IF u = v THEN saved'[v].record /\ saved'[v].disk = saved[v].disk
                     ELSE saved'[v] = saved[v]
  BY <1>3 DEF RecordSnapshot
<1>4. ASSUME NEW u \in Vms, SnapshotFails(u)
      PROVE IF u = v THEN saved'[v].disk = "none" /\ ~saved'[v].record ELSE saved'[v] = saved[v]
  BY <1>4 DEF SnapshotFails
<1>5. ASSUME RemoveSnapshot
      PROVE IF order.vm = v THEN saved'[v].disk = "none" /\ ~saved'[v].record
                            ELSE saved'[v] = saved[v]
  BY <1>5 DEF RemoveSnapshot
<1>6. \/ saved' = saved
      \/ RemoveSnapshot
      \/ \E u \in Vms : PowerOff(u) \/ Export(u) \/ RecordSnapshot(u) \/ SnapshotFails(u)
  BY Zenon DEF QemuNext, qemuVars, ResolveDisk, MakeStorage, OverlayFails, FreePort, DockerRun,
    DockerRunFails, ConnectVm, Ready, StepFails, StartSnapshot, RetainVm, DestroyVm, RemoveVm,
    RunnerExits, GuestRestarts, Kill, LookBeforeDestroy, DestroyKept, AttachKept,
    AttachConnects, Detach
<1>7. QED BY <1>1, <1>2, <1>3, <1>4, <1>5, <1>6

(* The phases pass one way: what was done is done.                           *)
LEMMA PhaseChanges ==
  ASSUME QemuTypeOK, [QemuNext]_qemuVars, NEW v \in Vms
  PROVE  /\ phase[v] \in {"remove", "left"} => phase'[v] \in {"remove", "left"}
         /\ phase'[v] = "record" => phase[v] = "record" \/ Export(v)
         /\ phase'[v] = "idle" => phase[v] = "idle"
         /\ phase'[v] \in Booting => phase[v] \in Booting \/ ResolveDisk(v)
         /\ PowerOff(v) => phase[v] = "power_off"
         /\ Export(v) => phase[v] = "export"
         /\ RecordSnapshot(v) => phase[v] = "record" /\ phase'[v] = "remove"
         /\ SnapshotFails(v) => phase[v] \in Exporting /\ phase'[v] = "remove"
<1> USE DEF QemuTypeOK, Phase, Booting, Exporting
<1>1. ASSUME NEW u \in Vms, PowerOff(u) \/ Export(u) \/ RecordSnapshot(u) \/ SnapshotFails(u)
      PROVE  \/ u # v /\ phase'[v] = phase[v]
             \/ u = v /\ phase[v] = "power_off" /\ phase'[v] = "export"
             \/ u = v /\ phase[v] = "export" /\ phase'[v] = "record" /\ Export(v)
             \/ u = v /\ phase[v] \in Exporting /\ phase'[v] = "remove"
  BY <1>1 DEF PowerOff, Export, RecordSnapshot, SnapshotFails
<1>2. ASSUME NEW u \in Vms, ResolveDisk(u) \/ MakeStorage(u) \/ FreePort(u) \/ DockerRun(u)
        \/ OverlayFails(u) \/ DockerRunFails(u)
      PROVE  \/ u # v /\ phase'[v] = phase[v]
             \/ u = v /\ phase[v] = "idle" /\ phase'[v] = "resolved" /\ ResolveDisk(v)
             \/ u = v /\ phase[v] \in Booting /\ phase'[v] \in Booting \cup {"connect", "left"}
  BY <1>2 DEF ResolveDisk, MakeStorage, FreePort, DockerRun, OverlayFails, DockerRunFails
<1>3. ASSUME NEW u \in Vms, ConnectVm(u) \/ Ready(u) \/ StepFails(u) \/ StartSnapshot(u)
        \/ RetainVm(u) \/ DestroyVm(u) \/ RemoveVm(u) \/ Kill(u)
      PROVE  \/ phase'[v] = phase[v]
             \/ phase[v] \in {"connect", "contract", "ready"}
                  /\ phase'[v] \in {"contract", "ready", "power_off", "kept", "remove"}
             \/ phase'[v] = "left"
  BY <1>3 DEF ConnectVm, Ready, StepFails, StartSnapshot, RetainVm, DestroyVm, RemoveVm, Kill
<1>4. \/ phase' = phase
      \/ \E u \in Vms : \/ PowerOff(u) \/ Export(u) \/ RecordSnapshot(u) \/ SnapshotFails(u)
                        \/ ResolveDisk(u) \/ MakeStorage(u) \/ FreePort(u) \/ DockerRun(u)
                        \/ OverlayFails(u) \/ DockerRunFails(u)
                        \/ ConnectVm(u) \/ Ready(u) \/ StepFails(u) \/ StartSnapshot(u)
                        \/ RetainVm(u) \/ DestroyVm(u) \/ RemoveVm(u) \/ Kill(u)
  BY Zenon DEF QemuNext, qemuVars, RunnerExits, GuestRestarts, LookBeforeDestroy, DestroyKept,
    AttachKept, RemoveSnapshot, AttachConnects, Detach
<1>5. /\ PowerOff(v) => phase[v] = "power_off"
      /\ Export(v) => phase[v] = "export"
      /\ RecordSnapshot(v) => phase[v] = "record" /\ phase'[v] = "remove"
      /\ SnapshotFails(v) => phase[v] \in Exporting /\ phase'[v] = "remove"
  BY DEF PowerOff, Export, RecordSnapshot, SnapshotFails
<1>6. QED BY <1>1, <1>2, <1>3, <1>4, <1>5

(* A snapshot is recorded after its export, when its create is past it. *)
LEMMA RecordedStep ==
  ASSUME QemuInvariant, [QemuNext]_qemuVars PROVE RecordedWhole'
<1> SUFFICES ASSUME NEW v \in Vms
    PROVE /\ saved'[v].record => saved'[v].disk = "whole" /\ phase'[v] \in {"remove", "left"}
          /\ phase'[v] = "record" => saved'[v].disk = "whole"
  BY DEF RecordedWhole
<1>1. QemuTypeOK /\ RecordedWhole /\ RemovalLooked BY DEF QemuInvariant
<1>2. ASSUME RemoveSnapshot, order.vm = v PROVE phase[v] \in {"remove", "left"}
  BY <1>1, <1>2 DEF RemoveSnapshot, RemovalLooked, RecordedWhole
<1>3. QED BY <1>1, <1>2, SavedChanges, PhaseChanges DEF RecordedWhole, Exporting

(* A create boots from what was listed when it read the record.              *)
LEMMA BaseChanges ==
  ASSUME QemuTypeOK, [QemuNext]_qemuVars, NEW v \in Vms
  PROVE  \/ base'[v] = base[v] /\ overtook'[v] \in {overtook[v], TRUE}
         \/ /\ ResolveDisk(v) /\ phase[v] = "idle" /\ phase'[v] = "resolved"
            /\ base'[v] # 0 => Listed(base'[v]) /\ base'[v] \in Vms
            /\ overtook'[v] = (order.op = "destroy_snapshot" /\ order.vm = base'[v])
            /\ UNCHANGED <<saved, order, runner>>
<1> USE DEF QemuTypeOK
<1>1. ASSUME NEW u \in Vms, ResolveDisk(u), u # v
      PROVE base'[v] = base[v] /\ overtook'[v] = overtook[v]
  BY <1>1 DEF ResolveDisk
<1>2. ASSUME ResolveDisk(v)
      PROVE /\ phase[v] = "idle" /\ phase'[v] = "resolved"
            /\ base'[v] # 0 => Listed(base'[v]) /\ base'[v] \in Vms
            /\ overtook'[v] = (order.op = "destroy_snapshot" /\ order.vm = base'[v])
            /\ UNCHANGED <<saved, order, runner>>
  <2>1. PICK b \in {0} \cup {s \in Vms : Listed(s)} :
          /\ base' = [base EXCEPT ![v] = b]
          /\ overtook' = [overtook EXCEPT ![v] = order.op = "destroy_snapshot" /\ order.vm = b]
    BY <1>2 DEF ResolveDisk
  <2>2. base'[v] = b /\ overtook'[v] = (order.op = "destroy_snapshot" /\ order.vm = b) BY <2>1
  <2>3. QED BY <1>2, <2>2 DEF ResolveDisk, Phase
<1>3. ASSUME NEW s \in Vms, LookBeforeDestroy(s)
      PROVE base'[v] = base[v] /\ overtook'[v] \in {overtook[v], TRUE}
  BY <1>3 DEF LookBeforeDestroy
<1>4. \/ UNCHANGED <<base, overtook>>
      \/ \E u \in Vms : ResolveDisk(u) \/ LookBeforeDestroy(u)
  BY Zenon DEF QemuNext, qemuVars, MakeStorage, OverlayFails, FreePort, DockerRun, DockerRunFails,
    ConnectVm, Ready, StepFails, StartSnapshot, PowerOff, Export, RecordSnapshot, SnapshotFails,
    RetainVm, DestroyVm, RemoveVm, RunnerExits, GuestRestarts, Kill, DestroyKept, AttachKept,
    RemoveSnapshot, AttachConnects, Detach
<1>5. QED BY <1>1, <1>2, <1>3, <1>4

(* What a VM boots from stays recorded until it is removed. *)
LEMMA BasesStep ==
  ASSUME QemuInvariant, [QemuNext]_qemuVars PROVE BasesRecorded'
<1> SUFFICES ASSUME NEW v \in Vms
    PROVE /\ phase'[v] = "idle" => base'[v] = 0
          /\ base'[v] # 0 => /\ phase'[base'[v]] \in {"remove", "left"}
                             /\ saved'[base'[v]].disk \in {"none", "whole"}
                             /\ saved'[base'[v]].record <=> saved'[base'[v]].disk = "whole"
  BY DEF BasesRecorded
<1>1. QemuTypeOK /\ RecordedWhole /\ BasesRecorded BY DEF QemuInvariant
<1>2. ASSUME phase'[v] = "idle" PROVE base'[v] = 0
  BY <1>1, <1>2, PhaseChanges, BaseChanges DEF BasesRecorded
<1>3. ASSUME base'[v] # 0, base'[v] = base[v]
      PROVE /\ phase'[base[v]] \in {"remove", "left"}
            /\ saved'[base[v]].disk \in {"none", "whole"}
            /\ saved'[base[v]].record <=> saved'[base[v]].disk = "whole"
  <2>1. /\ base[v] \in Vms
        /\ phase[base[v]] \in {"remove", "left"} /\ saved[base[v]].disk \in {"none", "whole"}
        /\ saved[base[v]].record <=> saved[base[v]].disk = "whole"
    BY <1>1, <1>3 DEF BasesRecorded, QemuTypeOK
  <2>2. QED BY <1>1, <2>1, PhaseChanges, SavedChanges DEF Exporting
<1>4. ASSUME base'[v] # 0, base'[v] # base[v]
      PROVE /\ base'[v] \in Vms /\ phase'[base'[v]] \in {"remove", "left"}
            /\ saved'[base'[v]].disk = "whole" /\ saved'[base'[v]].record
  <2>1. Listed(base'[v]) /\ base'[v] \in Vms /\ saved' = saved BY <1>1, <1>4, BaseChanges
  <2>2. QED BY <1>1, <2>1, PhaseChanges DEF Listed, RecordedWhole
<1>5. QED BY <1>2, <1>3, <1>4

(* A VM runs when `docker run` found its disk; otherwise it goes on or stops. *)
LEMMA RunnerChanges ==
  ASSUME QemuTypeOK, [QemuNext]_qemuVars, NEW v \in Vms
  PROVE  \/ runner'[v] # "running" \/ runner[v] = "running"
         \/ /\ phase[v] = "boot" /\ DiskIsThere(v)
            /\ UNCHANGED <<saved, order, base, overtook>>
<1> USE DEF QemuTypeOK, Phase
<1>1. ASSUME NEW u \in Vms, DockerRun(u) \/ DockerRunFails(u), runner'[v] = "running",
             runner[v] # "running"
      PROVE /\ phase[v] = "boot" /\ DiskIsThere(v) /\ UNCHANGED <<saved, order, base, overtook>>
  BY <1>1 DEF DockerRun, DockerRunFails
<1>2. \/ runner' = runner
      \/ \E u \in Vms : runner' = [runner EXCEPT ![u] = "exited"]
      \/ \E u \in Vms : runner' = [runner EXCEPT ![client[u]] = "exited"]
      \/ \E u \in Vms : \E r \in {"none", runner[u]} : runner' = [runner EXCEPT ![u] = r]
      \/ \E u \in Vms : DockerRun(u) \/ DockerRunFails(u)
  BY Zenon DEF QemuNext, qemuVars, ResolveDisk, MakeStorage, OverlayFails, FreePort,
    ConnectVm, Ready, StepFails, StartSnapshot, PowerOff, Export, RecordSnapshot, SnapshotFails,
    RetainVm, DestroyVm, RemoveVm, RunnerExits, GuestRestarts, Kill, DestroyKept, AttachKept,
    RemoveSnapshot, AttachConnects, Detach, LookBeforeDestroy
<1>3. QED BY <1>1, <1>2

(* A command that removes a snapshot has looked at every VM on it, or
   overtook it. *)
LEMMA RemovalStep ==
  ASSUME QemuInvariant, [QemuNext]_qemuVars PROVE RemovalLooked'
<1> SUFFICES ASSUME order'.op = "destroy_snapshot"
    PROVE /\ order'.vm # 0 /\ saved'[order'.vm].record
          /\ \A v \in Vms : base'[v] = order'.vm /\ ~overtook'[v] =>
                              runner'[v] # "running" /\ phase'[v] \notin Booting
  BY DEF RemovalLooked
<1>1. QemuTypeOK /\ RemovalLooked /\ RecordedWhole /\ BasesRecorded BY DEF QemuInvariant
<1>z. 0 \notin Vms BY QemuAssumption
<1>2. CASE order' = order
  <2>1. /\ order.vm \in Vms /\ saved[order.vm].record
        /\ \A v \in Vms : base[v] = order.vm /\ ~overtook[v] =>
                            runner[v] # "running" /\ phase[v] \notin Booting
    BY <1>1, <1>2, <1>z DEF RemovalLooked, QemuTypeOK
  <2>2. phase[order.vm] \in {"remove", "left"} BY <1>1, <2>1 DEF RecordedWhole
  <2>3. ~RemoveSnapshot BY <1>2 DEF RemoveSnapshot, NoOrder
  <2>4. saved'[order.vm].record
    BY <1>1, <2>1, <2>2, <2>3, SavedChanges, PhaseChanges DEF Exporting
  <2>5. ASSUME NEW v \in Vms, base'[v] = order.vm, ~overtook'[v]
        PROVE runner'[v] # "running" /\ phase'[v] \notin Booting
    <3>1. ~ResolveDisk(v) /\ base'[v] = base[v] /\ ~overtook[v]
      <4>1. \/ base'[v] = base[v] /\ ~overtook[v]
            \/ overtook'[v] = (order.op = "destroy_snapshot" /\ order.vm = base'[v])
        BY <1>1, <2>5, BaseChanges DEF QemuTypeOK
      <4>2. base'[v] = base[v] /\ ~overtook[v] BY <4>1, <2>5, <1>2
      <4>3. base[v] # 0 BY <4>2, <2>5, <2>1, <1>z
      <4>4. phase[v] # "idle" BY <4>3, <1>1 DEF BasesRecorded
      <4>5. QED BY <4>2, <4>4 DEF ResolveDisk, Phase
    <3>2. runner[v] # "running" /\ phase[v] \notin Booting BY <2>1, <2>5, <3>1
    <3>3. QED BY <1>1, <3>1, <3>2, RunnerChanges, PhaseChanges DEF Booting
  <2>6. QED BY <1>2, <1>z, <2>1, <2>4, <2>5
<1>3. ASSUME NEW s \in Vms, LookBeforeDestroy(s)
      PROVE /\ order'.vm # 0 /\ saved'[order'.vm].record
            /\ \A v \in Vms : base'[v] = order'.vm /\ ~overtook'[v] =>
                                runner'[v] # "running" /\ phase'[v] \notin Booting
  <2>1. order'.vm = s BY <1>3 DEF LookBeforeDestroy, NoOrder
  <2>2. QED
    BY <1>1, <1>3, <2>1, <1>z
    DEF LookBeforeDestroy, Listed, NobodyRunsOn, Unseen, Booting, QemuTypeOK
<1>4. CASE AttachConnects
  BY <1>4, <1>1 DEF AttachConnects, QemuTypeOK
<1>5. order' = order \/ (\E s \in Vms : LookBeforeDestroy(s) \/ AttachKept(s))
        \/ order' = NoOrder \/ AttachConnects
  BY Zenon DEF QemuNext, qemuVars, ResolveDisk, MakeStorage, OverlayFails, FreePort, DockerRun,
    DockerRunFails, ConnectVm, Ready, StepFails, StartSnapshot, PowerOff, Export,
    RecordSnapshot, SnapshotFails, RetainVm, DestroyVm, RemoveVm, RunnerExits, GuestRestarts,
    Kill, DestroyKept, RemoveSnapshot, Detach
<1>6. order' # NoOrder /\ \A s \in Vms : ~AttachKept(s)
  BY DEF NoOrder, AttachKept
<1>7. QED BY <1>2, <1>3, <1>4, <1>5, <1>6

(* While a VM runs, the snapshot it boots from is there. *)
LEMMA RunsStep ==
  ASSUME QemuInvariant, [QemuNext]_qemuVars PROVE RunsOnWhole'
<1> SUFFICES ASSUME NEW v \in Vms, runner'[v] = "running", base'[v] # 0, ~overtook'[v]
    PROVE saved'[base'[v]].disk = "whole"
  BY DEF RunsOnWhole
<1>1. QemuTypeOK /\ RemovalLooked /\ RecordedWhole /\ BasesRecorded /\ RunsOnWhole
  BY DEF QemuInvariant
<1>2. CASE ResolveDisk(v)
  BY <1>1, <1>2, BasesStep, BaseChanges DEF BasesRecorded, Listed, RecordedWhole, ResolveDisk,
    Phase
<1>3. CASE ~ResolveDisk(v)
  <2>1. base'[v] = base[v] /\ ~overtook[v] /\ base[v] \in Vms
    BY <1>1, <1>3, BaseChanges DEF QemuTypeOK
  <2>2. phase[base[v]] \in {"remove", "left"} BY <1>1, <2>1 DEF BasesRecorded
  <2>3. CASE runner[v] = "running"
    <3>1. saved[base[v]].disk = "whole" BY <1>1, <2>1, <2>3 DEF RunsOnWhole
    <3>2. ~(RemoveSnapshot /\ order.vm = base[v])
      BY <1>1, <2>1, <2>3 DEF RemoveSnapshot, RemovalLooked
    <3>3. QED BY <1>1, <2>1, <2>2, <3>1, <3>2, SavedChanges, PhaseChanges DEF Exporting
  <2>4. CASE runner[v] # "running"
    <3>1. DiskIsThere(v) /\ UNCHANGED saved BY <1>1, <2>4, RunnerChanges
    <3>2. QED BY <1>1, <2>1, <3>1 DEF DiskIsThere, BasesRecorded
  <2>5. QED BY <2>3, <2>4
<1>4. QED BY <1>2, <1>3

(* What is inductive of a Host's VMs: their clients' claims, the snapshots    *)
(* and their records, and what a command that removes one has looked at.     *)
THEOREM QemuInvariantHolds == QemuSpec => []QemuInvariant
<1>1. QemuInit => QemuInvariant
  <2> SUFFICES ASSUME QemuInit PROVE QemuInvariant OBVIOUS
  <2>1. QemuTypeOK BY DEF QemuInit, QemuTypeOK, NoSnapshot, Snapshots, NoOrder
  <2>2. ConnectedClaims BY DEF QemuInit, ConnectedClaims, NoOrder
  <2>3. RecordedWhole BY DEF QemuInit, RecordedWhole, NoSnapshot
  <2>4. BasesRecorded BY DEF QemuInit, BasesRecorded
  <2>5. RemovalLooked /\ RunsOnWhole BY DEF QemuInit, RemovalLooked, RunsOnWhole, NoOrder
  <2>6. QED BY <2>1, <2>2, <2>3, <2>4, <2>5 DEF QemuInvariant
<1>2. QemuInvariant /\ [QemuNext]_qemuVars => QemuInvariant'
  <2> SUFFICES ASSUME QemuInvariant, [QemuNext]_qemuVars PROVE QemuInvariant' OBVIOUS
  <2>1. QemuTypeOK' BY QemuTypeStep DEF QemuInvariant
  <2>2. QED
    BY <2>1, ConnectedStep, RecordedStep, BasesStep, RemovalStep, RunsStep DEF QemuInvariant
<1>3. QED BY <1>1, <1>2, PTL DEF QemuSpec

(* A guest takes commands under one token only, whichever runner its port     *)
(* passed to (ConnectVm, AttachConnects, guestd's claim).                    *)
THEOREM GuestsServeOneTokenHolds == QemuSpec => []GuestsServeOneToken
<1>1. QemuInvariant => GuestsServeOneToken
  <2> SUFFICES ASSUME QemuInvariant, NEW g \in Vms, NEW u \in CommandsOf(g),
                      NEW v \in CommandsOf(g)
      PROVE u = v
    BY DEF GuestsServeOneToken
  <2>1. g # 0 BY QemuAssumption
  <2>2. ASSUME NEW w \in CommandsOf(g) PROVE w = claimed[g]
    BY <2>1, <2>2 DEF CommandsOf, QemuInvariant, ConnectedClaims
  <2>3. QED BY <2>2
<1>2. QED BY <1>1, QemuInvariantHolds, PTL

(* A snapshot that can be listed is whole, and stays while a VM runs on it    *)
(* unless the command that removed it looked before the VM's container was   *)
(* there (snapshot, destroy_retained).                                       *)
THEOREM SnapshotsStayWholeHolds == QemuSpec => []SnapshotsStayWhole
<1>1. QemuInvariant => SnapshotsStayWhole
  BY DEF QemuInvariant, SnapshotsStayWhole, Listed, RecordedWhole, RunsOnWhole
<1>2. QED BY <1>1, QemuInvariantHolds, PTL

-----------------------------------------------------------------------------
(* Framed and sized macOS images (FramedImages)                           *)

(* What a create is, and what a step of one leaves of it and of the others. *)
CreateRecord  == [at: {"ask", "booting", "failed"} \cup Framing \cup Given, size: Sizes, work: Images,
            guest: {"off", "starting", "signed_in", "announced"}, stale: SUBSET Sizes]
Only(c) == create' \in [Creators -> CreateRecord] /\ \A d \in Creators \ {c} : create'[d] = create[d]

(* What each kind of update makes of a create: its next await, ... *)
LEMMA GoesTo ==
  ASSUME FramingTypeOK, NEW c \in Creators,
         NEW p \in {"ask", "booting", "failed"} \cup Framing \cup Given, Goes(c, p)
  PROVE  /\ Only(c)
         /\ create'[c].at = p /\ create'[c].work = create[c].work
         /\ create'[c].guest = create[c].guest /\ create'[c].stale = create[c].stale
<1>1. create \in [Creators -> CreateRecord] BY DEF FramingTypeOK, CreateRecord
<1>2. create' = [create EXCEPT ![c] = [create[c] EXCEPT !.at = p]] BY DEF Goes
<1>3. create[c] \in CreateRecord BY <1>1
<1>4. [create[c] EXCEPT !.at = p] \in CreateRecord BY <1>3 DEF CreateRecord
<1>5. /\ [create[c] EXCEPT !.at = p].at = p /\ [create[c] EXCEPT !.at = p].work = create[c].work
      /\ [create[c] EXCEPT !.at = p].guest = create[c].guest
      /\ [create[c] EXCEPT !.at = p].stale = create[c].stale
  BY <1>3 DEF CreateRecord
<1>6. QED BY <1>1, <1>2, <1>4, <1>5 DEF Only

(* ... its end, with or without an image, ... *)
LEMMA EndsAt ==
  ASSUME FramingTypeOK, NEW c \in Creators, NEW p \in {"given", "booting", "failed"}, Ends(c, p)
  PROVE  /\ Only(c)
         /\ create'[c].at = p /\ create'[c].work = NoImage /\ create'[c].guest = "off"
<1>1. create \in [Creators -> CreateRecord] BY DEF FramingTypeOK, CreateRecord
<1>2. create' = [create EXCEPT ![c] = [create[c] EXCEPT !.at = p, !.work = NoImage,
                                                        !.guest = "off", !.stale = {}]]
  BY DEF Ends
<1>3. create[c] \in CreateRecord /\ NoImage \in Images BY <1>1 DEF NoImage, Images
<1>4. [create[c] EXCEPT !.at = p, !.work = NoImage, !.guest = "off", !.stale = {}] \in CreateRecord
  BY <1>3 DEF CreateRecord, Given
<1>5. QED BY <1>1, <1>2, <1>3, <1>4 DEF CreateRecord, Only

(* ... a deed done to the clone on the way, ... *)
LEMMA DoesThere ==
  ASSUME FramingTypeOK, NEW c \in Creators, NEW p \in Framing, NEW d \in Deeds, Does(c, p, d)
  PROVE  /\ Only(c) /\ create'[c].at = p /\ create'[c].work.did = create[c].work.did \cup {d}
         /\ create'[c].guest = create[c].guest
<1> DEFINE w == [create[c].work EXCEPT !.did = @ \cup {d}]
<1>1. create \in [Creators -> CreateRecord] /\ create[c].work \in Images
  BY DEF FramingTypeOK, CreateRecord
<1>2. w \in Images /\ w.did = create[c].work.did \cup {d} BY <1>1 DEF Images
<1>3. create' = [create EXCEPT ![c] = [create[c] EXCEPT !.at = p, !.work = w]]
  BY <1>1 DEF Does, CreateRecord
<1>4. create[c] \in CreateRecord BY <1>1
<1> HIDE DEF w
<1>5. [create[c] EXCEPT !.at = p, !.work = w] \in CreateRecord BY <1>2, <1>4 DEF CreateRecord
<1>6. /\ [create[c] EXCEPT !.at = p, !.work = w].at = p
      /\ [create[c] EXCEPT !.at = p, !.work = w].work = w
      /\ [create[c] EXCEPT !.at = p, !.work = w].guest = create[c].guest
  BY <1>4 DEF CreateRecord
<1>7. QED BY <1>1, <1>2, <1>3, <1>5, <1>6 DEF Only

(* ... the list of what is older than the frame, ... *)
LEMMA LooksAgain ==
  ASSUME FramingTypeOK, NEW c \in Creators,
         create' = [create EXCEPT ![c].at = "clear", ![c].stale = Stale]
  PROVE  /\ Only(c) /\ create'[c].at = "clear" /\ create'[c].stale = Stale
         /\ create'[c].guest = create[c].guest
<1>1. create \in [Creators -> CreateRecord] BY DEF FramingTypeOK, CreateRecord
<1>2. Stale \in SUBSET Sizes BY DEF Stale
<1>3. create' = [create EXCEPT ![c] = [create[c] EXCEPT !.at = "clear", !.stale = Stale]]
  BY <1>1 DEF CreateRecord
<1>4. create[c] \in CreateRecord BY <1>1
<1>5. [create[c] EXCEPT !.at = "clear", !.stale = Stale] \in CreateRecord
  BY <1>2, <1>4 DEF CreateRecord, Framing
<1>6. QED BY <1>1, <1>3, <1>4, <1>5 DEF Only, CreateRecord

(* ... one of them removed, ... *)
LEMMA Clears ==
  ASSUME FramingTypeOK, NEW c \in Creators, NEW s \in Sizes,
         create' = [create EXCEPT ![c].stale = @ \ {s}]
  PROVE  /\ Only(c) /\ create'[c].at = create[c].at /\ create'[c].work = create[c].work
         /\ create'[c].guest = create[c].guest /\ create'[c].stale = create[c].stale \ {s}
<1> DEFINE left == create[c].stale \ {s}
<1>1. create \in [Creators -> CreateRecord] BY DEF FramingTypeOK, CreateRecord
<1>2. create[c] \in CreateRecord /\ left \in SUBSET Sizes BY <1>1 DEF CreateRecord
<1>3. create' = [create EXCEPT ![c] = [create[c] EXCEPT !.stale = left]] BY <1>1 DEF CreateRecord
<1> HIDE DEF left
<1>4. [create[c] EXCEPT !.stale = left] \in CreateRecord BY <1>2 DEF CreateRecord
<1>5. QED BY <1>1, <1>2, <1>3, <1>4 DEF Only, CreateRecord, left

(* ... another clone to work on, ... *)
LEMMA Works ==
  ASSUME FramingTypeOK, NEW c \in Creators, NEW p \in Framing \cup Given, NEW i \in Images,
         create' = [create EXCEPT ![c].at = p, ![c].work = i]
  PROVE  /\ Only(c) /\ create'[c].at = p /\ create'[c].work = i
         /\ create'[c].guest = create[c].guest
<1>1. create \in [Creators -> CreateRecord] BY DEF FramingTypeOK, CreateRecord
<1>2. create[c] \in CreateRecord BY <1>1
<1>3. create' = [create EXCEPT ![c] = [create[c] EXCEPT !.at = p, !.work = i]]
  BY <1>1 DEF CreateRecord
<1>4. [create[c] EXCEPT !.at = p, !.work = i] \in CreateRecord BY <1>2 DEF CreateRecord
<1>5. QED BY <1>1, <1>2, <1>3, <1>4 DEF Only, CreateRecord

(* ... a guest that goes on, ... *)
LEMMA Guests ==
  ASSUME FramingTypeOK, NEW c \in Creators, NEW p \in {"console", create[c].at},
         NEW g \in {"starting", "signed_in", "announced"},
         \/ create' = [create EXCEPT ![c].at = p, ![c].guest = g]
         \/ p = create[c].at /\ create' = [create EXCEPT ![c].guest = g]
  PROVE  /\ Only(c) /\ create'[c].at = p /\ create'[c].work = create[c].work
         /\ create'[c].guest = g /\ create'[c].stale = create[c].stale
<1>1. create \in [Creators -> CreateRecord] BY DEF FramingTypeOK, CreateRecord
<1>2. create[c] \in CreateRecord BY <1>1
<1>3. create' = [create EXCEPT ![c] = [create[c] EXCEPT !.at = p, !.guest = g]]
  BY <1>1 DEF CreateRecord
<1>4. [create[c] EXCEPT !.at = p, !.guest = g] \in CreateRecord
  BY <1>2 DEF CreateRecord, Framing, Signing
<1>5. QED BY <1>1, <1>2, <1>3, <1>4 DEF Only, CreateRecord

(* ... or that has gone off, ... *)
LEMMA GoesOff ==
  ASSUME FramingTypeOK, NEW c \in Creators, NEW d \in Deeds,
         create' = [create EXCEPT ![c].guest = "off", ![c].work.did = @ \cup {d}]
  PROVE  /\ Only(c) /\ create'[c].at = create[c].at /\ create'[c].guest = "off"
         /\ create'[c].work.did = create[c].work.did \cup {d}
         /\ create'[c].stale = create[c].stale
<1> DEFINE w == [create[c].work EXCEPT !.did = @ \cup {d}]
<1>1. create \in [Creators -> CreateRecord] /\ create[c].work \in Images
  BY DEF FramingTypeOK, CreateRecord
<1>2. w \in Images /\ w.did = create[c].work.did \cup {d} BY <1>1 DEF Images
<1>3. create' = [create EXCEPT ![c] = [create[c] EXCEPT !.guest = "off", !.work = w]]
  BY <1>1 DEF CreateRecord
<1>4. create[c] \in CreateRecord BY <1>1
<1> HIDE DEF w
<1>5. [create[c] EXCEPT !.guest = "off", !.work = w] \in CreateRecord BY <1>2, <1>4 DEF CreateRecord
<1>6. /\ [create[c] EXCEPT !.guest = "off", !.work = w].at = create[c].at
      /\ [create[c] EXCEPT !.guest = "off", !.work = w].work = w
      /\ [create[c] EXCEPT !.guest = "off", !.work = w].guest = "off"
      /\ [create[c] EXCEPT !.guest = "off", !.work = w].stale = create[c].stale
  BY <1>4 DEF CreateRecord
<1>7. QED BY <1>1, <1>2, <1>3, <1>5, <1>6 DEF Only

(* ... a new request, ... *)
LEMMA Asks ==
  ASSUME FramingTypeOK, NEW c \in Creators, NEW s \in Sizes,
         create' = [create EXCEPT ![c].at = "ask", ![c].size = s]
  PROVE  /\ Only(c) /\ create'[c].at = "ask" /\ create'[c].work = create[c].work
         /\ create'[c].guest = create[c].guest
<1>1. create \in [Creators -> CreateRecord] BY DEF FramingTypeOK, CreateRecord
<1>2. create[c] \in CreateRecord BY <1>1
<1>3. create' = [create EXCEPT ![c] = [create[c] EXCEPT !.at = "ask", !.size = s]]
  BY <1>1 DEF CreateRecord
<1>4. [create[c] EXCEPT !.at = "ask", !.size = s] \in CreateRecord BY <1>2 DEF CreateRecord
<1>5. QED BY <1>1, <1>2, <1>3, <1>4 DEF Only, CreateRecord

(* ... and the clones that `tart clone` made. *)
LEMMA ClonesSource ==
  ASSUME FramingTypeOK, NEW c \in Creators, CloneSource(c)
  PROVE  /\ Only(c) /\ create[c].at = "clear" /\ create[c].stale = {}
         /\ create'[c].at = "install" /\ create'[c].guest = create[c].guest
<1>1. Clone(begun') \in Images BY DEF CloneSource, Clone, Images, FramingTypeOK
<1>2. /\ create[c].at = "clear" /\ create[c].stale = {}
      /\ create' = [create EXCEPT ![c].at = "install", ![c].work = Clone(begun')]
  BY DEF CloneSource
<1>3. "install" \in Framing BY DEF Framing, UpTo
<1>4. QED BY <1>1, <1>2, <1>3, Works

(* A clone at a resolution is taken of what is framed. *)
LEMMA ClonesFramed ==
  ASSUME FramingTypeOK, NEW c \in Creators, CloneFramed(c)
  PROVE  /\ Only(c) /\ create[c].at = "clone_size" /\ framed # NoImage
         /\ create'[c].at = "rename" /\ create'[c].work = framed
         /\ create'[c].guest = create[c].guest
<1>1. framed \in Images BY DEF FramingTypeOK
<1>2. /\ create[c].at = "clone_size" /\ framed # NoImage
      /\ create' = [create EXCEPT ![c].at = "rename", ![c].work = framed]
  BY DEF CloneFramed
<1>3. "rename" \in Given BY DEF Given
<1>4. /\ Only(c) /\ create'[c].at = "rename" /\ create'[c].work = framed
      /\ create'[c].guest = create[c].guest
  <2>1. "rename" \in Framing \cup Given BY <1>3
  <2>2. create' = [create EXCEPT ![c].at = "rename", ![c].work = framed] BY <1>2
  <2>3. QED BY <1>1, <2>1, <2>2, Works
<1>5. QED BY <1>2, <1>4

(* What a create that fails leaves running: only a create that has settled its *)
(* clone may have been putting one under the name of the framed image.         *)
LEMMA LeavesTarts ==
  ASSUME FramingTypeOK, NEW c \in Creators
  PROVE  /\ Underway(c) \subseteq Tarts
         /\ \A tart \in Underway(c) : tart.name = TheOne =>
              create[c].at = "save" /\ tart.image = create[c].work
<1>1. /\ create[c].work \in Images /\ create[c].stale \subseteq Sizes /\ SizeOf(c) \in Sizes
      /\ NoImage \in Images
  BY DEF FramingTypeOK, SizeOf, NoImage, Images
<1>2. ASSUME NEW tart \in Underway(c)
      PROVE  /\ tart \in Tarts
             /\ tart.name = TheOne => create[c].at = "save" /\ tart.image = create[c].work
  <2>1. CASE create[c].at = "save"
    <3>1. tart = [name |-> TheOne, image |-> create[c].work] BY <1>2, <2>1 DEF Underway
    <3>2. QED BY <1>1, <2>1, <3>1 DEF Tarts
  <2>2. CASE create[c].at = "rename"
    <3>1. tart = [name |-> SizeOf(c), image |-> create[c].work] BY <1>2, <2>2 DEF Underway
    <3>2. QED BY <1>1, <3>1, FramingAssumption DEF Tarts
  <2>3. CASE create[c].at = "clear"
    <3>1. tart \in [name: create[c].stale, image: {NoImage}] BY <1>2, <2>3 DEF Underway
    <3>2. PICK s \in create[c].stale : tart = [name |-> s, image |-> NoImage] BY <3>1
    <3>3. QED BY <1>1, <3>2, FramingAssumption DEF Tarts
  <2>4. CASE create[c].at \notin {"save", "rename", "clear"} BY <1>2, <2>4 DEF Underway
  <2>5. QED BY <2>1, <2>2, <2>3, <2>4
<1>3. QED BY <1>2

(* Every step works on one create and leaves the others. *)
LEMMA FramingTypeStep ==
  ASSUME FramingTypeOK, [FramingNext]_framingVars PROVE FramingTypeOK'
<1>0. CASE UNCHANGED framingVars BY <1>0 DEF framingVars, FramingTypeOK
<1>i. NoImage \in Images BY DEF NoImage, Images
<1>l. ASSUME NEW c \in Creators, UnlockSize(c) PROVE sizeLock' \in [Sizes -> Creators \cup {NoOne}]
  BY <1>l DEF UnlockSize, FramingTypeOK
<1>k. ASSUME create' \in [Creators -> CreateRecord], NothingKept, begun' \in Nat,
             frameLock' \in Creators \cup {NoOne}, sizeLock' \in [Sizes -> Creators \cup {NoOne}]
      PROVE  FramingTypeOK'
  BY <1>k DEF FramingTypeOK, CreateRecord, NothingKept
<1>n. ASSUME create' \in [Creators -> CreateRecord], NothingKept, NoLockTaken, UNCHANGED begun
      PROVE  FramingTypeOK'
  BY <1>n, <1>k DEF FramingTypeOK, NoLockTaken
<1>1. ASSUME NEW c \in Creators, LockFrame(c) PROVE FramingTypeOK'
  BY <1>1, <1>k, GoesTo DEF LockFrame, Only, Framing, FramingTypeOK
<1>2. ASSUME NEW c \in Creators, LookForFrame(c) PROVE FramingTypeOK'
  <2>1. create' \in [Creators -> CreateRecord] /\ frameLock' \in Creators \cup {NoOne}
    BY <1>2, GoesTo, LooksAgain DEF LookForFrame, Only, Given, FramingTypeOK
  <2>2. QED BY <1>2, <1>k, <2>1 DEF LookForFrame, FramingTypeOK
<1>3. ASSUME NEW c \in Creators, ClearStale(c) PROVE FramingTypeOK'
  <2>1. PICK s \in create[c].stale :
           /\ sized[s] # NoImage /\ sized' = [sized EXCEPT ![s] = NoImage]
           /\ create' = [create EXCEPT ![c].stale = @ \ {s}]
    BY <1>3 DEF ClearStale
  <2>2. s \in Sizes BY DEF FramingTypeOK
  <2>3. create' \in [Creators -> CreateRecord] BY <2>1, <2>2, Clears DEF Only
  <2>4. sized' \in [Sizes -> Images] BY <1>i, <2>1 DEF FramingTypeOK
  <2>5. QED BY <1>3, <2>3, <2>4 DEF ClearStale, NoLockTaken, FramingTypeOK, CreateRecord
<1>4. ASSUME NEW c \in Creators, CloneSource(c) PROVE FramingTypeOK'
  <2>1. begun' \in Nat BY <1>4 DEF CloneSource, FramingTypeOK
  <2>2. create' \in [Creators -> CreateRecord] BY <1>4, ClonesSource DEF Only
  <2>3. QED BY <1>4, <1>k, <2>1, <2>2 DEF CloneSource, NoLockTaken, FramingTypeOK
<1>5. ASSUME NEW c \in Creators, FrameDisk(c) \/ DismissNotices(c) \/ ForgetDisplays(c)
      PROVE  FramingTypeOK'
  BY <1>5, <1>n, DoesThere DEF FrameDisk, DismissNotices, ForgetDisplays, Only, Framing, UpTo,
    Signing, Deeds
<1>6. ASSUME NEW c \in Creators, BootOnce(c) \/ GuestGoesOn(c) PROVE FramingTypeOK'
  <2>1. create' \in [Creators -> CreateRecord]
    BY <1>6, Guests DEF BootOnce, GuestGoesOn, Only
  <2>2. QED BY <1>6, <1>n, <2>1 DEF BootOnce, GuestGoesOn
<1>7. ASSUME NEW c \in Creators, PowerLoss(c) \/ GuestGoesDown(c) PROVE FramingTypeOK'
  BY <1>7, <1>n, GoesOff DEF PowerLoss, GuestGoesDown, Only, Deeds
<1>8. ASSUME NEW c \in Creators, SeeConsole(c) \/ Stopped(c) PROVE FramingTypeOK'
  BY <1>8, <1>n, GoesTo DEF SeeConsole, Stopped, Only, Framing, Signing
<1>9. ASSUME NEW c \in Creators, ShutDown(c) PROVE FramingTypeOK'
  BY <1>9, <1>n, GoesTo DEF ShutDown, Goes, Only, Framing, Signing
<1>10. ASSUME NEW c \in Creators, Save(c) PROVE FramingTypeOK'
  <2>1. create' \in [Creators -> CreateRecord] BY <1>10, GoesTo DEF Save, Only, Framing
  <2>2. create[c].work \in Images BY DEF FramingTypeOK
  <2>3. QED BY <1>10, <2>1, <2>2 DEF Save, NoLockTaken, FramingTypeOK, CreateRecord
<1>11. ASSUME NEW c \in Creators, RecordFrame(c) PROVE FramingTypeOK'
  <2>1. create' \in [Creators -> CreateRecord] BY <1>11, EndsAt DEF RecordFrame, Only
  <2>2. QED BY <1>11, <2>1 DEF RecordFrame, FramingTypeOK, CreateRecord
<1>12. ASSUME NEW c \in Creators, LockSize(c) PROVE FramingTypeOK'
  <2>1. create' \in [Creators -> CreateRecord] BY <1>12, GoesTo DEF LockSize, Only, Given
  <2>2. sizeLock' \in [Sizes -> Creators \cup {NoOne}] BY <1>12 DEF LockSize, FramingTypeOK
  <2>3. QED BY <1>12, <1>k, <2>1, <2>2 DEF LockSize, FramingTypeOK
<1>13. ASSUME NEW c \in Creators, LookForSize(c) PROVE FramingTypeOK'
  <2>1. create' \in [Creators -> CreateRecord]
    BY <1>13, GoesTo, EndsAt DEF LookForSize, Only, Given
  <2>2. sizeLock' \in [Sizes -> Creators \cup {NoOne}]
    BY <1>13, <1>l DEF LookForSize, FramingTypeOK
  <2>3. QED BY <1>13, <1>k, <2>1, <2>2 DEF LookForSize, FramingTypeOK
<1>14. ASSUME NEW c \in Creators, CloneFramed(c) PROVE FramingTypeOK'
  BY <1>14, <1>n, ClonesFramed DEF CloneFramed, Only
<1>15. ASSUME NEW c \in Creators, RenameSized(c) PROVE FramingTypeOK'
  <2>1. create' \in [Creators -> CreateRecord] BY <1>15, EndsAt DEF RenameSized, Only
  <2>2. create[c].work \in Images /\ SizeOf(c) \in Sizes BY DEF FramingTypeOK, SizeOf
  <2>3. sized' \in [Sizes -> Images] BY <1>15, <2>2 DEF RenameSized, FramingTypeOK
  <2>4. QED BY <1>15, <1>l, <2>1, <2>3 DEF RenameSized, FramingTypeOK, CreateRecord
<1>16. ASSUME NEW c \in Creators, CreateFails(c) PROVE FramingTypeOK'
  <2>1. create' \in [Creators -> CreateRecord] BY <1>16, EndsAt DEF CreateFails, Only
  <2>2. Underway(c) \subseteq Tarts BY LeavesTarts
  <2>3. strays' \in SUBSET Tarts BY <1>16, <2>2 DEF CreateFails, FramingTypeOK
  <2>4. frameLock' \in Creators \cup {NoOne} /\ frameRecord' \in {"none", "whole", "torn"}
    BY <1>16 DEF CreateFails, FramingTypeOK
  <2>5. sizeLock' \in [Sizes -> Creators \cup {NoOne}] BY <1>16, <1>l DEF CreateFails
  <2>6. QED BY <1>16, <2>1, <2>3, <2>4, <2>5 DEF CreateFails, FramingTypeOK, CreateRecord
<1>17. ASSUME NEW c \in Creators, AnotherCreate(c) PROVE FramingTypeOK'
  BY <1>17, <1>n, Asks DEF AnotherCreate, Only
<1>18. CASE StrayLands
  <2>1. PICK tart \in strays :
          /\ strays' = strays \ {tart}
          /\ IF tart.name = TheOne
               THEN framed' = tart.image /\ UNCHANGED sized
               ELSE /\ sized' = IF NoImage \in {tart.image, sized[tart.name]}
                                  THEN [sized EXCEPT ![tart.name] = tart.image] ELSE sized
                    /\ UNCHANGED framed
    BY <1>18 DEF StrayLands
  <2>2. tart \in Tarts BY DEF FramingTypeOK
  <2>3. tart.image \in Images /\ (tart.name # TheOne => tart.name \in Sizes) BY <2>2 DEF Tarts
  <2>4. framed' \in Images /\ sized' \in [Sizes -> Images] BY <2>1, <2>3 DEF FramingTypeOK
  <2>5. strays' \in SUBSET Tarts BY <2>1 DEF FramingTypeOK
  <2>6. QED BY <1>18, <2>4, <2>5 DEF StrayLands, NoLockTaken, FramingTypeOK
<1>19. CASE OperatorRemoves
  <2>1. sized' \in [Sizes -> Images] /\ framed' \in Images
    BY <1>i, <1>19 DEF OperatorRemoves, FramingTypeOK
  <2>2. frameRecord' \in {"none", "whole", "torn"} /\ raced' \in BOOLEAN
    BY <1>19 DEF OperatorRemoves, Cloning, FramingTypeOK
  <2>3. QED BY <1>19, <2>1, <2>2 DEF OperatorRemoves, NoLockTaken, FramingTypeOK
<1>20. QED
  BY <1>0, <1>1, <1>2, <1>3, <1>4, <1>5, <1>6, <1>7, <1>8, <1>9, <1>10, <1>11, <1>12, <1>13,
    <1>14, <1>15, <1>16, <1>17, <1>18, <1>19 DEF FramingNext

(* A create frames only while it holds the lock of the framing. *)
LEMMA FrameLockStep ==
  ASSUME FramingTypeOK, FrameLockHeld, [FramingNext]_framingVars PROVE FrameLockHeld'
<1> USE DEF FrameLockHeld
<1>0. CASE UNCHANGED framingVars BY <1>0 DEF framingVars
<1>k. ASSUME NEW c \in Creators, Only(c), UNCHANGED frameLock,
             create'[c].at \in Framing => create[c].at \in Framing
      PROVE  FrameLockHeld'
  BY <1>k DEF Only
<1>1. ASSUME NEW c \in Creators, LockFrame(c) PROVE FrameLockHeld'
  <2>1. Only(c) /\ frameLock' = c /\ frameLock = NoOne
    BY <1>1, GoesTo DEF LockFrame, Framing
  <2>2. QED BY <2>1, FramingAssumption DEF Only
<1>2. ASSUME NEW c \in Creators, LookForFrame(c) PROVE FrameLockHeld'
  <2>1. CASE UNCHANGED frameLock
    BY <1>2, <1>k, <2>1, GoesTo, LooksAgain DEF LookForFrame, Framing, Given
  <2>2. CASE ~UNCHANGED frameLock
    <3>1. Only(c) /\ create'[c].at = "given" /\ frameLock = c
      BY <1>2, <2>2, GoesTo DEF LookForFrame, Given, Framing
    <3>2. QED BY <3>1 DEF Only, Framing, UpTo, Signing
  <2>3. QED BY <2>1, <2>2
<1>3. ASSUME NEW c \in Creators, ClearStale(c) PROVE FrameLockHeld'
  BY <1>3, <1>k, Clears DEF ClearStale, NoLockTaken, FramingTypeOK
<1>4. ASSUME NEW c \in Creators, CloneSource(c) PROVE FrameLockHeld'
  BY <1>4, <1>k, ClonesSource DEF CloneSource, NoLockTaken, Framing
<1>5. ASSUME NEW c \in Creators, FrameDisk(c) \/ DismissNotices(c) \/ ForgetDisplays(c)
      PROVE  FrameLockHeld'
  BY <1>5, <1>k, DoesThere DEF FrameDisk, DismissNotices, ForgetDisplays, NoLockTaken, Framing,
    UpTo, Signing, Deeds
<1>6. ASSUME NEW c \in Creators, BootOnce(c) \/ GuestGoesOn(c) PROVE FrameLockHeld'
  BY <1>6, <1>k, Guests DEF BootOnce, GuestGoesOn, NoLockTaken, Framing, UpTo
<1>7. ASSUME NEW c \in Creators, PowerLoss(c) \/ GuestGoesDown(c) PROVE FrameLockHeld'
  BY <1>7, <1>k, GoesOff DEF PowerLoss, GuestGoesDown, NoLockTaken, Deeds
<1>8. ASSUME NEW c \in Creators, SeeConsole(c) \/ Stopped(c) \/ ShutDown(c) \/ Save(c)
      PROVE  FrameLockHeld'
  BY <1>8, <1>k, GoesTo DEF SeeConsole, Stopped, ShutDown, Save, Goes, NoLockTaken, Framing, Signing
<1>9. ASSUME NEW c \in Creators, RecordFrame(c) PROVE FrameLockHeld'
  <2>1. Only(c) /\ create'[c].at = "given" /\ frameLock = c
    BY <1>9, EndsAt DEF RecordFrame, Framing
  <2>2. QED BY <2>1 DEF Only, Framing, UpTo, Signing
<1>10. ASSUME NEW c \in Creators, LockSize(c) \/ LookForSize(c) PROVE FrameLockHeld'
  BY <1>10, <1>k, GoesTo, EndsAt DEF LockSize, LookForSize, Framing, UpTo, Signing, Given
<1>11. ASSUME NEW c \in Creators, CloneFramed(c) PROVE FrameLockHeld'
  BY <1>11, <1>k, ClonesFramed DEF CloneFramed, NoLockTaken, Framing, UpTo, Signing
<1>12. ASSUME NEW c \in Creators, RenameSized(c) PROVE FrameLockHeld'
  BY <1>12, <1>k, EndsAt DEF RenameSized, Framing, UpTo, Signing
<1>13. ASSUME NEW c \in Creators, CreateFails(c) PROVE FrameLockHeld'
  <2>1. Only(c) /\ create'[c].at = "failed" BY <1>13, EndsAt DEF CreateFails
  <2>2. frameLock' = frameLock \/ frameLock = c BY <1>13 DEF CreateFails
  <2>3. QED BY <2>1, <2>2 DEF Only, Framing, UpTo, Signing
<1>14. ASSUME NEW c \in Creators, AnotherCreate(c) PROVE FrameLockHeld'
  BY <1>14, <1>k, Asks DEF AnotherCreate, NoLockTaken, Framing, UpTo, Signing
<1>15. CASE StrayLands \/ OperatorRemoves
  BY <1>15 DEF StrayLands, OperatorRemoves, NoLockTaken
<1>16. QED
  BY <1>0, <1>1, <1>2, <1>3, <1>4, <1>5, <1>6, <1>7, <1>8, <1>9, <1>10, <1>11, <1>12, <1>13,
    <1>14, <1>15 DEF FramingNext

(* The signing in and the shutting down are done in their order. *)
LEMMA WorkStep ==
  ASSUME FramingTypeOK, WorkInOrder, [FramingNext]_framingVars PROVE WorkInOrder'
<1> USE DEF WorkInOrder
<1>0. CASE UNCHANGED framingVars BY <1>0 DEF framingVars, Settled
<1>k. ASSUME NEW c \in Creators, Only(c),
             LET place == create'[c].at  done == create'[c].work.did IN
               /\ place \in {"boot"} \cup Signing => "framed" \in done
               /\ place \in {"displays", "shut_down", "await_down"} => "dismissed" \in done
               /\ place \in {"shut_down", "await_down"} => "forgotten" \in done
               /\ place \in Signing /\ create'[c].guest = "off" => done \cap {"shut_down", "cut_off"} # {}
               /\ create'[c].guest # "off" => place \in Signing
               /\ place \in {"save", "record"} => Settled(create'[c].work)
      PROVE  WorkInOrder'
  BY <1>k DEF Only, Settled
<1>q. ASSUME NEW c \in Creators, Only(c), create'[c].at \notin {"boot", "save", "record"} \cup Signing,
             create'[c].guest = "off" \/ create'[c].guest = create[c].guest,
             create[c].at \notin Signing
      PROVE  WorkInOrder'
  BY <1>k, <1>q DEF Signing
<1>1. ASSUME NEW c \in Creators, LockFrame(c) \/ LockSize(c) PROVE WorkInOrder'
  BY <1>1, <1>q, GoesTo DEF LockFrame, LockSize, Framing, Given, Signing
<1>2. ASSUME NEW c \in Creators, LookForFrame(c) PROVE WorkInOrder'
  BY <1>2, <1>q, GoesTo, LooksAgain DEF LookForFrame, Signing, Given
<1>3. ASSUME NEW c \in Creators, ClearStale(c) PROVE WorkInOrder'
  <2>1. /\ create[c].at = "clear" /\ Only(c)
        /\ create'[c].at = "clear" /\ create'[c].guest = create[c].guest
    BY <1>3, Clears DEF ClearStale, FramingTypeOK
  <2>2. QED BY <1>q, <2>1 DEF Signing
<1>4. ASSUME NEW c \in Creators, CloneSource(c) PROVE WorkInOrder'
  BY <1>4, <1>q, ClonesSource DEF Signing
<1>5. ASSUME NEW c \in Creators, FrameDisk(c) PROVE WorkInOrder'
  <2>1. /\ create[c].at = "install" /\ Only(c) /\ create'[c].at = "boot"
        /\ create'[c].work.did = create[c].work.did \cup {"framed"}
        /\ create'[c].guest = create[c].guest
    BY <1>5, DoesThere DEF FrameDisk, Framing, UpTo, Deeds
  <2>2. create[c].guest = "off" BY <2>1 DEF Signing
  <2>3. QED BY <1>k, <2>1, <2>2 DEF Signing
<1>6. ASSUME NEW c \in Creators, DismissNotices(c) PROVE WorkInOrder'
  <2>1. /\ create[c].at = "notices" /\ Only(c) /\ create'[c].at = "displays"
        /\ create'[c].work.did = create[c].work.did \cup {"dismissed"}
        /\ create'[c].guest = create[c].guest
    BY <1>6, DoesThere DEF DismissNotices, Framing, Signing, Deeds
  <2>2. QED BY <1>k, <2>1 DEF Signing
<1>7. ASSUME NEW c \in Creators, ForgetDisplays(c) PROVE WorkInOrder'
  <2>1. /\ create[c].at = "displays" /\ Only(c) /\ create'[c].at = "shut_down"
        /\ create'[c].work.did = create[c].work.did \cup {"forgotten"}
        /\ create'[c].guest = create[c].guest
    BY <1>7, DoesThere DEF ForgetDisplays, Framing, Signing, Deeds
  <2>2. QED BY <1>k, <2>1 DEF Signing
<1>8. ASSUME NEW c \in Creators, BootOnce(c) PROVE WorkInOrder'
  <2>1. /\ create[c].at = "boot" /\ Only(c) /\ create'[c].at = "console"
        /\ create'[c].work = create[c].work /\ create'[c].guest = "starting"
    BY <1>8, Guests DEF BootOnce
  <2>2. QED BY <1>k, <2>1 DEF Signing
<1>9. ASSUME NEW c \in Creators, GuestGoesOn(c) PROVE WorkInOrder'
  <2>1. /\ create[c].guest # "off" /\ Only(c) /\ create'[c].at = create[c].at
        /\ create'[c].work = create[c].work /\ create'[c].guest # "off"
    BY <1>9, Guests DEF GuestGoesOn
  <2>2. QED BY <1>k, <2>1 DEF Signing
<1>10. ASSUME NEW c \in Creators, PowerLoss(c) \/ GuestGoesDown(c) PROVE WorkInOrder'
  <2>1. PICK d \in {"cut_off", "shut_down"} :
          /\ create[c].guest # "off" /\ Only(c) /\ create'[c].at = create[c].at
          /\ create'[c].work.did = create[c].work.did \cup {d} /\ create'[c].guest = "off"
    BY <1>10, GoesOff DEF PowerLoss, GuestGoesDown, Deeds
  <2>2. create[c].at \in Signing BY <2>1
  <2>3. QED BY <1>k, <2>1, <2>2 DEF Signing
<1>11. ASSUME NEW c \in Creators, SeeConsole(c) PROVE WorkInOrder'
  BY <1>11, <1>k, GoesTo DEF SeeConsole, Framing, Signing
<1>12. ASSUME NEW c \in Creators, ShutDown(c) PROVE WorkInOrder'
  BY <1>12, <1>k, GoesTo DEF ShutDown, Goes, Framing, Signing
<1>13. ASSUME NEW c \in Creators, Stopped(c) PROVE WorkInOrder'
  <2>1. /\ create[c].at = "await_down" /\ create[c].guest = "off"
        /\ Only(c) /\ create'[c].at = "save"
        /\ create'[c].work = create[c].work /\ create'[c].guest = "off"
    BY <1>13, GoesTo DEF Stopped, Framing
  <2>2. Settled(create[c].work) BY <2>1 DEF Settled, Signing
  <2>3. QED BY <1>k, <2>1, <2>2 DEF Signing
<1>14. ASSUME NEW c \in Creators, Save(c) PROVE WorkInOrder'
  <2>1. /\ create[c].at = "save" /\ Only(c) /\ create'[c].at = "record"
        /\ create'[c].work = create[c].work /\ create'[c].guest = create[c].guest
    BY <1>14, GoesTo DEF Save, Framing
  <2>2. create[c].guest = "off" /\ Settled(create[c].work) BY <2>1 DEF Signing
  <2>3. QED BY <1>k, <2>1, <2>2 DEF Signing
<1>15. ASSUME NEW c \in Creators, RecordFrame(c) \/ RenameSized(c) PROVE WorkInOrder'
  BY <1>15, <1>q, EndsAt DEF RecordFrame, RenameSized, Signing
<1>16. ASSUME NEW c \in Creators, LookForSize(c) PROVE WorkInOrder'
  BY <1>16, <1>q, GoesTo, EndsAt DEF LookForSize, Given, Signing
<1>17. ASSUME NEW c \in Creators, CloneFramed(c) PROVE WorkInOrder'
  BY <1>17, <1>q, ClonesFramed DEF Signing
<1>18. ASSUME NEW c \in Creators, CreateFails(c) PROVE WorkInOrder'
  <2>1. Only(c) /\ create'[c].at = "failed" /\ create'[c].guest = "off"
    BY <1>18, EndsAt DEF CreateFails
  <2>2. QED BY <1>k, <2>1 DEF Signing
<1>19. ASSUME NEW c \in Creators, AnotherCreate(c) PROVE WorkInOrder'
  BY <1>19, <1>q, Asks DEF AnotherCreate, Signing
<1>20. CASE StrayLands \/ OperatorRemoves
  BY <1>20 DEF StrayLands, OperatorRemoves, Settled
<1>21. QED
  BY <1>0, <1>1, <1>2, <1>3, <1>4, <1>5, <1>6, <1>7, <1>8, <1>9, <1>10, <1>11, <1>12, <1>13,
    <1>14, <1>15, <1>16, <1>17, <1>18, <1>19, <1>20 DEF FramingNext

(* What is kept, or will be by a tart that goes on, was saved by a create. *)
LEMMA KeptStep ==
  ASSUME FramingTypeOK, WorkInOrder, KeptAreSettled, [FramingNext]_framingVars
  PROVE  KeptAreSettled'
<1>0. CASE UNCHANGED <<framed, strays>> BY <1>0 DEF KeptAreSettled, Settled
<1>1. ASSUME NEW c \in Creators, Save(c) PROVE KeptAreSettled'
  <2>1. framed' = create[c].work /\ strays' = strays /\ Settled(create[c].work)
    BY <1>1 DEF Save, WorkInOrder
  <2>2. QED BY <2>1 DEF KeptAreSettled, Settled
<1>2. ASSUME NEW c \in Creators, CreateFails(c) PROVE KeptAreSettled'
  <2>1. framed' = framed BY <1>2 DEF CreateFails
  <2>2. \A tart \in Underway(c) : tart.name = TheOne => Settled(tart.image)
    BY LeavesTarts DEF WorkInOrder
  <2>3. \A tart \in strays' : tart \in strays \/ tart \in Underway(c) BY <1>2 DEF CreateFails
  <2>4. QED BY <2>1, <2>2, <2>3 DEF KeptAreSettled, Settled
<1>3. CASE StrayLands
  <2>1. PICK tart \in strays :
          /\ strays' = strays \ {tart}
          /\ framed' = IF tart.name = TheOne THEN tart.image ELSE framed
    BY <1>3 DEF StrayLands
  <2>2. NoImage' = NoImage BY DEF NoImage
  <2>3. QED BY <2>1, <2>2 DEF KeptAreSettled, Settled
<1>4. CASE OperatorRemoves
  <2>1. strays' = strays /\ (framed' = framed \/ framed' = NoImage) BY <1>4 DEF OperatorRemoves
  <2>2. NoImage' = NoImage BY DEF NoImage
  <2>3. QED BY <2>1, <2>2 DEF KeptAreSettled, Settled
<1>5. CASE \E c \in Creators :
             \/ LockFrame(c) \/ LookForFrame(c) \/ ClearStale(c) \/ CloneSource(c) \/ FrameDisk(c)
             \/ BootOnce(c) \/ GuestGoesOn(c) \/ PowerLoss(c) \/ SeeConsole(c) \/ DismissNotices(c)
             \/ ForgetDisplays(c) \/ ShutDown(c) \/ GuestGoesDown(c) \/ Stopped(c)
             \/ RecordFrame(c) \/ LockSize(c) \/ LookForSize(c) \/ CloneFramed(c) \/ RenameSized(c)
             \/ AnotherCreate(c)
  BY <1>0, <1>5 DEF LockFrame, LookForFrame, ClearStale, CloneSource, FrameDisk, BootOnce,
    GuestGoesOn, PowerLoss, SeeConsole, DismissNotices, ForgetDisplays, ShutDown, GuestGoesDown,
    Stopped, RecordFrame, LockSize, LookForSize, CloneFramed, RenameSized, AnotherCreate, NothingKept
<1>6. QED BY <1>0, <1>1, <1>2, <1>3, <1>4, <1>5 DEF FramingNext, framingVars

(* A step that changes nothing that is kept, and brings its create into no   *)
(* stage it was not in, disturbs nobody.                                     *)
LEMMA ForGoodKept ==
  ASSUME FramingTypeOK, FramedForGood, NothingKept, NEW c \in Creators, Only(c),
         create'[c].at \in Given => create[c].at \in Given,
         create'[c].at # "rename",
         create'[c].at \in {"clear", "save"} \cup UpTo \cup Signing =>
           /\ create[c].at \in {"clear", "save"} \cup UpTo \cup Signing
           /\ \/ create[c].at # "clear" \/ create[c].stale = {}
              \/ create'[c].at = "clear" /\ create'[c].stale = create[c].stale
  PROVE  FramedForGood'
<1> USE DEF FramedForGood, Only, NothingKept
<1>1. NoImage' = NoImage BY DEF NoImage
<1>2. SUFFICES ASSUME ~raced PROVE FramedForGood' OBVIOUS
<1>3. \A d \in Creators : create'[d].at \in Given => create[d].at \in Given /\ frameRecord' # "none"
  BY <1>2
<1>4. \A d \in Creators : create'[d].at = "rename" => create'[d].work = framed' /\ framed' # NoImage
  BY <1>2
<1>5. ASSUME NEW e \in Creators, create'[e].at \in {"clear", "save"} \cup UpTo \cup Signing
      PROVE  /\ (\E d \in Creators : create'[d].at \in Given) => framed' = NoImage
             /\ \A s \in Sizes : sized'[s] # NoImage => create'[e].at = "clear" /\ s \in create'[e].stale
  <2>1. create[e].at \in {"clear", "save"} \cup UpTo \cup Signing BY <1>5
  <2>2. (\E d \in Creators : create'[d].at \in Given) => framed' = NoImage BY <1>2, <1>3, <2>1
  <2>3. ASSUME NEW s \in Sizes, sized'[s] # NoImage
        PROVE  create'[e].at = "clear" /\ s \in create'[e].stale
    <3>1. create[e].at = "clear" /\ s \in create[e].stale BY <1>2, <2>1, <2>3
    <3>2. QED BY <1>5, <3>1
  <2>4. QED BY <2>2, <2>3
<1>6. QED BY <1>1, <1>2, <1>3, <1>4, <1>5

(* ... nor does one that only removes what is kept, or tears the record of a  *)
(* framing nobody was given.                                                 *)
LEMMA ForGoodStep ==
  ASSUME FramingTypeOK, FrameLockHeld, WorkInOrder, KeptAreSettled, FramedForGood,
         [FramingNext]_framingVars
  PROVE  FramedForGood'
<1> DEFINE Busy == {"clear", "save"} \cup UpTo \cup Signing
<1>0. CASE UNCHANGED framingVars BY <1>0 DEF framingVars, FramedForGood
<1>n. NoImage' = NoImage BY DEF NoImage
<1>b. Busy \cap Given = {} /\ Busy \subseteq Framing /\ "record" \notin Busy \cup Given
  BY DEF UpTo, Signing, Given, Framing
<1>1. ASSUME NEW c \in Creators,
             LockFrame(c) \/ LockSize(c) \/ SeeConsole(c) \/ ShutDown(c) \/ Stopped(c)
      PROVE  FramedForGood'
  BY <1>1, ForGoodKept, GoesTo DEF LockFrame, LockSize, SeeConsole, ShutDown, Stopped, Goes,
    Framing, UpTo, Signing, Given
<1>2. ASSUME NEW c \in Creators, LookForFrame(c) PROVE FramedForGood'
  <2>1. CASE frameRecord = "whole" /\ framed # NoImage
    <3>1. Only(c) /\ create'[c].at = "given" /\ NothingKept /\ create[c].at = "look"
      BY <1>2, <2>1, GoesTo DEF LookForFrame, Given
    <3>2. frameLock = c BY <3>1 DEF FrameLockHeld, Framing
    <3>3. \A e \in Creators : create'[e].at \notin Busy
      BY <1>b, <3>1, <3>2 DEF FrameLockHeld, Only, UpTo, Signing
    <3>4. \A e \in Creators : create'[e].at = "rename" =>
             create[e].at = "rename" /\ create'[e].work = create[e].work
      BY <3>1 DEF Only
    <3>5. QED BY <1>n, <2>1, <3>1, <3>3, <3>4 DEF FramedForGood, NothingKept
  <2>2. CASE ~(frameRecord = "whole" /\ framed # NoImage)
    <3>1. /\ Only(c) /\ create'[c].at = "clear" /\ create'[c].stale = Stale /\ NothingKept
          /\ create[c].at = "look" /\ frameRecord # "torn"
      BY <1>2, <2>2, LooksAgain DEF LookForFrame
    <3>2. frameLock = c BY <3>1 DEF FrameLockHeld, Framing
    <3>3. \A e \in Creators : create'[e].at \in Busy => e = c
      BY <1>b, <3>1, <3>2 DEF FrameLockHeld, Only
    <3>4. \A e \in Creators : create'[e].at \in Given =>
             create[e].at \in Given /\ create'[e] = create[e]
      BY <3>1 DEF Only, Given
    <3>5. frameRecord \in {"none", "whole"} BY <3>1 DEF FramingTypeOK
    <3>6. ~raced => ((\E d \in Creators : create'[d].at \in Given) => framed = NoImage)
      BY <2>2, <3>4, <3>5 DEF FramedForGood
    <3>7. \A s \in Sizes : sized[s] # NoImage => s \in create'[c].stale BY <3>1 DEF Stale
    <3>8. "rename" \in Given BY DEF Given
    <3>9. QED BY <1>n, <3>1, <3>3, <3>4, <3>6, <3>7, <3>8 DEF FramedForGood, NothingKept
  <2>3. QED BY <2>1, <2>2
<1>3. ASSUME NEW c \in Creators, ClearStale(c) PROVE FramedForGood'
  <2>1. PICK s \in create[c].stale :
           /\ sized[s] # NoImage /\ sized' = [sized EXCEPT ![s] = NoImage]
           /\ create' = [create EXCEPT ![c].stale = @ \ {s}]
    BY <1>3 DEF ClearStale
  <2>2. s \in Sizes /\ UNCHANGED <<framed, frameRecord, raced>> BY <1>3 DEF FramingTypeOK, ClearStale
  <2>3. /\ Only(c) /\ create'[c].at = create[c].at /\ create'[c].work = create[c].work
        /\ create'[c].stale = create[c].stale \ {s}
    BY <2>1, <2>2, Clears
  <2>4. \A e \in Creators : create'[e].at = create[e].at /\ create'[e].work = create[e].work
    BY <2>3 DEF Only
  <2>5. \A t \in Sizes : sized'[t] # NoImage => t # s /\ sized'[t] = sized[t]
    BY <2>1, <2>2 DEF FramingTypeOK
  <2>6. \A e \in Creators : \A t \in create[e].stale : t # s => t \in create'[e].stale
    BY <2>3 DEF Only
  <2>7. QED BY <1>n, <2>2, <2>4, <2>5, <2>6 DEF FramedForGood
<1>4. ASSUME NEW c \in Creators, CloneSource(c) PROVE FramedForGood'
  BY <1>4, ForGoodKept, ClonesSource DEF CloneSource, UpTo, Given
<1>5. ASSUME NEW c \in Creators, FrameDisk(c) \/ DismissNotices(c) \/ ForgetDisplays(c)
      PROVE  FramedForGood'
  BY <1>5, ForGoodKept, DoesThere DEF FrameDisk, DismissNotices, ForgetDisplays, Framing, UpTo,
    Signing, Given, Deeds
<1>6. ASSUME NEW c \in Creators, BootOnce(c) PROVE FramedForGood'
  BY <1>6, ForGoodKept, Guests DEF BootOnce, UpTo, Signing, Given
<1>7. ASSUME NEW c \in Creators, GuestGoesOn(c) \/ PowerLoss(c) \/ GuestGoesDown(c)
      PROVE  FramedForGood'
  <2>1. Only(c) /\ create'[c].at = create[c].at /\ NothingKept /\ create[c].guest # "off"
    BY <1>7, Guests, GoesOff DEF GuestGoesOn, PowerLoss, GuestGoesDown, Deeds
  <2>2. create[c].at \in Signing BY <2>1 DEF WorkInOrder
  <2>3. QED BY <2>1, <2>2, ForGoodKept DEF Signing, Given
<1>8. ASSUME NEW c \in Creators, Save(c) PROVE FramedForGood'
  <2>1. /\ create[c].at = "save" /\ Only(c) /\ create'[c].at = "record"
        /\ UNCHANGED <<sized, frameRecord, raced>>
    BY <1>8, GoesTo DEF Save, Framing
  <2>2. \A e \in Creators : create'[e].at \notin Busy
    BY <1>b, <2>1 DEF FrameLockHeld, Only, UpTo, Signing, Framing
  <2>3. \A e \in Creators : create'[e].at \in Given => create[e].at \in Given
    BY <1>b, <2>1 DEF Only
  <2>4. ~raced => \A e \in Creators : create[e].at # "rename" BY <2>1 DEF FramedForGood, Given
  <2>5. ~raced => \A s \in Sizes : sized[s] = NoImage BY <2>1 DEF FramedForGood
  <2>6. \A e \in Creators : create'[e].at = "rename" => create[e].at = "rename" BY <2>1 DEF Only
  <2>7. QED BY <1>n, <2>1, <2>2, <2>3, <2>4, <2>5, <2>6 DEF FramedForGood
<1>9. ASSUME NEW c \in Creators, RecordFrame(c) PROVE FramedForGood'
  <2>1. /\ create[c].at = "record" /\ Only(c) /\ create'[c].at = "given"
        /\ UNCHANGED <<framed, sized, raced>> /\ frameRecord' = "whole"
    BY <1>9, EndsAt DEF RecordFrame
  <2>2. \A e \in Creators : create'[e].at \notin Busy
    BY <1>b, <2>1 DEF FrameLockHeld, Only, UpTo, Signing, Framing
  <2>3. \A e \in Creators : create'[e].at = "rename" =>
           create[e].at = "rename" /\ create'[e].work = create[e].work
    BY <2>1 DEF Only
  <2>4. QED BY <1>n, <2>1, <2>2, <2>3 DEF FramedForGood
<1>10. ASSUME NEW c \in Creators, LookForSize(c) PROVE FramedForGood'
  BY <1>10, ForGoodKept, GoesTo, EndsAt DEF LookForSize, UpTo, Signing, Given
<1>11. ASSUME NEW c \in Creators, CloneFramed(c) PROVE FramedForGood'
  <2>1. NothingKept BY <1>11 DEF CloneFramed
  <2>2. \A e \in Creators : create'[e].at \in Given => create[e].at \in Given
    BY <1>11, ClonesFramed DEF Only, Given
  <2>3. \A e \in Creators \ {c} : create'[e] = create[e] BY <1>11, ClonesFramed DEF Only
  <2>4. /\ framed # NoImage /\ create[c].at \in Given
        /\ create'[c].at = "rename" /\ create'[c].work = framed
    BY <1>11, ClonesFramed DEF Given
  <2>5. \A e \in Creators : create'[e].at \in Busy => e # c
    BY <2>4 DEF UpTo, Signing
  <2>6. QED BY <1>n, <2>1, <2>2, <2>3, <2>4, <2>5 DEF FramedForGood, NothingKept
<1>12. ASSUME NEW c \in Creators, RenameSized(c) PROVE FramedForGood'
  <2>1. /\ create[c].at = "rename" /\ Only(c) /\ create'[c].at = "booting"
        /\ UNCHANGED <<framed, frameRecord, raced>>
        /\ sized' = [sized EXCEPT ![SizeOf(c)] = create[c].work]
    BY <1>12, EndsAt DEF RenameSized
  <2>2. "booting" \notin Busy \cup Given BY DEF UpTo, Signing, Given
  <2>3. \A e \in Creators : create'[e].at \in Busy \cup Given => create'[e] = create[e] /\ e # c
    BY <2>1, <2>2 DEF Only
  <2>4. ~raced => create[c].work = framed /\ framed # NoImage BY <2>1 DEF FramedForGood
  <2>5. ~raced => \A e \in Creators : create'[e].at \notin Busy
    BY <2>1, <2>3, <2>4 DEF FramedForGood, Given
  <2>6. \A s \in Sizes : sized'[s] = sized[s] \/ sized'[s] = create[c].work
    BY <2>1 DEF FramingTypeOK
  <2>7. "rename" \in Given BY DEF Given
  <2>8. QED BY <1>n, <2>1, <2>3, <2>4, <2>5, <2>6, <2>7 DEF FramedForGood
<1>13. ASSUME NEW c \in Creators, CreateFails(c) PROVE FramedForGood'
  <2>1. Only(c) /\ create'[c].at = "failed" /\ UNCHANGED <<framed, sized, raced>>
    BY <1>13, EndsAt DEF CreateFails
  <2>2. "failed" \notin Busy \cup Given BY DEF UpTo, Signing, Given
  <2>3. \A e \in Creators : create'[e].at \in Busy \cup Given => create'[e] = create[e]
    BY <2>1, <2>2 DEF Only
  <2>4. frameRecord' = frameRecord \/ frameRecord' = "torn" BY <1>13 DEF CreateFails
  <2>5. "rename" \in Given BY DEF Given
  <2>6. QED BY <1>n, <2>1, <2>3, <2>4, <2>5 DEF FramedForGood
<1>14. ASSUME NEW c \in Creators, AnotherCreate(c) PROVE FramedForGood'
  BY <1>14, ForGoodKept, Asks DEF AnotherCreate, UpTo, Signing, Given
<1>15. CASE StrayLands BY <1>15 DEF StrayLands, FramedForGood
<1>16. CASE OperatorRemoves
  <2>1. create' = create /\ raced' = (raced \/ Cloning) BY <1>16 DEF OperatorRemoves
  <2>2. ~raced' => ~raced /\ \A e \in Creators : create[e].at \notin Given
    BY <2>1 DEF Cloning, Given
  <2>3. framed' = framed \/ framed' = NoImage BY <1>16 DEF OperatorRemoves
  <2>4. \A s \in Sizes : sized'[s] = sized[s] \/ sized'[s] = NoImage
    BY <1>16 DEF OperatorRemoves, FramingTypeOK
  <2>5. "rename" \in Given BY DEF Given
  <2>6. QED BY <1>n, <2>1, <2>2, <2>3, <2>4, <2>5 DEF FramedForGood
<1>17. QED
  BY <1>0, <1>1, <1>2, <1>3, <1>4, <1>5, <1>6, <1>7, <1>8, <1>9, <1>10, <1>11, <1>12, <1>13,
    <1>14, <1>15, <1>16 DEF FramingNext

(* What is inductive of framing: its lock, the order of the deeds done to
   a clone, and that nobody frames while another create clones what is
   framed (frame, size). *)
THEOREM FramingInvariantHolds == FramingSpec => []FramingInvariant
<1>1. ASSUME FramingInit PROVE FramingInvariant
  <2>1. NoImage \in Images /\ Earlier \in Images /\ Settled(Earlier)
    BY DEF NoImage, Earlier, Images, Deeds, Settled
  <2>2. \A c \in Creators : /\ create[c].at = "ask" /\ create[c].guest = "off"
    BY <1>1 DEF FramingInit
  <2>3. FramingTypeOK BY <1>1, <2>1 DEF FramingInit, FramingTypeOK
  <2>4. FrameLockHeld /\ WorkInOrder
    BY <2>2 DEF FrameLockHeld, WorkInOrder, Framing, UpTo, Signing
  <2>5. KeptAreSettled BY <1>1, <2>1 DEF FramingInit, KeptAreSettled
  <2>6. \A s \in Sizes : sized[s] # NoImage /\ framed # NoImage => sized[s] = framed
    BY <1>1 DEF FramingInit
  <2>7. FramedForGood BY <2>2, <2>6 DEF FramedForGood, Given, UpTo, Signing
  <2>8. QED BY <2>3, <2>4, <2>5, <2>7 DEF FramingInvariant
<1>2. FramingInvariant /\ [FramingNext]_framingVars => FramingInvariant'
  BY FramingTypeStep, FrameLockStep, WorkStep, KeptStep, ForGoodStep DEF FramingInvariant
<1>3. QED BY <1>1, <1>2, PTL DEF FramingSpec

(* What is kept as framed was signed in, cleared of notices and shut
   down, and what boots at a resolution is a clone of it, however many
   creates failed half way. *)
THEOREM FramesAreSettledHolds == FramingSpec => []FramesAreSettled
<1>1. FramingInvariant => FramesAreSettled
  BY DEF FramingInvariant, KeptAreSettled, Settled, FramedForGood, FramesAreSettled
<1>2. QED BY <1>1, FramingInvariantHolds, PTL
=============================================================================
