-------------------------- MODULE RunLedgerProofs --------------------------
(***************************************************************************)
(* Theorems about RunLedger: for any number of invocations, episodes and   *)
(* attempts, whatever is killed and whatever overlaps.  The inductive      *)
(* invariant is LedgerInvariant; each of its parts has a lemma with one    *)
(* step per action.                                                        *)
(***************************************************************************)
EXTENDS RunLedger, FiniteSetTheorems, TLAPS

(* Every step keeps the types. *)
LEMMA TypeStep ==
  ASSUME LedgerAssumption, LedgerTypeOK, DirectoriesFollowTasks, [LedgerNext]_ledgerVars
  PROVE  LedgerTypeOK'
<1>1. ASSUME NEW h \in Hosts, Open(h) PROVE LedgerTypeOK'
  BY <1>1 DEF Open, hostVars, taskVars, LedgerTypeOK, Holding, Statuses, Endings, Inside, Records,
    Attempts, HasResult, ResultOf, DirectoriesFollowTasks, DirectoryFollowsTask, Live
<1>2. ASSUME NEW h \in Hosts, NEW e \in Episodes, ReadResult(h, e) PROVE LedgerTypeOK'
  <2>1. unread' \in [Hosts -> SUBSET Episodes]
    BY <1>2 DEF ReadResult, LedgerTypeOK
  <2>2. HasResult(e) => ResultOf(e) \in Endings
    BY DEF HasResult, ResultOf, LedgerTypeOK, Holding, Records, Attempts, Endings,
           DirectoriesFollowTasks, DirectoryFollowsTask, Live
  <2>3. held \in [Hosts -> {NoRow} \cup [episode: Episodes, status: Endings]]
    BY DEF LedgerTypeOK
  <2>4. held' \in [Hosts -> {NoRow} \cup [episode: Episodes, status: Endings]]
    <3>1. CASE HasResult(e)
      <4>1. [episode |-> e, status |-> ResultOf(e)] \in [episode: Episodes, status: Endings]
        BY <2>2, <3>1
      <4>2. held' = [held EXCEPT ![h] = [episode |-> e, status |-> ResultOf(e)]]
        BY <1>2, <3>1 DEF ReadResult
      <4>3. QED BY <2>3, <4>1, <4>2
    <3>2. CASE ~HasResult(e)
      BY <1>2, <2>3, <3>2 DEF ReadResult
    <3>3. QED BY <3>1, <3>2
  <2>5. QED BY <1>2, <2>1, <2>4 DEF ReadResult, taskVars, LedgerTypeOK
<1>3. ASSUME NEW h \in Hosts, ProjectResult(h) PROVE LedgerTypeOK'
  <2>1. held[h] \in [episode: Episodes, status: Endings]
    BY <1>3 DEF ProjectResult, LedgerTypeOK
  <2>2. row' \in [Episodes -> [status: Statuses, phase: BOOLEAN]]
    <3>1. row \in [Episodes -> [status: Statuses, phase: BOOLEAN]]
      BY DEF LedgerTypeOK
    <3>2. held[h].episode \in Episodes /\ held[h].status \in Statuses
      BY <2>1 DEF Statuses
    <3>3. [status |-> held[h].status, phase |-> FALSE] \in [status: Statuses, phase: BOOLEAN]
      BY <3>2
    <3>4. QED BY <1>3, <3>1, <3>2, <3>3 DEF ProjectResult
  <2>3. held' \in [Hosts -> {NoRow} \cup [episode: Episodes, status: Endings]]
    BY <1>3 DEF ProjectResult, LedgerTypeOK
  <2>4. QED BY <1>3, <2>2, <2>3 DEF ProjectResult, taskVars, LedgerTypeOK
<1>4. ASSUME NEW h \in Hosts, InterruptStaleRows(h) PROVE LedgerTypeOK'
  <2>1. row \in [Episodes -> [status: Statuses, phase: BOOLEAN]]
    BY DEF LedgerTypeOK
  <2>2. [status |-> "interrupted", phase |-> FALSE] \in [status: Statuses, phase: BOOLEAN]
    BY DEF Statuses
  <2>3. row' \in [Episodes -> [status: Statuses, phase: BOOLEAN]]
    BY <1>4, <2>1, <2>2 DEF InterruptStaleRows
  <2>4. host' \in [Hosts -> {"new", "reconcile", "count", "queue", "run", "ended", "killed"}]
    BY <1>4 DEF InterruptStaleRows, LedgerTypeOK
  <2>5. QED BY <1>4, <2>3, <2>4 DEF InterruptStaleRows, taskVars, LedgerTypeOK
<1>5. ASSUME NEW h \in Hosts, CountDone(h) PROVE LedgerTypeOK'
  <2>1. IsFiniteSet(Done) /\ IsFiniteSet(Fresh)
    BY FS_Subset DEF LedgerAssumption, Done, Fresh
  <2>2. Cardinality(Done) \in Nat
    BY <2>1, FS_CardinalityType
  <2>3. \A a, b \in Nat : Beyond(a, b) \in Nat
    BY DEF Beyond
  <2>4. PICK n \in Counts :
          \/ /\ left' = [left EXCEPT ![h] = Beyond(n, Cardinality(Done))]
             /\ goal' = goal + Beyond(n, goal)
          \/ /\ left' = [left EXCEPT ![h] = n]
             /\ goal' = goal + n
    BY <1>5 DEF CountDone
  <2>5. n \in Nat /\ goal \in Nat
    BY DEF LedgerTypeOK, LedgerAssumption
  <2>6. Beyond(n, Cardinality(Done)) \in Nat /\ Beyond(n, goal) \in Nat
    BY <2>2, <2>3, <2>5
  <2>7. goal' \in Nat
    BY <2>4, <2>5, <2>6
  <2>8. left' \in [Hosts -> Nat]
    BY <2>4, <2>5, <2>6 DEF LedgerTypeOK
  <2>9. QED
    BY <1>5, <2>7, <2>8 DEF CountDone, taskVars, LedgerTypeOK
<1>6. ASSUME NEW h \in Hosts, NEW e \in Episodes, QueueEpisode(h, e) PROVE LedgerTypeOK'
  <2>1. e \in Episodes /\ left[h] > 0 /\ left \in [Hosts -> Nat]
    BY <1>6 DEF QueueEpisode, LedgerTypeOK
  <2>2. left' \in [Hosts -> Nat]
    BY <1>6, <2>1 DEF QueueEpisode
  <2>3. owner' \in [Episodes -> Hosts \cup {NoHost}]
    BY <1>6 DEF QueueEpisode, LedgerTypeOK
  <2>4. row' \in [Episodes -> [status: Statuses, phase: BOOLEAN]]
    <3>1. [status |-> "queued", phase |-> FALSE] \in [status: Statuses, phase: BOOLEAN]
      BY DEF Statuses
    <3>2. QED BY <1>6, <3>1 DEF QueueEpisode, LedgerTypeOK
  <2>5. task' \in [Episodes -> Inside \cup {"none", "waiting", "settled", "done", "raised"}]
    BY <1>6 DEF QueueEpisode, LedgerTypeOK
  <2>6. QED BY <1>6, <2>2, <2>3, <2>4, <2>5 DEF QueueEpisode, LedgerTypeOK
<1>7. ASSUME NEW h \in Hosts, StartEpisodes(h) PROVE LedgerTypeOK'
  BY <1>7 DEF StartEpisodes, hostVars, taskVars, LedgerTypeOK, Holding, Statuses, Endings, Inside,
    Records, Attempts, HasResult, ResultOf, DirectoriesFollowTasks,
    DirectoryFollowsTask, Live
<1>8. ASSUME NEW h \in Hosts, NEW e \in Episodes, MarkRunning(h, e) PROVE LedgerTypeOK'
  BY <1>8 DEF MarkRunning, Running, Begin, hostVars, taskVars, LedgerTypeOK, Holding, Statuses,
    Endings, Inside, Records, Attempts, HasResult, ResultOf, DirectoriesFollowTasks,
    DirectoryFollowsTask, Live
<1>9. ASSUME NEW h \in Hosts, NEW e \in Episodes, UpdatePhase(h, e) PROVE LedgerTypeOK'
  <2>1. row' \in [Episodes -> [status: Statuses, phase: BOOLEAN]]
    <3>1. row \in [Episodes -> [status: Statuses, phase: BOOLEAN]]
      BY DEF LedgerTypeOK
    <3>2. [row[e] EXCEPT !.phase = TRUE] \in [status: Statuses, phase: BOOLEAN]
      BY <3>1
    <3>3. QED BY <1>9, <3>1, <3>2 DEF UpdatePhase
  <2>2. QED
    BY <1>9, <2>1 DEF UpdatePhase, hostVars, taskVars, LedgerTypeOK
<1>10. ASSUME NEW h \in Hosts, NEW e \in Episodes, WriteLock(h, e) PROVE LedgerTypeOK'
  BY <1>10 DEF WriteLock, Running, hostVars, taskVars, LedgerTypeOK, Holding, Statuses, Endings,
    Inside, Records, Attempts, HasResult, ResultOf, DirectoriesFollowTasks,
    DirectoryFollowsTask, Live
<1>11. ASSUME NEW h \in Hosts, NEW e \in Episodes, WriteResult(h, e) PROVE LedgerTypeOK'
  BY <1>11 DEF WriteResult, Running, hostVars, taskVars, LedgerTypeOK, Holding, Statuses, Endings,
    Inside, Records, Attempts, HasResult, ResultOf, DirectoriesFollowTasks,
    DirectoryFollowsTask, Live
<1>12. ASSUME NEW h \in Hosts, NEW e \in Episodes, MakeArchive(h, e) PROVE LedgerTypeOK'
  BY <1>12 DEF MakeArchive, Running, IsLast, hostVars, taskVars, LedgerTypeOK, Holding, Statuses,
    Endings, Inside, Records, Attempts, HasResult, ResultOf, DirectoriesFollowTasks,
    DirectoryFollowsTask, Live
<1>13. ASSUME NEW h \in Hosts, NEW e \in Episodes, NEW r \in Records, ArchiveRecord(h, e, r) PROVE LedgerTypeOK'
  <2>1. /\ archive \in [Episodes -> [Attempts -> Holding]] /\ current \in [Episodes -> Holding]
        /\ attempt[e] \in Attempts
    BY <1>13 DEF ArchiveRecord, LedgerTypeOK, DirectoriesFollowTasks, DirectoryFollowsTask, Live, Inside
  <2>2. current[e][r] \in Attempts \cup {0}
    BY <2>1 DEF Holding
  <2>3. archive' \in [Episodes -> [Attempts -> Holding]]
    <3>1. [archive[e][attempt[e]] EXCEPT ![r] = current[e][r]] \in Holding
      BY <2>1, <2>2 DEF Holding
    <3>2. QED BY <1>13, <2>1, <3>1 DEF ArchiveRecord
  <2>4. current' \in [Episodes -> Holding]
    BY <1>13, <2>1 DEF ArchiveRecord, Holding
  <2>5. QED BY <1>13, <2>3, <2>4 DEF ArchiveRecord, hostVars, LedgerTypeOK
<1>14. ASSUME NEW h \in Hosts, NEW e \in Episodes, Retry(h, e) PROVE LedgerTypeOK'
  <2>1. attempt[e] \in Attempts /\ attempt[e] < Retries + 1
    BY <1>14 DEF Retry, DirectoriesFollowTasks, DirectoryFollowsTask, Live, Inside
  <2>2. attempt[e] + 1 \in Attempts
    BY <2>1 DEF Attempts, LedgerAssumption
  <2>3. task' \in [Episodes -> Inside \cup {"none", "waiting", "settled", "done", "raised"}]
    BY <1>14 DEF Retry, Begin, LedgerTypeOK, Inside
  <2>4. attempt' \in [Episodes -> Attempts \cup {0}]
    BY <1>14, <2>2 DEF Retry, Begin, LedgerTypeOK
  <2>5. QED
    BY <1>14, <2>3, <2>4 DEF Retry, hostVars, LedgerTypeOK
<1>15. ASSUME NEW h \in Hosts, NEW e \in Episodes, LeaveGate(h, e) PROVE LedgerTypeOK'
  BY <1>15 DEF LeaveGate, Running, IsLast, hostVars, taskVars, LedgerTypeOK, Holding, Statuses,
    Endings, Inside, Records, Attempts, HasResult, ResultOf, DirectoriesFollowTasks,
    DirectoryFollowsTask, Live
<1>16. ASSUME NEW h \in Hosts, NEW e \in Episodes, FinishEpisode(h, e) PROVE LedgerTypeOK'
  BY <1>16 DEF FinishEpisode, Running, hostVars, taskVars, LedgerTypeOK, Holding, Statuses, Endings,
    Inside, Records, Attempts, HasResult, ResultOf, DirectoriesFollowTasks,
    DirectoryFollowsTask, Live
<1>17. ASSUME NEW h \in Hosts, NEW e \in Episodes, Raise(h, e) PROVE LedgerTypeOK'
  BY <1>17 DEF Raise, Running, hostVars, taskVars, LedgerTypeOK, Holding, Statuses, Endings, Inside,
    Records, Attempts, HasResult, ResultOf, DirectoriesFollowTasks,
    DirectoryFollowsTask, Live
<1>18. ASSUME NEW h \in Hosts, Close(h) PROVE LedgerTypeOK'
  BY <1>18 DEF Close, hostVars, taskVars, LedgerTypeOK, Holding, Statuses, Endings, Inside, Records,
    Attempts, HasResult, ResultOf, DirectoriesFollowTasks, DirectoryFollowsTask, Live
<1>19. ASSUME NEW h \in Hosts, Kill(h) PROVE LedgerTypeOK'
  BY <1>19 DEF Kill, hostVars, taskVars, LedgerTypeOK, Holding, Statuses, Endings, Inside, Records,
    Attempts, HasResult, ResultOf, DirectoriesFollowTasks, DirectoryFollowsTask, Live
<1>20. CASE UNCHANGED ledgerVars
  BY <1>20 DEF ledgerVars, hostVars, taskVars, LedgerTypeOK, Holding, Statuses, Endings, Inside, Records,
    Attempts, HasResult, ResultOf, DirectoriesFollowTasks, DirectoryFollowsTask, Live
<1>21. QED
  BY <1>1, <1>2, <1>3, <1>4, <1>5, <1>6, <1>7, <1>8, <1>9, <1>10, <1>11, <1>12, <1>13,
    <1>14, <1>15, <1>16, <1>17, <1>18, <1>19, <1>20 DEF LedgerNext, OpenStep, EpisodeStep

(* A live task has a live invocation, and every id drawn has a row. *)
LEMMA TasksStep ==
  ASSUME LedgerAssumption, LedgerTypeOK, TasksFollowHosts, HeldRowsExist,
         DirectoriesFollowTasks, [LedgerNext]_ledgerVars
  PROVE  TasksFollowHosts'
<1>1. ASSUME NEW h \in Hosts, Open(h) PROVE TasksFollowHosts'
  BY <1>1 DEF Open, hostVars, taskVars, LedgerTypeOK, TasksFollowHosts, TaskFollowsHost, HeldRowsExist,
    Live, Inside, Endings, Statuses
<1>2. ASSUME NEW h \in Hosts, NEW e \in Episodes, ReadResult(h, e) PROVE TasksFollowHosts'
  BY <1>2 DEF ReadResult, hostVars, taskVars, LedgerTypeOK, TasksFollowHosts, TaskFollowsHost,
    HeldRowsExist, Live, Inside, Endings, Statuses
<1>3. ASSUME NEW h \in Hosts, ProjectResult(h) PROVE TasksFollowHosts'
  <2>1. held[h].episode \in Episodes /\ held[h].status \in Endings
    BY <1>3 DEF ProjectResult, LedgerTypeOK
  <2>2. row[held[h].episode].status # "none" /\ held[h].status # "none"
    BY <1>3, <2>1 DEF ProjectResult, HeldRowsExist, Endings
  <2>3. \A e \in Episodes : row'[e].status = "none" <=> row[e].status = "none"
    BY <1>3, <2>1, <2>2 DEF ProjectResult, LedgerTypeOK
  <2>4. QED
    BY <1>3, <2>3 DEF ProjectResult, taskVars, TasksFollowHosts, TaskFollowsHost
<1>4. ASSUME NEW h \in Hosts, InterruptStaleRows(h) PROVE TasksFollowHosts'
  BY <1>4 DEF InterruptStaleRows, hostVars, taskVars, LedgerTypeOK, TasksFollowHosts, TaskFollowsHost,
    HeldRowsExist, Live, Inside, Endings, Statuses
<1>5. ASSUME NEW h \in Hosts, CountDone(h) PROVE TasksFollowHosts'
  BY <1>5 DEF CountDone, hostVars, taskVars, LedgerTypeOK, TasksFollowHosts, TaskFollowsHost,
    HeldRowsExist, Live, Inside, Endings, Statuses
<1>6. ASSUME NEW h \in Hosts, NEW e \in Episodes, QueueEpisode(h, e) PROVE TasksFollowHosts'
  <2>1. owner'[e] = h /\ row'[e].status = "queued" /\ task'[e] = "waiting"
        /\ host' = host /\ host[h] = "queue" /\ h # NoHost
    <3>1. h # NoHost
      BY LedgerAssumption DEF LedgerAssumption
    <3>2. owner'[e] = h
      BY <1>6 DEF QueueEpisode, LedgerTypeOK
    <3>3. row'[e] = [status |-> "queued", phase |-> FALSE]
      BY <1>6 DEF QueueEpisode, LedgerTypeOK
    <3>4. task'[e] = "waiting"
      BY <1>6 DEF QueueEpisode, LedgerTypeOK
    <3>5. host' = host /\ host[h] = "queue"
      BY <1>6 DEF QueueEpisode
    <3>6. QED
      BY <3>1, <3>2, <3>3, <3>4, <3>5
  <2>2. TaskFollowsHost(e)'
    BY <2>1 DEF TaskFollowsHost, Live, Inside
  <2>3. ASSUME NEW f \in Episodes \ {e} PROVE TaskFollowsHost(f)'
    <3>1. owner'[f] = owner[f] /\ row'[f] = row[f] /\ task'[f] = task[f]
      BY <1>6 DEF QueueEpisode, LedgerTypeOK
    <3>2. QED
      BY <2>1, <3>1 DEF TasksFollowHosts, TaskFollowsHost
  <2>4. QED
    BY <2>2, <2>3 DEF TasksFollowHosts
<1>7. ASSUME NEW h \in Hosts, StartEpisodes(h) PROVE TasksFollowHosts'
  BY <1>7 DEF StartEpisodes, hostVars, taskVars, LedgerTypeOK, TasksFollowHosts, TaskFollowsHost,
    HeldRowsExist, Live, Inside, Endings, Statuses
<1>8. ASSUME NEW h \in Hosts, NEW e \in Episodes, MarkRunning(h, e) PROVE TasksFollowHosts'
  BY <1>8 DEF MarkRunning, Running, Begin, hostVars, taskVars, LedgerTypeOK, TasksFollowHosts,
    TaskFollowsHost, HeldRowsExist, Live, Inside, Endings, Statuses
<1>9. ASSUME NEW h \in Hosts, NEW e \in Episodes, UpdatePhase(h, e) PROVE TasksFollowHosts'
  BY <1>9 DEF UpdatePhase, Running, hostVars, taskVars, LedgerTypeOK, TasksFollowHosts,
    TaskFollowsHost, HeldRowsExist, Live, Inside, Endings, Statuses
<1>10. ASSUME NEW h \in Hosts, NEW e \in Episodes, WriteLock(h, e) PROVE TasksFollowHosts'
  BY <1>10 DEF WriteLock, hostVars, taskVars, LedgerTypeOK, TasksFollowHosts, TaskFollowsHost,
    HeldRowsExist, Live, Inside, Endings, Statuses
<1>11. ASSUME NEW h \in Hosts, NEW e \in Episodes, WriteResult(h, e) PROVE TasksFollowHosts'
  BY <1>11 DEF WriteResult, Running, hostVars, taskVars, LedgerTypeOK, TasksFollowHosts,
    TaskFollowsHost, HeldRowsExist, Live, Inside, Endings, Statuses
<1>12. ASSUME NEW h \in Hosts, NEW e \in Episodes, MakeArchive(h, e) PROVE TasksFollowHosts'
  BY <1>12 DEF MakeArchive, Running, IsLast, hostVars, taskVars, LedgerTypeOK, TasksFollowHosts,
    TaskFollowsHost, HeldRowsExist, Live, Inside, Endings, Statuses
<1>13. ASSUME NEW h \in Hosts, NEW e \in Episodes, NEW r \in Records, ArchiveRecord(h, e, r) PROVE TasksFollowHosts'
  BY <1>13 DEF ArchiveRecord, hostVars, taskVars, LedgerTypeOK, TasksFollowHosts, TaskFollowsHost,
    HeldRowsExist, Live, Inside, Endings, Statuses
<1>14. ASSUME NEW h \in Hosts, NEW e \in Episodes, Retry(h, e) PROVE TasksFollowHosts'
  BY <1>14 DEF Retry, Running, Begin, hostVars, taskVars, LedgerTypeOK, TasksFollowHosts,
    TaskFollowsHost, HeldRowsExist, Live, Inside, Endings, Statuses
<1>15. ASSUME NEW h \in Hosts, NEW e \in Episodes, LeaveGate(h, e) PROVE TasksFollowHosts'
  BY <1>15 DEF LeaveGate, Running, IsLast, hostVars, taskVars, LedgerTypeOK, TasksFollowHosts,
    TaskFollowsHost, HeldRowsExist, Live, Inside, Endings, Statuses
<1>16. ASSUME NEW h \in Hosts, NEW e \in Episodes, FinishEpisode(h, e) PROVE TasksFollowHosts'
  <2>1. outcome[e][attempt[e]] \in Endings
    BY <1>16 DEF FinishEpisode, Running, DirectoriesFollowTasks, DirectoryFollowsTask, HasResult, ResultOf, Live, Inside,
      Records
  <2>2. row'[e].status \in Endings /\ \A f \in Episodes \ {e} : row'[f] = row[f]
    BY <1>16, <2>1 DEF FinishEpisode, LedgerTypeOK
  <2>3. row[e].status # "none" /\ task[e] = "settled"
    BY <1>16 DEF FinishEpisode, Running, TasksFollowHosts, TaskFollowsHost, LedgerAssumption
  <2>4. task' = [task EXCEPT ![e] = "done"] /\ owner' = owner /\ host' = host
    BY <1>16 DEF FinishEpisode, hostVars
  <2>5. QED
    BY <2>2, <2>3, <2>4 DEF LedgerTypeOK, TasksFollowHosts, TaskFollowsHost, Live, Inside, Endings
<1>17. ASSUME NEW h \in Hosts, NEW e \in Episodes, Raise(h, e) PROVE TasksFollowHosts'
  BY <1>17 DEF Raise, Running, hostVars, taskVars, LedgerTypeOK, TasksFollowHosts, TaskFollowsHost,
    HeldRowsExist, Live, Inside, Endings, Statuses
<1>18. ASSUME NEW h \in Hosts, Close(h) PROVE TasksFollowHosts'
  BY <1>18 DEF Close, Of, taskVars, LedgerTypeOK, TasksFollowHosts, TaskFollowsHost, Live, Inside
<1>19. ASSUME NEW h \in Hosts, Kill(h) PROVE TasksFollowHosts'
  BY <1>19 DEF Kill, Of, Alive, LedgerTypeOK, TasksFollowHosts, TaskFollowsHost, Live, Inside, LedgerAssumption
<1>20. CASE UNCHANGED ledgerVars
  BY <1>20 DEF ledgerVars, hostVars, taskVars, LedgerTypeOK, TasksFollowHosts, TaskFollowsHost, HeldRowsExist,
    Live, Inside, Endings, Statuses
<1>21. QED
  BY <1>1, <1>2, <1>3, <1>4, <1>5, <1>6, <1>7, <1>8, <1>9, <1>10, <1>11, <1>12, <1>13,
    <1>14, <1>15, <1>16, <1>17, <1>18, <1>19, <1>20 DEF LedgerNext, OpenStep, EpisodeStep

(* Records follow the attempt that wrote them. *)
LEMMA DirectoriesStep ==
  ASSUME LedgerAssumption, LedgerTypeOK, TasksFollowHosts, DirectoriesFollowTasks, [LedgerNext]_ledgerVars
  PROVE  DirectoriesFollowTasks'
<1>1. ASSUME NEW h \in Hosts, Open(h) PROVE DirectoriesFollowTasks'
  BY <1>1 DEF Open, hostVars, taskVars, LedgerTypeOK, DirectoriesFollowTasks, DirectoryFollowsTask,
    HasResult, ResultOf, Live, Inside, Endings, Records, Attempts, Holding, Empty
<1>2. ASSUME NEW h \in Hosts, NEW e \in Episodes, ReadResult(h, e) PROVE DirectoriesFollowTasks'
  BY <1>2 DEF ReadResult, hostVars, taskVars, LedgerTypeOK, DirectoriesFollowTasks,
    DirectoryFollowsTask, HasResult, ResultOf, Live, Inside, Endings, Records,
    Attempts, Holding, Empty
<1>3. ASSUME NEW h \in Hosts, ProjectResult(h) PROVE DirectoriesFollowTasks'
  BY <1>3 DEF ProjectResult, hostVars, taskVars, LedgerTypeOK, DirectoriesFollowTasks,
    DirectoryFollowsTask, HasResult, ResultOf, Live, Inside, Endings, Records,
    Attempts, Holding, Empty
<1>4. ASSUME NEW h \in Hosts, InterruptStaleRows(h) PROVE DirectoriesFollowTasks'
  BY <1>4 DEF InterruptStaleRows, hostVars, taskVars, LedgerTypeOK, DirectoriesFollowTasks,
    DirectoryFollowsTask, HasResult, ResultOf, Live, Inside, Endings, Records,
    Attempts, Holding, Empty
<1>5. ASSUME NEW h \in Hosts, CountDone(h) PROVE DirectoriesFollowTasks'
  BY <1>5 DEF CountDone, hostVars, taskVars, LedgerTypeOK, DirectoriesFollowTasks,
    DirectoryFollowsTask, HasResult, ResultOf, Live, Inside, Endings, Records,
    Attempts, Holding, Empty
<1>6. ASSUME NEW h \in Hosts, NEW e \in Episodes, QueueEpisode(h, e) PROVE DirectoriesFollowTasks'
  <2>1. task[e] = "none"
    BY <1>6 DEF QueueEpisode, Fresh, TasksFollowHosts, TaskFollowsHost
  <2>2. QED
    BY <1>6, <2>1 DEF QueueEpisode, LedgerTypeOK, DirectoriesFollowTasks, DirectoryFollowsTask, HasResult, ResultOf, Live,
      Inside
<1>7. ASSUME NEW h \in Hosts, StartEpisodes(h) PROVE DirectoriesFollowTasks'
  BY <1>7 DEF StartEpisodes, hostVars, taskVars, LedgerTypeOK, DirectoriesFollowTasks,
    DirectoryFollowsTask, HasResult, ResultOf, Live, Inside, Endings, Records,
    Attempts, Holding, Empty
<1>8. ASSUME NEW h \in Hosts, NEW e \in Episodes, MarkRunning(h, e) PROVE DirectoriesFollowTasks'
  <2>1. /\ task[e] = "waiting" /\ task'[e] = "working" /\ attempt'[e] = 1
        /\ UNCHANGED <<current, archive, outcome>>
    BY <1>8 DEF MarkRunning, Begin, LedgerTypeOK
  <2>2. ASSUME NEW f \in Episodes \ {e} PROVE DirectoryFollowsTask(f)'
    <3>1. /\ task'[f] = task[f] /\ attempt'[f] = attempt[f] /\ current'[f] = current[f]
          /\ archive'[f] = archive[f] /\ outcome'[f] = outcome[f]
      BY <1>8 DEF MarkRunning, Begin, LedgerTypeOK
    <3>2. QED
      BY <3>1 DEF DirectoriesFollowTasks, DirectoryFollowsTask, HasResult, ResultOf
  <2>3. 1 \in Attempts /\ \A n \in Attempts : ~(n < 1)
    BY DEF Attempts, LedgerAssumption
  <2>4. DirectoryFollowsTask(e)'
    BY <2>1, <2>3 DEF DirectoriesFollowTasks, DirectoryFollowsTask, HasResult, ResultOf, Live,
      Inside, Records, Empty
  <2>5. QED
    BY <2>2, <2>4 DEF DirectoriesFollowTasks
<1>9. ASSUME NEW h \in Hosts, NEW e \in Episodes, UpdatePhase(h, e) PROVE DirectoriesFollowTasks'
  BY <1>9 DEF UpdatePhase, hostVars, taskVars, LedgerTypeOK, DirectoriesFollowTasks,
    DirectoryFollowsTask, HasResult, ResultOf, Live, Inside, Endings, Records,
    Attempts, Holding, Empty
<1>10. ASSUME NEW h \in Hosts, NEW e \in Episodes, WriteLock(h, e) PROVE DirectoriesFollowTasks'
  <2>1. current' = [current EXCEPT ![e].lock = attempt[e]] /\ task[e] = "working"
        /\ UNCHANGED <<task, attempt, outcome, archive>>
    BY <1>10 DEF WriteLock
  <2>2. \A f \in Episodes \ {e} : current'[f] = current[f]
    BY <2>1 DEF LedgerTypeOK
  <2>3. current'[e].lock = attempt[e] /\ current'[e].result = current[e].result
    BY <2>1 DEF LedgerTypeOK, Holding, Records
  <2>4. QED
    BY <2>1, <2>2, <2>3 DEF LedgerTypeOK, DirectoriesFollowTasks, DirectoryFollowsTask, HasResult, ResultOf, Live, Inside,
      Records
<1>11. ASSUME NEW h \in Hosts, NEW e \in Episodes, WriteResult(h, e) PROVE DirectoriesFollowTasks'
  BY <1>11 DEF WriteResult, Running, hostVars, taskVars, LedgerTypeOK, DirectoriesFollowTasks,
    DirectoryFollowsTask, HasResult, ResultOf, Live, Inside, Endings, Records,
    Attempts, Holding, Empty
<1>12. ASSUME NEW h \in Hosts, NEW e \in Episodes, MakeArchive(h, e) PROVE DirectoriesFollowTasks'
  BY <1>12 DEF MakeArchive, Running, IsLast, hostVars, taskVars, LedgerTypeOK, DirectoriesFollowTasks,
    DirectoryFollowsTask, HasResult, ResultOf, Live, Inside, Endings, Records,
    Attempts, Holding, Empty
<1>13. ASSUME NEW h \in Hosts, NEW e \in Episodes, NEW r \in Records, ArchiveRecord(h, e, r) PROVE DirectoriesFollowTasks'
  <2>1. /\ task[e] = "archive" /\ UNCHANGED <<task, attempt, outcome>>
        /\ attempt[e] \in Attempts /\ current[e][r] = attempt[e] /\ attempt[e] # 0
    BY <1>13 DEF ArchiveRecord, DirectoriesFollowTasks, DirectoryFollowsTask, Live, Inside,
      Attempts
  <2>2. ASSUME NEW f \in Episodes \ {e} PROVE DirectoryFollowsTask(f)'
    <3>1. /\ task'[f] = task[f] /\ attempt'[f] = attempt[f] /\ current'[f] = current[f]
          /\ archive'[f] = archive[f] /\ outcome'[f] = outcome[f]
      BY <1>13 DEF ArchiveRecord, LedgerTypeOK
    <3>2. QED
      BY <3>1 DEF DirectoriesFollowTasks, DirectoryFollowsTask, HasResult, ResultOf
  <2>3. /\ current'[e][r] = 0 /\ \A q \in Records \ {r} : current'[e][q] = current[e][q]
        /\ archive'[e][attempt[e]][r] = attempt[e]
        /\ \A n \in Attempts, q \in Records : n # attempt[e] \/ q # r =>
             archive'[e][n][q] = archive[e][n][q]
    BY <1>13, <2>1 DEF ArchiveRecord, LedgerTypeOK, Holding
  <2>4. DirectoryFollowsTask(e)'
    BY <2>1, <2>3 DEF DirectoriesFollowTasks, DirectoryFollowsTask, HasResult, ResultOf, Live,
      Inside, Records, Attempts, LedgerAssumption
  <2>5. QED
    BY <2>2, <2>4 DEF DirectoriesFollowTasks
<1>14. ASSUME NEW h \in Hosts, NEW e \in Episodes, Retry(h, e) PROVE DirectoriesFollowTasks'
  BY <1>14 DEF Retry, Running, Begin, hostVars, taskVars, LedgerTypeOK, DirectoriesFollowTasks,
    DirectoryFollowsTask, HasResult, ResultOf, Live, Inside, Endings, Records,
    Attempts, Holding, Empty
<1>15. ASSUME NEW h \in Hosts, NEW e \in Episodes, LeaveGate(h, e) PROVE DirectoriesFollowTasks'
  BY <1>15 DEF LeaveGate, Running, IsLast, hostVars, taskVars, LedgerTypeOK, DirectoriesFollowTasks,
    DirectoryFollowsTask, HasResult, ResultOf, Live, Inside, Endings, Records,
    Attempts, Holding, Empty
<1>16. ASSUME NEW h \in Hosts, NEW e \in Episodes, FinishEpisode(h, e) PROVE DirectoriesFollowTasks'
  BY <1>16 DEF FinishEpisode, Running, hostVars, taskVars, LedgerTypeOK, DirectoriesFollowTasks,
    DirectoryFollowsTask, HasResult, ResultOf, Live, Inside, Endings, Records,
    Attempts, Holding, Empty
<1>17. ASSUME NEW h \in Hosts, NEW e \in Episodes, Raise(h, e) PROVE DirectoriesFollowTasks'
  BY <1>17 DEF Raise, Running, hostVars, taskVars, LedgerTypeOK, DirectoriesFollowTasks,
    DirectoryFollowsTask, HasResult, ResultOf, Live, Inside, Endings, Records,
    Attempts, Holding, Empty
<1>18. ASSUME NEW h \in Hosts, Close(h) PROVE DirectoriesFollowTasks'
  BY <1>18 DEF Close, hostVars, taskVars, LedgerTypeOK, DirectoriesFollowTasks, DirectoryFollowsTask,
    HasResult, ResultOf, Live, Inside, Endings, Records, Attempts, Holding, Empty
<1>19. ASSUME NEW h \in Hosts, Kill(h) PROVE DirectoriesFollowTasks'
  BY <1>19 DEF Kill, hostVars, taskVars, LedgerTypeOK, DirectoriesFollowTasks, DirectoryFollowsTask,
    HasResult, ResultOf, Live, Inside, Endings, Records, Attempts, Holding, Empty
<1>20. CASE UNCHANGED ledgerVars
  BY <1>20 DEF ledgerVars, hostVars, taskVars, LedgerTypeOK, DirectoriesFollowTasks, DirectoryFollowsTask,
    HasResult, ResultOf, Live, Inside, Endings, Records, Attempts, Holding, Empty
<1>21. QED
  BY <1>1, <1>2, <1>3, <1>4, <1>5, <1>6, <1>7, <1>8, <1>9, <1>10, <1>11, <1>12, <1>13,
    <1>14, <1>15, <1>16, <1>17, <1>18, <1>19, <1>20 DEF LedgerNext, OpenStep, EpisodeStep

(* What a step does to results.  Only WriteResult adds one, and only a      *)
(* failed one is moved away: a completed result stays where it is.          *)
SameResults == \A e \in Episodes :
  HasResult(e) /\ ResultOf(e) = "completed" => HasResult(e)' /\ ResultOf(e)' = "completed"

(* A completed result is never moved. *)
LEMMA ResultsStep ==
  ASSUME LedgerAssumption, LedgerTypeOK, DirectoriesFollowTasks, [LedgerNext]_ledgerVars
  PROVE  SameResults
<1>1. ASSUME NEW h \in Hosts, Open(h) PROVE SameResults
  BY <1>1 DEF Open, hostVars, taskVars, SameResults, LedgerTypeOK, DirectoriesFollowTasks,
    DirectoryFollowsTask, HasResult, ResultOf, Records, Live, Inside, Attempts
<1>2. ASSUME NEW h \in Hosts, NEW e \in Episodes, ReadResult(h, e) PROVE SameResults
  BY <1>2 DEF ReadResult, hostVars, taskVars, SameResults, LedgerTypeOK, DirectoriesFollowTasks,
    DirectoryFollowsTask, HasResult, ResultOf, Records, Live, Inside, Attempts
<1>3. ASSUME NEW h \in Hosts, ProjectResult(h) PROVE SameResults
  BY <1>3 DEF ProjectResult, hostVars, taskVars, SameResults, LedgerTypeOK, DirectoriesFollowTasks,
    DirectoryFollowsTask, HasResult, ResultOf, Records, Live, Inside, Attempts
<1>4. ASSUME NEW h \in Hosts, InterruptStaleRows(h) PROVE SameResults
  BY <1>4 DEF InterruptStaleRows, hostVars, taskVars, SameResults, LedgerTypeOK,
    DirectoriesFollowTasks, DirectoryFollowsTask, HasResult, ResultOf, Records, Live,
    Inside, Attempts
<1>5. ASSUME NEW h \in Hosts, CountDone(h) PROVE SameResults
  BY <1>5 DEF CountDone, hostVars, taskVars, SameResults, LedgerTypeOK, DirectoriesFollowTasks,
    DirectoryFollowsTask, HasResult, ResultOf, Records, Live, Inside, Attempts
<1>6. ASSUME NEW h \in Hosts, NEW e \in Episodes, QueueEpisode(h, e) PROVE SameResults
  BY <1>6 DEF QueueEpisode, hostVars, taskVars, SameResults, LedgerTypeOK, DirectoriesFollowTasks,
    DirectoryFollowsTask, HasResult, ResultOf, Records, Live, Inside, Attempts
<1>7. ASSUME NEW h \in Hosts, StartEpisodes(h) PROVE SameResults
  BY <1>7 DEF StartEpisodes, hostVars, taskVars, SameResults, LedgerTypeOK, DirectoriesFollowTasks,
    DirectoryFollowsTask, HasResult, ResultOf, Records, Live, Inside, Attempts
<1>8. ASSUME NEW h \in Hosts, NEW e \in Episodes, MarkRunning(h, e) PROVE SameResults
  BY <1>8 DEF MarkRunning, hostVars, taskVars, SameResults, LedgerTypeOK, DirectoriesFollowTasks,
    DirectoryFollowsTask, HasResult, ResultOf, Records, Live, Inside, Attempts
<1>9. ASSUME NEW h \in Hosts, NEW e \in Episodes, UpdatePhase(h, e) PROVE SameResults
  BY <1>9 DEF UpdatePhase, hostVars, taskVars, SameResults, LedgerTypeOK, DirectoriesFollowTasks,
    DirectoryFollowsTask, HasResult, ResultOf, Records, Live, Inside, Attempts
<1>10. ASSUME NEW h \in Hosts, NEW e \in Episodes, WriteLock(h, e) PROVE SameResults
  BY <1>10 DEF WriteLock, Running, hostVars, taskVars, SameResults, LedgerTypeOK,
    DirectoriesFollowTasks, DirectoryFollowsTask, HasResult, ResultOf, Records, Live,
    Inside, Attempts
<1>11. ASSUME NEW h \in Hosts, NEW e \in Episodes, WriteResult(h, e) PROVE SameResults
  BY <1>11 DEF WriteResult, Running, hostVars, taskVars, SameResults, LedgerTypeOK,
    DirectoriesFollowTasks, DirectoryFollowsTask, HasResult, ResultOf, Records, Live,
    Inside, Attempts
<1>12. ASSUME NEW h \in Hosts, NEW e \in Episodes, MakeArchive(h, e) PROVE SameResults
  BY <1>12 DEF MakeArchive, hostVars, taskVars, SameResults, LedgerTypeOK, DirectoriesFollowTasks,
    DirectoryFollowsTask, HasResult, ResultOf, Records, Live, Inside, Attempts
<1>13. ASSUME NEW h \in Hosts, NEW e \in Episodes, NEW r \in Records, ArchiveRecord(h, e, r) PROVE SameResults
  BY <1>13 DEF ArchiveRecord, Running, hostVars, taskVars, SameResults, LedgerTypeOK,
    DirectoriesFollowTasks, DirectoryFollowsTask, HasResult, ResultOf, Records, Live,
    Inside, Attempts
<1>14. ASSUME NEW h \in Hosts, NEW e \in Episodes, Retry(h, e) PROVE SameResults
  BY <1>14 DEF Retry, hostVars, taskVars, SameResults, LedgerTypeOK, DirectoriesFollowTasks,
    DirectoryFollowsTask, HasResult, ResultOf, Records, Live, Inside, Attempts
<1>15. ASSUME NEW h \in Hosts, NEW e \in Episodes, LeaveGate(h, e) PROVE SameResults
  BY <1>15 DEF LeaveGate, hostVars, taskVars, SameResults, LedgerTypeOK, DirectoriesFollowTasks,
    DirectoryFollowsTask, HasResult, ResultOf, Records, Live, Inside, Attempts
<1>16. ASSUME NEW h \in Hosts, NEW e \in Episodes, FinishEpisode(h, e) PROVE SameResults
  BY <1>16 DEF FinishEpisode, hostVars, taskVars, SameResults, LedgerTypeOK, DirectoriesFollowTasks,
    DirectoryFollowsTask, HasResult, ResultOf, Records, Live, Inside, Attempts
<1>17. ASSUME NEW h \in Hosts, NEW e \in Episodes, Raise(h, e) PROVE SameResults
  BY <1>17 DEF Raise, hostVars, taskVars, SameResults, LedgerTypeOK, DirectoriesFollowTasks,
    DirectoryFollowsTask, HasResult, ResultOf, Records, Live, Inside, Attempts
<1>18. ASSUME NEW h \in Hosts, Close(h) PROVE SameResults
  BY <1>18 DEF Close, hostVars, taskVars, SameResults, LedgerTypeOK, DirectoriesFollowTasks,
    DirectoryFollowsTask, HasResult, ResultOf, Records, Live, Inside, Attempts
<1>19. ASSUME NEW h \in Hosts, Kill(h) PROVE SameResults
  BY <1>19 DEF Kill, hostVars, taskVars, SameResults, LedgerTypeOK, DirectoriesFollowTasks,
    DirectoryFollowsTask, HasResult, ResultOf, Records, Live, Inside, Attempts
<1>20. CASE UNCHANGED ledgerVars
  BY <1>20 DEF ledgerVars, hostVars, taskVars, SameResults, LedgerTypeOK, DirectoriesFollowTasks,
    DirectoryFollowsTask, HasResult, ResultOf, Records, Live, Inside, Attempts
<1>21. QED
  BY <1>1, <1>2, <1>3, <1>4, <1>5, <1>6, <1>7, <1>8, <1>9, <1>10, <1>11, <1>12, <1>13,
    <1>14, <1>15, <1>16, <1>17, <1>18, <1>19, <1>20 DEF LedgerNext, OpenStep, EpisodeStep

RowsKept == \A e \in Episodes : row[e].status # "none" => row'[e].status # "none"

(* An id once drawn stays drawn. *)
LEMMA DrawnStep ==
  ASSUME LedgerAssumption, LedgerTypeOK, [LedgerNext]_ledgerVars
  PROVE  \A f \in Episodes : owner[f] # NoHost => owner'[f] # NoHost
<1>1. ASSUME NEW h \in Hosts, Open(h) PROVE \A f \in Episodes : owner[f] # NoHost => owner'[f] # NoHost
  BY <1>1 DEF Open, hostVars, taskVars, LedgerTypeOK, LedgerAssumption
<1>2. ASSUME NEW h \in Hosts, NEW e \in Episodes, ReadResult(h, e) PROVE \A f \in Episodes : owner[f] # NoHost => owner'[f] # NoHost
  BY <1>2 DEF ReadResult, hostVars, taskVars, LedgerTypeOK, LedgerAssumption
<1>3. ASSUME NEW h \in Hosts, ProjectResult(h) PROVE \A f \in Episodes : owner[f] # NoHost => owner'[f] # NoHost
  BY <1>3 DEF ProjectResult, hostVars, taskVars, LedgerTypeOK, LedgerAssumption
<1>4. ASSUME NEW h \in Hosts, InterruptStaleRows(h) PROVE \A f \in Episodes : owner[f] # NoHost => owner'[f] # NoHost
  BY <1>4 DEF InterruptStaleRows, hostVars, taskVars, LedgerTypeOK, LedgerAssumption
<1>5. ASSUME NEW h \in Hosts, CountDone(h) PROVE \A f \in Episodes : owner[f] # NoHost => owner'[f] # NoHost
  BY <1>5 DEF CountDone, hostVars, taskVars, LedgerTypeOK, LedgerAssumption
<1>6. ASSUME NEW h \in Hosts, NEW e \in Episodes, QueueEpisode(h, e) PROVE \A f \in Episodes : owner[f] # NoHost => owner'[f] # NoHost
  BY <1>6 DEF QueueEpisode, Fresh, hostVars, taskVars, LedgerTypeOK, LedgerAssumption
<1>7. ASSUME NEW h \in Hosts, StartEpisodes(h) PROVE \A f \in Episodes : owner[f] # NoHost => owner'[f] # NoHost
  BY <1>7 DEF StartEpisodes, hostVars, taskVars, LedgerTypeOK, LedgerAssumption
<1>8. ASSUME NEW h \in Hosts, NEW e \in Episodes, MarkRunning(h, e) PROVE \A f \in Episodes : owner[f] # NoHost => owner'[f] # NoHost
  BY <1>8 DEF MarkRunning, hostVars, taskVars, LedgerTypeOK, LedgerAssumption
<1>9. ASSUME NEW h \in Hosts, NEW e \in Episodes, UpdatePhase(h, e) PROVE \A f \in Episodes : owner[f] # NoHost => owner'[f] # NoHost
  BY <1>9 DEF UpdatePhase, hostVars, taskVars, LedgerTypeOK, LedgerAssumption
<1>10. ASSUME NEW h \in Hosts, NEW e \in Episodes, WriteLock(h, e) PROVE \A f \in Episodes : owner[f] # NoHost => owner'[f] # NoHost
  BY <1>10 DEF WriteLock, hostVars, taskVars, LedgerTypeOK, LedgerAssumption
<1>11. ASSUME NEW h \in Hosts, NEW e \in Episodes, WriteResult(h, e) PROVE \A f \in Episodes : owner[f] # NoHost => owner'[f] # NoHost
  BY <1>11 DEF WriteResult, hostVars, taskVars, LedgerTypeOK, LedgerAssumption
<1>12. ASSUME NEW h \in Hosts, NEW e \in Episodes, MakeArchive(h, e) PROVE \A f \in Episodes : owner[f] # NoHost => owner'[f] # NoHost
  BY <1>12 DEF MakeArchive, hostVars, taskVars, LedgerTypeOK, LedgerAssumption
<1>13. ASSUME NEW h \in Hosts, NEW e \in Episodes, NEW r \in Records, ArchiveRecord(h, e, r) PROVE \A f \in Episodes : owner[f] # NoHost => owner'[f] # NoHost
  BY <1>13 DEF ArchiveRecord, hostVars, taskVars, LedgerTypeOK, LedgerAssumption
<1>14. ASSUME NEW h \in Hosts, NEW e \in Episodes, Retry(h, e) PROVE \A f \in Episodes : owner[f] # NoHost => owner'[f] # NoHost
  BY <1>14 DEF Retry, hostVars, taskVars, LedgerTypeOK, LedgerAssumption
<1>15. ASSUME NEW h \in Hosts, NEW e \in Episodes, LeaveGate(h, e) PROVE \A f \in Episodes : owner[f] # NoHost => owner'[f] # NoHost
  BY <1>15 DEF LeaveGate, hostVars, taskVars, LedgerTypeOK, LedgerAssumption
<1>16. ASSUME NEW h \in Hosts, NEW e \in Episodes, FinishEpisode(h, e) PROVE \A f \in Episodes : owner[f] # NoHost => owner'[f] # NoHost
  BY <1>16 DEF FinishEpisode, hostVars, taskVars, LedgerTypeOK, LedgerAssumption
<1>17. ASSUME NEW h \in Hosts, NEW e \in Episodes, Raise(h, e) PROVE \A f \in Episodes : owner[f] # NoHost => owner'[f] # NoHost
  BY <1>17 DEF Raise, hostVars, taskVars, LedgerTypeOK, LedgerAssumption
<1>18. ASSUME NEW h \in Hosts, Close(h) PROVE \A f \in Episodes : owner[f] # NoHost => owner'[f] # NoHost
  BY <1>18 DEF Close, hostVars, taskVars, LedgerTypeOK, LedgerAssumption
<1>19. ASSUME NEW h \in Hosts, Kill(h) PROVE \A f \in Episodes : owner[f] # NoHost => owner'[f] # NoHost
  BY <1>19 DEF Kill, hostVars, taskVars, LedgerTypeOK, LedgerAssumption
<1>20. CASE UNCHANGED ledgerVars
  BY <1>20 DEF ledgerVars, hostVars, taskVars, LedgerTypeOK, LedgerAssumption
<1>21. QED
  BY <1>1, <1>2, <1>3, <1>4, <1>5, <1>6, <1>7, <1>8, <1>9, <1>10, <1>11, <1>12, <1>13,
    <1>14, <1>15, <1>16, <1>17, <1>18, <1>19, <1>20 DEF LedgerNext, OpenStep, EpisodeStep

(* An invocation that reconciles holds rows that exist and results that last. *)
LEMMA HeldStep ==
  ASSUME LedgerAssumption, LedgerTypeOK, HeldRowsExist, SameResults, RowsKept, [LedgerNext]_ledgerVars
  PROVE  HeldRowsExist'
<1>1. ASSUME NEW h \in Hosts, Open(h) PROVE HeldRowsExist'
  BY <1>1 DEF Open, hostVars, taskVars, SameResults, RowsKept, LedgerTypeOK, HeldRowsExist
<1>2. ASSUME NEW h \in Hosts, NEW e \in Episodes, ReadResult(h, e) PROVE HeldRowsExist'
  <2>1. \A g \in Hosts : unread'[g] \subseteq unread[g]
    BY <1>2 DEF ReadResult, LedgerTypeOK
  <2>2. \A g \in Hosts : held'[g] # held[g] =>
          /\ g = h /\ host[h] = "reconcile" /\ row[e].status # "none"
          /\ held'[g].episode = e /\ HasResult(e) /\ held'[g].status = ResultOf(e)
    BY <1>2 DEF ReadResult, LedgerTypeOK, HeldRowsExist
  <2>3. UNCHANGED <<host, row, current, outcome>>
    BY <1>2 DEF ReadResult, taskVars
  <2>4. \A g \in Hosts : \A f \in unread'[g] : row'[f].status # "none"
    BY <2>1, <2>3 DEF HeldRowsExist
  <2>5. ASSUME NEW g \in Hosts, held'[g] # NoRow, held'[g] = held[g]
        PROVE  /\ held[g].episode \in Episodes
               /\ host[g] = "reconcile" /\ row[held[g].episode].status # "none"
               /\ held[g].status = "completed" =>
                    HasResult(held[g].episode) /\ ResultOf(held[g].episode) = "completed"
    BY <2>5 DEF HeldRowsExist, LedgerTypeOK
  <2>6. ASSUME NEW g \in Hosts, held'[g] # NoRow
        PROVE  /\ host'[g] = "reconcile" /\ row'[held'[g].episode].status # "none"
               /\ held'[g].status = "completed" =>
                    HasResult(held[g].episode)' /\ ResultOf(held[g].episode)' = "completed"
    <3>1. CASE held'[g] = held[g]
      BY <2>3, <2>5, <2>6, <3>1 DEF HasResult, ResultOf
    <3>2. CASE held'[g] # held[g]
      BY <2>2, <2>3, <3>2 DEF HasResult, ResultOf
    <3>3. QED
      BY <3>1, <3>2
  <2>7. QED
    BY <2>4, <2>6 DEF HeldRowsExist
<1>3. ASSUME NEW h \in Hosts, ProjectResult(h) PROVE HeldRowsExist'
  BY <1>3 DEF ProjectResult, hostVars, taskVars, SameResults, RowsKept, LedgerTypeOK, HeldRowsExist
<1>4. ASSUME NEW h \in Hosts, InterruptStaleRows(h) PROVE HeldRowsExist'
  BY <1>4 DEF InterruptStaleRows, hostVars, taskVars, SameResults, RowsKept, LedgerTypeOK,
    HeldRowsExist
<1>5. ASSUME NEW h \in Hosts, CountDone(h) PROVE HeldRowsExist'
  BY <1>5 DEF CountDone, hostVars, taskVars, SameResults, RowsKept, LedgerTypeOK, HeldRowsExist
<1>6. ASSUME NEW h \in Hosts, NEW e \in Episodes, QueueEpisode(h, e) PROVE HeldRowsExist'
  BY <1>6 DEF QueueEpisode, Fresh, hostVars, taskVars, SameResults, RowsKept, LedgerTypeOK,
    HeldRowsExist
<1>7. ASSUME NEW h \in Hosts, StartEpisodes(h) PROVE HeldRowsExist'
  BY <1>7 DEF StartEpisodes, hostVars, taskVars, SameResults, RowsKept, LedgerTypeOK, HeldRowsExist
<1>8. ASSUME NEW h \in Hosts, NEW e \in Episodes, MarkRunning(h, e) PROVE HeldRowsExist'
  BY <1>8 DEF MarkRunning, Running, Begin, hostVars, taskVars, SameResults, RowsKept, LedgerTypeOK,
    HeldRowsExist
<1>9. ASSUME NEW h \in Hosts, NEW e \in Episodes, UpdatePhase(h, e) PROVE HeldRowsExist'
  BY <1>9 DEF UpdatePhase, Running, hostVars, taskVars, SameResults, RowsKept, LedgerTypeOK,
    HeldRowsExist
<1>10. ASSUME NEW h \in Hosts, NEW e \in Episodes, WriteLock(h, e) PROVE HeldRowsExist'
  BY <1>10 DEF WriteLock, hostVars, taskVars, SameResults, RowsKept, LedgerTypeOK, HeldRowsExist
<1>11. ASSUME NEW h \in Hosts, NEW e \in Episodes, WriteResult(h, e) PROVE HeldRowsExist'
  BY <1>11 DEF WriteResult, hostVars, taskVars, SameResults, RowsKept, LedgerTypeOK, HeldRowsExist
<1>12. ASSUME NEW h \in Hosts, NEW e \in Episodes, MakeArchive(h, e) PROVE HeldRowsExist'
  BY <1>12 DEF MakeArchive, hostVars, taskVars, SameResults, RowsKept, LedgerTypeOK, HeldRowsExist
<1>13. ASSUME NEW h \in Hosts, NEW e \in Episodes, NEW r \in Records, ArchiveRecord(h, e, r) PROVE HeldRowsExist'
  BY <1>13 DEF ArchiveRecord, hostVars, taskVars, SameResults, RowsKept, LedgerTypeOK, HeldRowsExist
<1>14. ASSUME NEW h \in Hosts, NEW e \in Episodes, Retry(h, e) PROVE HeldRowsExist'
  BY <1>14 DEF Retry, hostVars, taskVars, SameResults, RowsKept, LedgerTypeOK, HeldRowsExist
<1>15. ASSUME NEW h \in Hosts, NEW e \in Episodes, LeaveGate(h, e) PROVE HeldRowsExist'
  BY <1>15 DEF LeaveGate, hostVars, taskVars, SameResults, RowsKept, LedgerTypeOK, HeldRowsExist
<1>16. ASSUME NEW h \in Hosts, NEW e \in Episodes, FinishEpisode(h, e) PROVE HeldRowsExist'
  BY <1>16 DEF FinishEpisode, Running, hostVars, taskVars, SameResults, RowsKept, LedgerTypeOK,
    HeldRowsExist
<1>17. ASSUME NEW h \in Hosts, NEW e \in Episodes, Raise(h, e) PROVE HeldRowsExist'
  BY <1>17 DEF Raise, hostVars, taskVars, SameResults, RowsKept, LedgerTypeOK, HeldRowsExist
<1>18. ASSUME NEW h \in Hosts, Close(h) PROVE HeldRowsExist'
  BY <1>18 DEF Close, hostVars, taskVars, SameResults, RowsKept, LedgerTypeOK, HeldRowsExist
<1>19. ASSUME NEW h \in Hosts, Kill(h) PROVE HeldRowsExist'
  BY <1>19 DEF Kill, hostVars, taskVars, SameResults, RowsKept, LedgerTypeOK, HeldRowsExist
<1>20. CASE UNCHANGED ledgerVars
  BY <1>20 DEF ledgerVars, hostVars, taskVars, SameResults, RowsKept, LedgerTypeOK, HeldRowsExist
<1>21. QED
  BY <1>1, <1>2, <1>3, <1>4, <1>5, <1>6, <1>7, <1>8, <1>9, <1>10, <1>11, <1>12, <1>13,
    <1>14, <1>15, <1>16, <1>17, <1>18, <1>19, <1>20 DEF LedgerNext, OpenStep, EpisodeStep

(* A completed row has a completed result, before and after every step. *)
LEMMA CompletedStep ==
  ASSUME LedgerAssumption, LedgerTypeOK, HeldRowsExist, DirectoriesFollowTasks,
         CompletedIsDurable, SameResults, [LedgerNext]_ledgerVars
  PROVE  CompletedIsDurable'
<1>1. ASSUME NEW h \in Hosts, Open(h) PROVE CompletedIsDurable'
  BY <1>1 DEF Open, hostVars, taskVars, SameResults, LedgerTypeOK, CompletedIsDurable
<1>2. ASSUME NEW h \in Hosts, NEW e \in Episodes, ReadResult(h, e) PROVE CompletedIsDurable'
  BY <1>2 DEF ReadResult, hostVars, taskVars, SameResults, LedgerTypeOK, CompletedIsDurable
<1>3. ASSUME NEW h \in Hosts, ProjectResult(h) PROVE CompletedIsDurable'
  <2>1. held[h].episode \in Episodes
    BY <1>3 DEF ProjectResult, LedgerTypeOK
  <2>2. held[h].status = "completed" =>
          HasResult(held[h].episode) /\ ResultOf(held[h].episode) = "completed"
    BY <1>3 DEF ProjectResult, HeldRowsExist
  <2>3. /\ row'[held[h].episode].status = held[h].status
        /\ \A e \in Episodes \ {held[h].episode} : row'[e] = row[e]
    BY <1>3, <2>1 DEF ProjectResult, LedgerTypeOK
  <2>4. \A e \in Episodes : row'[e].status = "completed" =>
          row[e].status = "completed" \/ (HasResult(e) /\ ResultOf(e) = "completed")
    BY <2>1, <2>2, <2>3 DEF HasResult, ResultOf
  <2>5. QED
    BY <2>4 DEF CompletedIsDurable, SameResults
<1>4. ASSUME NEW h \in Hosts, InterruptStaleRows(h) PROVE CompletedIsDurable'
  BY <1>4 DEF InterruptStaleRows, hostVars, taskVars, SameResults, LedgerTypeOK, CompletedIsDurable
<1>5. ASSUME NEW h \in Hosts, CountDone(h) PROVE CompletedIsDurable'
  BY <1>5 DEF CountDone, hostVars, taskVars, SameResults, LedgerTypeOK, CompletedIsDurable
<1>6. ASSUME NEW h \in Hosts, NEW e \in Episodes, QueueEpisode(h, e) PROVE CompletedIsDurable'
  BY <1>6 DEF QueueEpisode, Fresh, hostVars, taskVars, SameResults, LedgerTypeOK, CompletedIsDurable
<1>7. ASSUME NEW h \in Hosts, StartEpisodes(h) PROVE CompletedIsDurable'
  BY <1>7 DEF StartEpisodes, hostVars, taskVars, SameResults, LedgerTypeOK, CompletedIsDurable
<1>8. ASSUME NEW h \in Hosts, NEW e \in Episodes, MarkRunning(h, e) PROVE CompletedIsDurable'
  BY <1>8 DEF MarkRunning, Running, Begin, hostVars, taskVars, SameResults, LedgerTypeOK,
    CompletedIsDurable
<1>9. ASSUME NEW h \in Hosts, NEW e \in Episodes, UpdatePhase(h, e) PROVE CompletedIsDurable'
  BY <1>9 DEF UpdatePhase, Running, hostVars, taskVars, SameResults, LedgerTypeOK, CompletedIsDurable
<1>10. ASSUME NEW h \in Hosts, NEW e \in Episodes, WriteLock(h, e) PROVE CompletedIsDurable'
  BY <1>10 DEF WriteLock, hostVars, taskVars, SameResults, LedgerTypeOK, CompletedIsDurable
<1>11. ASSUME NEW h \in Hosts, NEW e \in Episodes, WriteResult(h, e) PROVE CompletedIsDurable'
  BY <1>11 DEF WriteResult, hostVars, taskVars, SameResults, LedgerTypeOK, CompletedIsDurable
<1>12. ASSUME NEW h \in Hosts, NEW e \in Episodes, MakeArchive(h, e) PROVE CompletedIsDurable'
  BY <1>12 DEF MakeArchive, hostVars, taskVars, SameResults, LedgerTypeOK, CompletedIsDurable
<1>13. ASSUME NEW h \in Hosts, NEW e \in Episodes, NEW r \in Records, ArchiveRecord(h, e, r) PROVE CompletedIsDurable'
  BY <1>13 DEF ArchiveRecord, hostVars, taskVars, SameResults, LedgerTypeOK, CompletedIsDurable
<1>14. ASSUME NEW h \in Hosts, NEW e \in Episodes, Retry(h, e) PROVE CompletedIsDurable'
  BY <1>14 DEF Retry, hostVars, taskVars, SameResults, LedgerTypeOK, CompletedIsDurable
<1>15. ASSUME NEW h \in Hosts, NEW e \in Episodes, LeaveGate(h, e) PROVE CompletedIsDurable'
  BY <1>15 DEF LeaveGate, hostVars, taskVars, SameResults, LedgerTypeOK, CompletedIsDurable
<1>16. ASSUME NEW h \in Hosts, NEW e \in Episodes, FinishEpisode(h, e) PROVE CompletedIsDurable'
  <2>1. HasResult(e) /\ ResultOf(e) = outcome[e][attempt[e]]
    BY <1>16 DEF FinishEpisode, DirectoriesFollowTasks, DirectoryFollowsTask, HasResult, ResultOf, Live, Inside, Records
  <2>2. /\ row'[e].status = outcome[e][attempt[e]]
        /\ \A f \in Episodes \ {e} : row'[f] = row[f]
    BY <1>16 DEF FinishEpisode, LedgerTypeOK
  <2>3. \A f \in Episodes : row'[f].status = "completed" =>
          row[f].status = "completed" \/ (HasResult(f) /\ ResultOf(f) = "completed")
    BY <2>1, <2>2 DEF HasResult, ResultOf
  <2>4. QED
    BY <2>3 DEF CompletedIsDurable, SameResults
<1>17. ASSUME NEW h \in Hosts, NEW e \in Episodes, Raise(h, e) PROVE CompletedIsDurable'
  BY <1>17 DEF Raise, hostVars, taskVars, SameResults, LedgerTypeOK, CompletedIsDurable
<1>18. ASSUME NEW h \in Hosts, Close(h) PROVE CompletedIsDurable'
  BY <1>18 DEF Close, hostVars, taskVars, SameResults, LedgerTypeOK, CompletedIsDurable
<1>19. ASSUME NEW h \in Hosts, Kill(h) PROVE CompletedIsDurable'
  BY <1>19 DEF Kill, hostVars, taskVars, SameResults, LedgerTypeOK, CompletedIsDurable
<1>20. CASE UNCHANGED ledgerVars
  BY <1>20 DEF ledgerVars, hostVars, taskVars, SameResults, LedgerTypeOK, CompletedIsDurable
<1>21. QED
  BY <1>1, <1>2, <1>3, <1>4, <1>5, <1>6, <1>7, <1>8, <1>9, <1>10, <1>11, <1>12, <1>13,
    <1>14, <1>15, <1>16, <1>17, <1>18, <1>19, <1>20 DEF LedgerNext, OpenStep, EpisodeStep

(* Overlap is remembered. *)
LEMMA OverlapStays ==
  ASSUME LedgerTypeOK, [LedgerNext]_ledgerVars, ~together'
  PROVE  ~together
<1>1. ASSUME NEW h \in Hosts, Open(h) PROVE ~together
  BY <1>1 DEF Open, taskVars, hostVars, LedgerTypeOK
<1>2. ASSUME NEW h \in Hosts, NEW e \in Episodes, ReadResult(h, e) PROVE ~together
  BY <1>2 DEF ReadResult, taskVars, hostVars, LedgerTypeOK
<1>3. ASSUME NEW h \in Hosts, ProjectResult(h) PROVE ~together
  BY <1>3 DEF ProjectResult, taskVars, hostVars, LedgerTypeOK
<1>4. ASSUME NEW h \in Hosts, InterruptStaleRows(h) PROVE ~together
  BY <1>4 DEF InterruptStaleRows, taskVars, hostVars, LedgerTypeOK
<1>5. ASSUME NEW h \in Hosts, CountDone(h) PROVE ~together
  BY <1>5 DEF CountDone, taskVars, hostVars, LedgerTypeOK
<1>6. ASSUME NEW h \in Hosts, NEW e \in Episodes, QueueEpisode(h, e) PROVE ~together
  BY <1>6 DEF QueueEpisode, taskVars, hostVars, LedgerTypeOK
<1>7. ASSUME NEW h \in Hosts, StartEpisodes(h) PROVE ~together
  BY <1>7 DEF StartEpisodes, taskVars, hostVars, LedgerTypeOK
<1>8. ASSUME NEW h \in Hosts, NEW e \in Episodes, MarkRunning(h, e) PROVE ~together
  BY <1>8 DEF MarkRunning, taskVars, hostVars, LedgerTypeOK
<1>9. ASSUME NEW h \in Hosts, NEW e \in Episodes, UpdatePhase(h, e) PROVE ~together
  BY <1>9 DEF UpdatePhase, taskVars, hostVars, LedgerTypeOK
<1>10. ASSUME NEW h \in Hosts, NEW e \in Episodes, WriteLock(h, e) PROVE ~together
  BY <1>10 DEF WriteLock, taskVars, hostVars, LedgerTypeOK
<1>11. ASSUME NEW h \in Hosts, NEW e \in Episodes, WriteResult(h, e) PROVE ~together
  BY <1>11 DEF WriteResult, taskVars, hostVars, LedgerTypeOK
<1>12. ASSUME NEW h \in Hosts, NEW e \in Episodes, MakeArchive(h, e) PROVE ~together
  BY <1>12 DEF MakeArchive, taskVars, hostVars, LedgerTypeOK
<1>13. ASSUME NEW h \in Hosts, NEW e \in Episodes, NEW r \in Records, ArchiveRecord(h, e, r) PROVE ~together
  BY <1>13 DEF ArchiveRecord, taskVars, hostVars, LedgerTypeOK
<1>14. ASSUME NEW h \in Hosts, NEW e \in Episodes, Retry(h, e) PROVE ~together
  BY <1>14 DEF Retry, taskVars, hostVars, LedgerTypeOK
<1>15. ASSUME NEW h \in Hosts, NEW e \in Episodes, LeaveGate(h, e) PROVE ~together
  BY <1>15 DEF LeaveGate, taskVars, hostVars, LedgerTypeOK
<1>16. ASSUME NEW h \in Hosts, NEW e \in Episodes, FinishEpisode(h, e) PROVE ~together
  BY <1>16 DEF FinishEpisode, taskVars, hostVars, LedgerTypeOK
<1>17. ASSUME NEW h \in Hosts, NEW e \in Episodes, Raise(h, e) PROVE ~together
  BY <1>17 DEF Raise, taskVars, hostVars, LedgerTypeOK
<1>18. ASSUME NEW h \in Hosts, Close(h) PROVE ~together
  BY <1>18 DEF Close, taskVars, hostVars, LedgerTypeOK
<1>19. ASSUME NEW h \in Hosts, Kill(h) PROVE ~together
  BY <1>19 DEF Kill, taskVars, hostVars, LedgerTypeOK
<1>20. CASE UNCHANGED ledgerVars
  BY <1>20 DEF ledgerVars
<1>21. QED
  BY <1>1, <1>2, <1>3, <1>4, <1>5, <1>6, <1>7, <1>8, <1>9, <1>10, <1>11, <1>12, <1>13,
    <1>14, <1>15, <1>16, <1>17, <1>18, <1>19, <1>20 DEF LedgerNext, OpenStep, EpisodeStep

(* Without overlap one invocation is alive. *)
LEMMA OneAtATimeStep ==
  ASSUME LedgerTypeOK, OneAtATime, ~together', [LedgerNext]_ledgerVars
  PROVE  OneAtATime'
<1>1. ASSUME NEW h \in Hosts, Open(h) PROVE OneAtATime'
  BY <1>1 DEF Open, hostVars, taskVars, LedgerTypeOK, OneAtATime, Alive
<1>2. ASSUME NEW h \in Hosts, NEW e \in Episodes, ReadResult(h, e) PROVE OneAtATime'
  BY <1>2 DEF ReadResult, hostVars, taskVars, LedgerTypeOK, OneAtATime, Alive
<1>3. ASSUME NEW h \in Hosts, ProjectResult(h) PROVE OneAtATime'
  BY <1>3 DEF ProjectResult, hostVars, taskVars, LedgerTypeOK, OneAtATime, Alive
<1>4. ASSUME NEW h \in Hosts, InterruptStaleRows(h) PROVE OneAtATime'
  BY <1>4 DEF InterruptStaleRows, hostVars, taskVars, LedgerTypeOK, OneAtATime, Alive
<1>5. ASSUME NEW h \in Hosts, CountDone(h) PROVE OneAtATime'
  BY <1>5 DEF CountDone, hostVars, taskVars, LedgerTypeOK, OneAtATime, Alive
<1>6. ASSUME NEW h \in Hosts, NEW e \in Episodes, QueueEpisode(h, e) PROVE OneAtATime'
  BY <1>6 DEF QueueEpisode, hostVars, taskVars, LedgerTypeOK, OneAtATime, Alive
<1>7. ASSUME NEW h \in Hosts, StartEpisodes(h) PROVE OneAtATime'
  BY <1>7 DEF StartEpisodes, hostVars, taskVars, LedgerTypeOK, OneAtATime, Alive
<1>8. ASSUME NEW h \in Hosts, NEW e \in Episodes, MarkRunning(h, e) PROVE OneAtATime'
  BY <1>8 DEF MarkRunning, hostVars, taskVars, LedgerTypeOK, OneAtATime, Alive
<1>9. ASSUME NEW h \in Hosts, NEW e \in Episodes, UpdatePhase(h, e) PROVE OneAtATime'
  BY <1>9 DEF UpdatePhase, hostVars, taskVars, LedgerTypeOK, OneAtATime, Alive
<1>10. ASSUME NEW h \in Hosts, NEW e \in Episodes, WriteLock(h, e) PROVE OneAtATime'
  BY <1>10 DEF WriteLock, hostVars, taskVars, LedgerTypeOK, OneAtATime, Alive
<1>11. ASSUME NEW h \in Hosts, NEW e \in Episodes, WriteResult(h, e) PROVE OneAtATime'
  BY <1>11 DEF WriteResult, hostVars, taskVars, LedgerTypeOK, OneAtATime, Alive
<1>12. ASSUME NEW h \in Hosts, NEW e \in Episodes, MakeArchive(h, e) PROVE OneAtATime'
  BY <1>12 DEF MakeArchive, hostVars, taskVars, LedgerTypeOK, OneAtATime, Alive
<1>13. ASSUME NEW h \in Hosts, NEW e \in Episodes, NEW r \in Records, ArchiveRecord(h, e, r) PROVE OneAtATime'
  BY <1>13 DEF ArchiveRecord, hostVars, taskVars, LedgerTypeOK, OneAtATime, Alive
<1>14. ASSUME NEW h \in Hosts, NEW e \in Episodes, Retry(h, e) PROVE OneAtATime'
  BY <1>14 DEF Retry, hostVars, taskVars, LedgerTypeOK, OneAtATime, Alive
<1>15. ASSUME NEW h \in Hosts, NEW e \in Episodes, LeaveGate(h, e) PROVE OneAtATime'
  BY <1>15 DEF LeaveGate, hostVars, taskVars, LedgerTypeOK, OneAtATime, Alive
<1>16. ASSUME NEW h \in Hosts, NEW e \in Episodes, FinishEpisode(h, e) PROVE OneAtATime'
  BY <1>16 DEF FinishEpisode, hostVars, taskVars, LedgerTypeOK, OneAtATime, Alive
<1>17. ASSUME NEW h \in Hosts, NEW e \in Episodes, Raise(h, e) PROVE OneAtATime'
  BY <1>17 DEF Raise, hostVars, taskVars, LedgerTypeOK, OneAtATime, Alive
<1>18. ASSUME NEW h \in Hosts, Close(h) PROVE OneAtATime'
  BY <1>18 DEF Close, hostVars, taskVars, LedgerTypeOK, OneAtATime, Alive
<1>19. ASSUME NEW h \in Hosts, Kill(h) PROVE OneAtATime'
  BY <1>19 DEF Kill, hostVars, taskVars, LedgerTypeOK, OneAtATime, Alive
<1>20. CASE UNCHANGED ledgerVars
  BY <1>20 DEF ledgerVars, hostVars, taskVars, LedgerTypeOK, OneAtATime, Alive
<1>21. QED
  BY <1>1, <1>2, <1>3, <1>4, <1>5, <1>6, <1>7, <1>8, <1>9, <1>10, <1>11, <1>12, <1>13,
    <1>14, <1>15, <1>16, <1>17, <1>18, <1>19, <1>20 DEF LedgerNext, OpenStep, EpisodeStep

(* While an invocation reconciles, no episode runs. *)
LEMMA Quiet ==
  ASSUME LedgerAssumption, LedgerTypeOK, TasksFollowHosts, OneAtATime,
         NEW h \in Hosts, host[h] = "reconcile"
  PROVE  \A e \in Episodes : task[e] \notin Live
<1>1. SUFFICES ASSUME NEW e \in Episodes, task[e] \in Live PROVE FALSE
  OBVIOUS
<1>2. owner[e] \in Hosts
  BY <1>1 DEF LedgerTypeOK, TasksFollowHosts, TaskFollowsHost, Live, Inside
<1>3. host[owner[e]] \in {"queue", "run"}
  BY <1>1 DEF TasksFollowHosts, TaskFollowsHost
<1>4. QED
  BY <1>2, <1>3 DEF OneAtATime, Alive

(* Without overlap a row says what its episode does and did. *)
LEMMA RowsStep ==
  ASSUME LedgerAssumption, LedgerTypeOK, TasksFollowHosts, DirectoriesFollowTasks,
         HeldRowsExist, OneAtATime, RowsFollowTasks, Reconciling, ~together', [LedgerNext]_ledgerVars
  PROVE  RowsFollowTasks'
<1>1. ASSUME NEW h \in Hosts, Open(h) PROVE RowsFollowTasks'
  BY <1>1 DEF Open, hostVars, taskVars, LedgerTypeOK, RowsFollowTasks, RowFollowsTask, Terminal,
    HasResult, ResultOf, Live, Inside, Endings
<1>2. ASSUME NEW h \in Hosts, NEW e \in Episodes, ReadResult(h, e) PROVE RowsFollowTasks'
  BY <1>2 DEF ReadResult, hostVars, taskVars, LedgerTypeOK, RowsFollowTasks, RowFollowsTask, Terminal,
    HasResult, ResultOf, Live, Inside, Endings
<1>3. ASSUME NEW h \in Hosts, ProjectResult(h) PROVE RowsFollowTasks'
  <2>1. \A e \in Episodes : task[e] \notin Live
    BY <1>3, Quiet DEF ProjectResult
  <2>2. /\ held[h].episode \in Episodes /\ held[h].status \in Endings
        /\ HasResult(held[h].episode) /\ held[h].status = ResultOf(held[h].episode)
    BY <1>3 DEF ProjectResult, Reconciling, LedgerTypeOK
  <2>3. /\ row'[held[h].episode].status = held[h].status /\ ~row'[held[h].episode].phase
        /\ \A e \in Episodes \ {held[h].episode} : row'[e] = row[e]
    BY <1>3, <2>2 DEF ProjectResult, LedgerTypeOK
  <2>4. UNCHANGED <<task, current, outcome>>
    BY <1>3 DEF ProjectResult, taskVars
  <2>5. QED
    BY <2>1, <2>2, <2>3, <2>4 DEF RowsFollowTasks, RowFollowsTask, Terminal, HasResult, ResultOf, Live, Inside,
      Endings
<1>4. ASSUME NEW h \in Hosts, InterruptStaleRows(h) PROVE RowsFollowTasks'
  <2>1. \A e \in Episodes : task[e] \notin Live
    BY <1>4, Quiet DEF InterruptStaleRows
  <2>2. \A e \in Episodes : HasResult(e) => row[e].status = ResultOf(e)
    BY <1>4 DEF InterruptStaleRows, Reconciling
  <2>3. \A e \in Episodes : HasResult(e) => row[e].status \notin {"queued", "running"}
    BY <2>2 DEF DirectoriesFollowTasks, DirectoryFollowsTask, Endings
  <2>4. \A e \in Episodes :
          \/ row'[e] = row[e] /\ row[e].status \notin {"queued", "running"}
          \/ row'[e].status = "interrupted" /\ ~row'[e].phase /\ ~HasResult(e)
    BY <1>4, <2>3 DEF InterruptStaleRows, LedgerTypeOK
  <2>5. UNCHANGED <<task, current, outcome>>
    BY <1>4 DEF InterruptStaleRows, taskVars
  <2>6. QED
    BY <2>1, <2>4, <2>5 DEF RowsFollowTasks, RowFollowsTask, Terminal, HasResult, ResultOf, Endings, Live
<1>5. ASSUME NEW h \in Hosts, CountDone(h) PROVE RowsFollowTasks'
  BY <1>5 DEF CountDone, hostVars, taskVars, LedgerTypeOK, RowsFollowTasks, RowFollowsTask, Terminal,
    HasResult, ResultOf, Live, Inside, Endings
<1>6. ASSUME NEW h \in Hosts, NEW e \in Episodes, QueueEpisode(h, e) PROVE RowsFollowTasks'
  BY <1>6 DEF QueueEpisode, Fresh, hostVars, taskVars, LedgerTypeOK, RowsFollowTasks, RowFollowsTask,
    Terminal, HasResult, ResultOf, Live, Inside, Endings
<1>7. ASSUME NEW h \in Hosts, StartEpisodes(h) PROVE RowsFollowTasks'
  BY <1>7 DEF StartEpisodes, hostVars, taskVars, LedgerTypeOK, RowsFollowTasks, RowFollowsTask,
    Terminal, HasResult, ResultOf, Live, Inside, Endings
<1>8. ASSUME NEW h \in Hosts, NEW e \in Episodes, MarkRunning(h, e) PROVE RowsFollowTasks'
  BY <1>8 DEF MarkRunning, Running, Begin, hostVars, taskVars, LedgerTypeOK, RowsFollowTasks,
    RowFollowsTask, Terminal, HasResult, ResultOf, Live, Inside, Endings
<1>9. ASSUME NEW h \in Hosts, NEW e \in Episodes, UpdatePhase(h, e) PROVE RowsFollowTasks'
  BY <1>9 DEF UpdatePhase, Running, hostVars, taskVars, LedgerTypeOK, RowsFollowTasks, RowFollowsTask,
    Terminal, HasResult, ResultOf, Live, Inside, Endings
<1>10. ASSUME NEW h \in Hosts, NEW e \in Episodes, WriteLock(h, e) PROVE RowsFollowTasks'
  BY <1>10 DEF WriteLock, Running, hostVars, taskVars, LedgerTypeOK, RowsFollowTasks, RowFollowsTask,
    Terminal, HasResult, ResultOf, Live, Inside, Endings
<1>11. ASSUME NEW h \in Hosts, NEW e \in Episodes, WriteResult(h, e) PROVE RowsFollowTasks'
  BY <1>11 DEF WriteResult, Running, hostVars, taskVars, LedgerTypeOK, RowsFollowTasks, RowFollowsTask,
    Terminal, HasResult, ResultOf, Live, Inside, Endings
<1>12. ASSUME NEW h \in Hosts, NEW e \in Episodes, MakeArchive(h, e) PROVE RowsFollowTasks'
  BY <1>12 DEF MakeArchive, Running, IsLast, hostVars, taskVars, LedgerTypeOK, RowsFollowTasks,
    RowFollowsTask, Terminal, HasResult, ResultOf, Live, Inside, Endings
<1>13. ASSUME NEW h \in Hosts, NEW e \in Episodes, NEW r \in Records, ArchiveRecord(h, e, r) PROVE RowsFollowTasks'
  BY <1>13 DEF ArchiveRecord, Running, hostVars, taskVars, LedgerTypeOK, RowsFollowTasks,
    RowFollowsTask, Terminal, HasResult, ResultOf, Live, Inside, Endings
<1>14. ASSUME NEW h \in Hosts, NEW e \in Episodes, Retry(h, e) PROVE RowsFollowTasks'
  BY <1>14 DEF Retry, Running, Begin, hostVars, taskVars, LedgerTypeOK, RowsFollowTasks, RowFollowsTask,
    Terminal, HasResult, ResultOf, Live, Inside, Endings
<1>15. ASSUME NEW h \in Hosts, NEW e \in Episodes, LeaveGate(h, e) PROVE RowsFollowTasks'
  BY <1>15 DEF LeaveGate, Running, IsLast, hostVars, taskVars, LedgerTypeOK, RowsFollowTasks,
    RowFollowsTask, Terminal, HasResult, ResultOf, Live, Inside, Endings
<1>16. ASSUME NEW h \in Hosts, NEW e \in Episodes, FinishEpisode(h, e) PROVE RowsFollowTasks'
  <2>1. HasResult(e) /\ ResultOf(e) = outcome[e][attempt[e]] /\ ResultOf(e) \in Endings
    BY <1>16 DEF FinishEpisode, DirectoriesFollowTasks, DirectoryFollowsTask, HasResult, ResultOf,
      Live, Inside, Records
  <2>2. /\ row'[e].status = outcome[e][attempt[e]] /\ ~row'[e].phase /\ task'[e] = "done"
        /\ UNCHANGED <<current, outcome>>
    BY <1>16 DEF FinishEpisode, LedgerTypeOK
  <2>3. RowFollowsTask(e)'
    BY <2>1, <2>2 DEF RowFollowsTask, Terminal, HasResult, ResultOf, Live, Inside, Endings
  <2>4. ASSUME NEW f \in Episodes \ {e} PROVE RowFollowsTask(f)'
    <3>1. row'[f] = row[f] /\ task'[f] = task[f]
      BY <1>16 DEF FinishEpisode, LedgerTypeOK
    <3>2. QED
      BY <2>2, <3>1 DEF RowsFollowTasks, RowFollowsTask, HasResult, ResultOf
  <2>5. QED
    BY <2>3, <2>4 DEF RowsFollowTasks
<1>17. ASSUME NEW h \in Hosts, NEW e \in Episodes, Raise(h, e) PROVE RowsFollowTasks'
  BY <1>17 DEF Raise, Running, hostVars, taskVars, LedgerTypeOK, RowsFollowTasks, RowFollowsTask,
    Terminal, HasResult, ResultOf, Live, Inside, Endings
<1>18. ASSUME NEW h \in Hosts, Close(h) PROVE RowsFollowTasks'
  BY <1>18 DEF Close, hostVars, taskVars, LedgerTypeOK, RowsFollowTasks, RowFollowsTask, Terminal,
    HasResult, ResultOf, Live, Inside, Endings
<1>19. ASSUME NEW h \in Hosts, Kill(h) PROVE RowsFollowTasks'
  BY <1>19 DEF Kill, hostVars, taskVars, LedgerTypeOK, RowsFollowTasks, RowFollowsTask, Terminal,
    HasResult, ResultOf, Live, Inside, Endings
<1>20. CASE UNCHANGED ledgerVars
  BY <1>20 DEF ledgerVars, hostVars, taskVars, LedgerTypeOK, RowsFollowTasks, RowFollowsTask, Terminal,
    HasResult, ResultOf, Live, Inside, Endings
<1>21. QED
  BY <1>1, <1>2, <1>3, <1>4, <1>5, <1>6, <1>7, <1>8, <1>9, <1>10, <1>11, <1>12, <1>13,
    <1>14, <1>15, <1>16, <1>17, <1>18, <1>19, <1>20 DEF LedgerNext, OpenStep, EpisodeStep

(* What has been reconciled agrees with the results. *)
LEMMA ReconcilingStep ==
  ASSUME LedgerAssumption, LedgerTypeOK, TasksFollowHosts, DirectoriesFollowTasks,
         HeldRowsExist, OneAtATime, RowsFollowTasks, Reconciling, ~together', [LedgerNext]_ledgerVars
  PROVE  Reconciling'
<1>1. ASSUME NEW h \in Hosts, Open(h) PROVE Reconciling'
  <2>1. \A g \in Hosts : host'[g] = "reconcile" => g = h
    BY <1>1 DEF Open, Alive, LedgerTypeOK
  <2>2. held'[h] = NoRow
    BY <1>1 DEF Open, HeldRowsExist
  <2>3. \A e \in Episodes : HasResult(e) => row[e].status # "none"
    BY DEF HasResult, Empty, Records, TasksFollowHosts, TaskFollowsHost, DirectoriesFollowTasks, DirectoryFollowsTask
  <2>4. /\ \A e \in Episodes : row[e].status # "none" => e \in unread'[h]
        /\ UNCHANGED <<current, outcome>>
    BY <1>1 DEF Open, LedgerTypeOK, taskVars
  <2>5. QED
    BY <2>1, <2>2, <2>3, <2>4 DEF Reconciling, HasResult, ResultOf
<1>2. ASSUME NEW h \in Hosts, NEW e \in Episodes, ReadResult(h, e) PROVE Reconciling'
  <2>1. \A g \in Hosts : host'[g] = "reconcile" => g = h
    BY <1>2 DEF ReadResult, OneAtATime, Alive
  <2>2. /\ HasResult(e) => held'[h] = [episode |-> e, status |-> ResultOf(e)]
        /\ ~HasResult(e) => held'[h] = NoRow
    BY <1>2 DEF ReadResult, LedgerTypeOK
  <2>3. /\ held[h] = NoRow /\ unread'[h] = unread[h] \ {e}
        /\ UNCHANGED <<host, row, current, outcome>>
    BY <1>2 DEF ReadResult, LedgerTypeOK, taskVars
  <2>4. ASSUME HasResult(e)
        PROVE  held'[h] # NoRow /\ held'[h].episode = e /\ held'[h].status = ResultOf(e)
    BY <2>2, <2>4 DEF LedgerAssumption, DirectoriesFollowTasks, DirectoryFollowsTask, Endings
  <2>5. \A f \in Episodes : HasResult(f) => row[f].status = ResultOf(f) \/ f \in unread[h]
    BY <1>2, <2>3 DEF ReadResult, Reconciling
  <2>6. QED
    BY <2>1, <2>2, <2>3, <2>4, <2>5 DEF Reconciling, HasResult, ResultOf
<1>3. ASSUME NEW h \in Hosts, ProjectResult(h) PROVE Reconciling'
  BY <1>3 DEF ProjectResult, hostVars, taskVars, LedgerTypeOK, Reconciling, HasResult, ResultOf
<1>4. ASSUME NEW h \in Hosts, InterruptStaleRows(h) PROVE Reconciling'
  BY <1>4 DEF InterruptStaleRows, OneAtATime, Alive, Reconciling, LedgerTypeOK
<1>5. ASSUME NEW h \in Hosts, CountDone(h) PROVE Reconciling'
  BY <1>5 DEF CountDone, hostVars, taskVars, LedgerTypeOK, Reconciling, HasResult, ResultOf
<1>6. ASSUME NEW h \in Hosts, NEW e \in Episodes, QueueEpisode(h, e) PROVE Reconciling'
  BY <1>6 DEF QueueEpisode, hostVars, OneAtATime, Alive, Reconciling
<1>7. ASSUME NEW h \in Hosts, StartEpisodes(h) PROVE Reconciling'
  BY <1>7 DEF StartEpisodes, hostVars, taskVars, LedgerTypeOK, Reconciling, HasResult, ResultOf
<1>8. ASSUME NEW h \in Hosts, NEW e \in Episodes, MarkRunning(h, e) PROVE Reconciling'
  BY <1>8 DEF MarkRunning, Running, hostVars, OneAtATime, Alive, Reconciling
<1>9. ASSUME NEW h \in Hosts, NEW e \in Episodes, UpdatePhase(h, e) PROVE Reconciling'
  BY <1>9 DEF UpdatePhase, Running, hostVars, taskVars, LedgerTypeOK, Reconciling, HasResult, ResultOf
<1>10. ASSUME NEW h \in Hosts, NEW e \in Episodes, WriteLock(h, e) PROVE Reconciling'
  BY <1>10 DEF WriteLock, Running, hostVars, taskVars, LedgerTypeOK, Reconciling, HasResult, ResultOf
<1>11. ASSUME NEW h \in Hosts, NEW e \in Episodes, WriteResult(h, e) PROVE Reconciling'
  BY <1>11 DEF WriteResult, Running, hostVars, OneAtATime, Alive, Reconciling
<1>12. ASSUME NEW h \in Hosts, NEW e \in Episodes, MakeArchive(h, e) PROVE Reconciling'
  BY <1>12 DEF MakeArchive, hostVars, taskVars, LedgerTypeOK, Reconciling, HasResult, ResultOf
<1>13. ASSUME NEW h \in Hosts, NEW e \in Episodes, NEW r \in Records, ArchiveRecord(h, e, r) PROVE Reconciling'
  BY <1>13 DEF ArchiveRecord, Running, hostVars, OneAtATime, Alive, Reconciling
<1>14. ASSUME NEW h \in Hosts, NEW e \in Episodes, Retry(h, e) PROVE Reconciling'
  BY <1>14 DEF Retry, hostVars, taskVars, LedgerTypeOK, Reconciling, HasResult, ResultOf
<1>15. ASSUME NEW h \in Hosts, NEW e \in Episodes, LeaveGate(h, e) PROVE Reconciling'
  BY <1>15 DEF LeaveGate, hostVars, taskVars, LedgerTypeOK, Reconciling, HasResult, ResultOf
<1>16. ASSUME NEW h \in Hosts, NEW e \in Episodes, FinishEpisode(h, e) PROVE Reconciling'
  BY <1>16 DEF FinishEpisode, Running, hostVars, OneAtATime, Alive, Reconciling
<1>17. ASSUME NEW h \in Hosts, NEW e \in Episodes, Raise(h, e) PROVE Reconciling'
  BY <1>17 DEF Raise, hostVars, taskVars, LedgerTypeOK, Reconciling, HasResult, ResultOf
<1>18. ASSUME NEW h \in Hosts, Close(h) PROVE Reconciling'
  BY <1>18 DEF Close, hostVars, taskVars, LedgerTypeOK, Reconciling, HasResult, ResultOf
<1>19. ASSUME NEW h \in Hosts, Kill(h) PROVE Reconciling'
  BY <1>19 DEF Kill, hostVars, taskVars, LedgerTypeOK, Reconciling, HasResult, ResultOf
<1>20. CASE UNCHANGED ledgerVars
  BY <1>20 DEF ledgerVars, hostVars, taskVars, LedgerTypeOK, Reconciling, HasResult, ResultOf
<1>21. QED
  BY <1>1, <1>2, <1>3, <1>4, <1>5, <1>6, <1>7, <1>8, <1>9, <1>10, <1>11, <1>12, <1>13,
    <1>14, <1>15, <1>16, <1>17, <1>18, <1>19, <1>20 DEF LedgerNext, OpenStep, EpisodeStep

(* Rows in progress belong to the invocation that runs. *)
LEMMA OwnersStep ==
  ASSUME LedgerAssumption, LedgerTypeOK, TasksFollowHosts, OneAtATime, OwnersAreCurrent,
         HeldRowsExist, ~together', [LedgerNext]_ledgerVars
  PROVE  OwnersAreCurrent'
<1>1. ASSUME NEW h \in Hosts, Open(h) PROVE OwnersAreCurrent'
  BY <1>1 DEF Open, hostVars, taskVars, LedgerTypeOK, OwnersAreCurrent, OneAtATime, Alive, Endings
<1>2. ASSUME NEW h \in Hosts, NEW e \in Episodes, ReadResult(h, e) PROVE OwnersAreCurrent'
  BY <1>2 DEF ReadResult, hostVars, taskVars, LedgerTypeOK, OwnersAreCurrent, OneAtATime, Alive,
    Endings
<1>3. ASSUME NEW h \in Hosts, ProjectResult(h) PROVE OwnersAreCurrent'
  BY <1>3 DEF ProjectResult, hostVars, taskVars, LedgerTypeOK, OwnersAreCurrent, OneAtATime, Alive,
    Endings
<1>4. ASSUME NEW h \in Hosts, InterruptStaleRows(h) PROVE OwnersAreCurrent'
  BY <1>4 DEF InterruptStaleRows, hostVars, taskVars, LedgerTypeOK, OwnersAreCurrent, OneAtATime,
    Alive, Endings
<1>5. ASSUME NEW h \in Hosts, CountDone(h) PROVE OwnersAreCurrent'
  BY <1>5 DEF CountDone, hostVars, taskVars, LedgerTypeOK, OwnersAreCurrent, OneAtATime, Alive,
    Endings
<1>6. ASSUME NEW h \in Hosts, NEW e \in Episodes, QueueEpisode(h, e) PROVE OwnersAreCurrent'
  BY <1>6 DEF QueueEpisode, Fresh, hostVars, taskVars, LedgerTypeOK, OwnersAreCurrent, OneAtATime,
    Alive, Endings
<1>7. ASSUME NEW h \in Hosts, StartEpisodes(h) PROVE OwnersAreCurrent'
  BY <1>7 DEF StartEpisodes, hostVars, taskVars, LedgerTypeOK, OwnersAreCurrent, OneAtATime, Alive,
    Endings
<1>8. ASSUME NEW h \in Hosts, NEW e \in Episodes, MarkRunning(h, e) PROVE OwnersAreCurrent'
  BY <1>8 DEF MarkRunning, Running, Begin, hostVars, taskVars, LedgerTypeOK, OwnersAreCurrent,
    OneAtATime, Alive, Endings
<1>9. ASSUME NEW h \in Hosts, NEW e \in Episodes, UpdatePhase(h, e) PROVE OwnersAreCurrent'
  BY <1>9 DEF UpdatePhase, Running, hostVars, taskVars, LedgerTypeOK, OwnersAreCurrent, OneAtATime,
    Alive, Endings
<1>10. ASSUME NEW h \in Hosts, NEW e \in Episodes, WriteLock(h, e) PROVE OwnersAreCurrent'
  BY <1>10 DEF WriteLock, hostVars, taskVars, LedgerTypeOK, OwnersAreCurrent, OneAtATime, Alive,
    Endings
<1>11. ASSUME NEW h \in Hosts, NEW e \in Episodes, WriteResult(h, e) PROVE OwnersAreCurrent'
  BY <1>11 DEF WriteResult, hostVars, taskVars, LedgerTypeOK, OwnersAreCurrent, OneAtATime, Alive,
    Endings
<1>12. ASSUME NEW h \in Hosts, NEW e \in Episodes, MakeArchive(h, e) PROVE OwnersAreCurrent'
  BY <1>12 DEF MakeArchive, hostVars, taskVars, LedgerTypeOK, OwnersAreCurrent, OneAtATime, Alive,
    Endings
<1>13. ASSUME NEW h \in Hosts, NEW e \in Episodes, NEW r \in Records, ArchiveRecord(h, e, r) PROVE OwnersAreCurrent'
  BY <1>13 DEF ArchiveRecord, hostVars, taskVars, LedgerTypeOK, OwnersAreCurrent, OneAtATime, Alive,
    Endings
<1>14. ASSUME NEW h \in Hosts, NEW e \in Episodes, Retry(h, e) PROVE OwnersAreCurrent'
  BY <1>14 DEF Retry, hostVars, taskVars, LedgerTypeOK, OwnersAreCurrent, OneAtATime, Alive, Endings
<1>15. ASSUME NEW h \in Hosts, NEW e \in Episodes, LeaveGate(h, e) PROVE OwnersAreCurrent'
  BY <1>15 DEF LeaveGate, hostVars, taskVars, LedgerTypeOK, OwnersAreCurrent, OneAtATime, Alive,
    Endings
<1>16. ASSUME NEW h \in Hosts, NEW e \in Episodes, FinishEpisode(h, e) PROVE OwnersAreCurrent'
  BY <1>16 DEF FinishEpisode, Running, hostVars, taskVars, LedgerTypeOK, OwnersAreCurrent, OneAtATime,
    Alive, Endings
<1>17. ASSUME NEW h \in Hosts, NEW e \in Episodes, Raise(h, e) PROVE OwnersAreCurrent'
  BY <1>17 DEF Raise, hostVars, taskVars, LedgerTypeOK, OwnersAreCurrent, OneAtATime, Alive, Endings
<1>18. ASSUME NEW h \in Hosts, Close(h) PROVE OwnersAreCurrent'
  BY <1>18 DEF Close, hostVars, taskVars, LedgerTypeOK, OwnersAreCurrent, OneAtATime, Alive, Endings
<1>19. ASSUME NEW h \in Hosts, Kill(h) PROVE OwnersAreCurrent'
  BY <1>19 DEF Kill, hostVars, taskVars, LedgerTypeOK, OwnersAreCurrent, OneAtATime, Alive, Endings
<1>20. CASE UNCHANGED ledgerVars
  BY <1>20 DEF ledgerVars, hostVars, taskVars, LedgerTypeOK, OwnersAreCurrent, OneAtATime, Alive, Endings
<1>21. QED
  BY <1>1, <1>2, <1>3, <1>4, <1>5, <1>6, <1>7, <1>8, <1>9, <1>10, <1>11, <1>12, <1>13,
    <1>14, <1>15, <1>16, <1>17, <1>18, <1>19, <1>20 DEF LedgerNext, OpenStep, EpisodeStep

(* A row that has an owner keeps it. *)
LEMMA RowsKeptStep ==
  ASSUME LedgerAssumption, LedgerTypeOK, TasksFollowHosts, TasksFollowHosts', [LedgerNext]_ledgerVars
  PROVE  RowsKept
BY DrawnStep DEF RowsKept, TasksFollowHosts, TaskFollowsHost

(* The invariant holds at first and is preserved. *)
LEMMA InvariantStep ==
  ASSUME LedgerAssumption, LedgerInvariant, [LedgerNext]_ledgerVars
  PROVE  LedgerInvariant'
<1> USE DEF LedgerInvariant
<1>1. LedgerTypeOK'
  BY TypeStep
<1>2. TasksFollowHosts' /\ DirectoriesFollowTasks'
  BY TasksStep, DirectoriesStep
<1>3. SameResults /\ RowsKept
  BY <1>2, ResultsStep, RowsKeptStep
<1>4. HeldRowsExist' /\ CompletedIsDurable'
  BY <1>3, HeldStep, CompletedStep
<1>5. ASSUME ~together'
      PROVE  OneAtATime' /\ RowsFollowTasks' /\ Reconciling' /\ OwnersAreCurrent'
  <2>1. OneAtATime /\ RowsFollowTasks /\ Reconciling /\ OwnersAreCurrent
    BY <1>5, OverlapStays
  <2>2. QED
    BY <1>5, <2>1, OneAtATimeStep, RowsStep, ReconcilingStep, OwnersStep
<1>6. QED
  BY <1>1, <1>2, <1>4, <1>5

(* What invocations and their kills leave behind is consistent: the         *)
(* inductive invariant of ledger.py and the episode loop.                   *)
THEOREM LedgerInvariantHolds == LedgerSpec => []LedgerInvariant
<1>1. LedgerInit => LedgerInvariant
  <2>1. SUFFICES ASSUME LedgerInit PROVE LedgerInvariant
    OBVIOUS
  <2>2. Empty \in Holding /\ \A r \in Records : Empty[r] = 0
    BY DEF Empty, Holding
  <2>3. LedgerTypeOK
    <3>1. 0 \in Attempts \cup {0} /\ NoRow \in {NoRow} \cup [episode: Episodes, status: Endings]
      OBVIOUS
    <3>2. [status |-> "none", phase |-> FALSE] \in [status: Statuses, phase: BOOLEAN]
      BY DEF Statuses
    <3>3. row \in [Episodes -> [status: Statuses, phase: BOOLEAN]]
      BY <2>1, <3>2 DEF LedgerInit
    <3>4. current \in [Episodes -> Holding] /\ archive \in [Episodes -> [Attempts -> Holding]]
      BY <2>1, <2>2 DEF LedgerInit
    <3>5. /\ host \in [Hosts -> {"new", "reconcile", "count", "queue", "run", "ended", "killed"}]
          /\ unread \in [Hosts -> SUBSET Episodes]
          /\ left \in [Hosts -> Nat]
          /\ goal \in Nat /\ together \in BOOLEAN
      BY <2>1 DEF LedgerInit
    <3>6. held \in [Hosts -> {NoRow} \cup [episode: Episodes, status: Endings]]
      BY <2>1, <3>1 DEF LedgerInit
    <3>7. /\ owner \in [Episodes -> Hosts \cup {NoHost}]
          /\ task \in [Episodes -> Inside \cup {"none", "waiting", "settled", "done", "raised"}]
          /\ attempt \in [Episodes -> Attempts \cup {0}]
          /\ outcome \in [Episodes -> [Attempts -> Endings \cup {"none"}]]
      BY <2>1 DEF LedgerInit
    <3>8. QED
      BY <3>3, <3>4, <3>5, <3>6, <3>7 DEF LedgerTypeOK
  <2>4. /\ \A e \in Episodes : /\ row[e] = [status |-> "none", phase |-> FALSE]
                               /\ owner[e] = NoHost /\ task[e] = "none"
                               /\ current[e] = Empty
                               /\ \A n \in Attempts : archive[e][n] = Empty
        /\ \A h \in Hosts : host[h] = "new" /\ unread[h] = {} /\ held[h] = NoRow
    BY <2>1 DEF LedgerInit
  <2>5. TasksFollowHosts
    BY <2>4 DEF TasksFollowHosts, TaskFollowsHost, Live, Inside
  <2>6. HeldRowsExist
    BY <2>4 DEF HeldRowsExist
  <2>7. CompletedIsDurable
    BY <2>4 DEF CompletedIsDurable
  <2>8. DirectoriesFollowTasks
    <3>1. \A e \in Episodes : ~HasResult(e)
      BY <2>2, <2>4 DEF HasResult, Records
    <3>2. \A e \in Episodes, n \in Attempts, r \in Records : archive[e][n][r] \in {0, n}
      BY <2>2, <2>4
    <3>3. QED
      BY <2>4, <3>1, <3>2 DEF DirectoriesFollowTasks, DirectoryFollowsTask, Live, Inside
  <2>9. OneAtATime /\ Reconciling
    BY <2>4 DEF OneAtATime, Alive, Reconciling
  <2>10. RowsFollowTasks /\ OwnersAreCurrent
    BY <2>4 DEF RowsFollowTasks, RowFollowsTask, OwnersAreCurrent, Live, Inside, Terminal,
      Endings
  <2>11. QED
    BY <2>3, <2>5, <2>6, <2>7, <2>8, <2>9, <2>10 DEF LedgerInvariant
<1>2. LedgerInvariant /\ [LedgerNext]_ledgerVars => LedgerInvariant'
  BY InvariantStep, LedgerAssumption
<1>3. QED
  BY <1>1, <1>2, PTL DEF LedgerSpec

(* No row says "completed" without a completed result.json: finish_episode  *)
(* and the reconciliation at opening, even of overlapping invocations.      *)
THEOREM CompletedIsDurableHolds == LedgerSpec => []CompletedIsDurable
<1>1. LedgerInvariant => CompletedIsDurable
  BY DEF LedgerInvariant
<1>2. QED
  BY <1>1, LedgerInvariantHolds, PTL

(* A terminal row repeats its durable result, through kills at any point.   *)
THEOREM RowsFollowResultsHolds == LedgerSpec => []RowsFollowResults
<1>1. LedgerInvariant => RowsFollowResults
  BY DEF LedgerInvariant, RowsFollowResults, RowsFollowTasks, RowFollowsTask
<1>2. QED
  BY <1>1, LedgerInvariantHolds, PTL

(* run_episode_with_retries: an attempt starts in a directory without the   *)
(* records of the attempts before it, which are archived and failed.        *)
THEOREM RetriesStartCleanHolds == LedgerSpec => []RetriesStartClean
<1>1. LedgerInvariant => RetriesStartClean
  <2>1. SUFFICES ASSUME LedgerInvariant, NEW e \in Episodes, task[e] = "working"
                 PROVE  /\ \A r \in Records : current[e][r] \in {0, attempt[e]}
                        /\ ~HasResult(e)
                        /\ \A n \in Attempts : n < attempt[e] =>
                             /\ outcome[e][n] = "failed"
                             /\ archive[e][n].lock \in {0, n} /\ archive[e][n].result = n
    BY DEF RetriesStartClean
  <2>2. DirectoryFollowsTask(e)
    BY <2>1 DEF LedgerInvariant, DirectoriesFollowTasks
  <2>3. QED
    BY <2>1, <2>2 DEF DirectoryFollowsTask, Live, Inside, Records
<1>2. QED
  BY <1>1, LedgerInvariantHolds, PTL

(* After _interrupt_stale_rows no row of a dead invocation is in progress.  *)
THEOREM StaleRowsAreInterruptedHolds == LedgerSpec => []StaleRowsAreInterrupted
<1>1. LedgerInvariant => StaleRowsAreInterrupted
  BY DEF LedgerInvariant, StaleRowsAreInterrupted
<1>2. QED
  BY <1>1, LedgerInvariantHolds, PTL

(* A terminal or interrupted row is not rewritten by a later invocation.    *)
LEMMA FinalRowsStep ==
  ASSUME LedgerAssumption, LedgerInvariant, [LedgerNext]_ledgerVars, ~together',
         NEW f \in Episodes, row[f].status \in Endings \cup {"interrupted"}
  PROVE  row'[f] = row[f]
<1> DEFINE Kept == row'[f] = row[f]
<1>1. /\ LedgerTypeOK /\ TasksFollowHosts /\ HeldRowsExist /\ RowsFollowTasks /\ Reconciling
      /\ RowFollowsTask(f) /\ TaskFollowsHost(f)
  BY OverlapStays DEF LedgerInvariant, RowsFollowTasks, TasksFollowHosts
<1>2. ~row[f].phase
  BY <1>1 DEF RowFollowsTask, Endings
<1>3. task[f] \notin Live /\ task[f] # "none"
  BY <1>1 DEF RowFollowsTask, TaskFollowsHost, Endings, Live, Inside
<1>4. ASSUME NEW h \in Hosts, ProjectResult(h) PROVE Kept
  <2>1. CASE held[h].episode # f
    BY <1>1, <1>4, <2>1 DEF ProjectResult, LedgerTypeOK
  <2>2. CASE held[h].episode = f
    <3>1. HasResult(f) /\ held[h].status = ResultOf(f)
      BY <1>1, <1>4, <2>2 DEF ProjectResult, Reconciling
    <3>2. row[f].status = held[h].status
      BY <1>1, <3>1 DEF RowFollowsTask, Terminal
    <3>3. row[f] = [status |-> held[h].status, phase |-> FALSE]
      BY <1>1, <1>2, <3>2 DEF LedgerTypeOK
    <3>4. row'[f] = [status |-> held[h].status, phase |-> FALSE]
      BY <1>1, <1>4, <2>2 DEF ProjectResult, LedgerTypeOK
    <3>5. QED
      BY <3>3, <3>4
  <2>3. QED
    BY <2>1, <2>2
<1>5. ASSUME NEW h \in Hosts, InterruptStaleRows(h) PROVE Kept
  BY <1>1, <1>5 DEF InterruptStaleRows, LedgerTypeOK, Endings
<1>6. ASSUME NEW h \in Hosts, NEW e \in Episodes, QueueEpisode(h, e) PROVE Kept
  BY <1>1, <1>3, <1>6 DEF QueueEpisode, Fresh, LedgerTypeOK, TaskFollowsHost
<1>7. ASSUME NEW h \in Hosts, NEW e \in Episodes,
             MarkRunning(h, e) \/ UpdatePhase(h, e) \/ FinishEpisode(h, e)
      PROVE  Kept
  BY <1>1, <1>3, <1>7 DEF MarkRunning, UpdatePhase, FinishEpisode, LedgerTypeOK, Live, Inside
<1>8. ASSUME row' = row PROVE Kept
  BY <1>8
<1>9. ASSUME NEW h \in Hosts, Open(h) PROVE row' = row
  BY <1>9 DEF Open
<1>10. ASSUME NEW h \in Hosts, NEW e \in Episodes, ReadResult(h, e) PROVE row' = row
  BY <1>10 DEF ReadResult
<1>11. ASSUME NEW h \in Hosts, CountDone(h) PROVE row' = row
  BY <1>11 DEF CountDone
<1>12. ASSUME NEW h \in Hosts, StartEpisodes(h) PROVE row' = row
  BY <1>12 DEF StartEpisodes
<1>13. ASSUME NEW h \in Hosts, NEW e \in Episodes, WriteLock(h, e) PROVE row' = row
  BY <1>13 DEF WriteLock
<1>14. ASSUME NEW h \in Hosts, NEW e \in Episodes, WriteResult(h, e) PROVE row' = row
  BY <1>14 DEF WriteResult
<1>15. ASSUME NEW h \in Hosts, NEW e \in Episodes, MakeArchive(h, e) PROVE row' = row
  BY <1>15 DEF MakeArchive
<1>16. ASSUME NEW h \in Hosts, NEW e \in Episodes, NEW r \in Records, ArchiveRecord(h, e, r) PROVE row' = row
  BY <1>16 DEF ArchiveRecord
<1>17. ASSUME NEW h \in Hosts, NEW e \in Episodes, Retry(h, e) PROVE row' = row
  BY <1>17 DEF Retry
<1>18. ASSUME NEW h \in Hosts, NEW e \in Episodes, LeaveGate(h, e) PROVE row' = row
  BY <1>18 DEF LeaveGate
<1>19. ASSUME NEW h \in Hosts, NEW e \in Episodes, Raise(h, e) PROVE row' = row
  BY <1>19 DEF Raise
<1>20. ASSUME NEW h \in Hosts, Close(h) PROVE row' = row
  BY <1>20 DEF Close
<1>21. ASSUME NEW h \in Hosts, Kill(h) PROVE row' = row
  BY <1>21 DEF Kill
<1>22. CASE UNCHANGED ledgerVars
  BY <1>22 DEF ledgerVars
<1>23. QED
  BY <1>4, <1>5, <1>6, <1>7, <1>8, <1>9, <1>10, <1>11, <1>12, <1>13, <1>14, <1>15,
    <1>16, <1>17, <1>18, <1>19, <1>20, <1>21, <1>22 DEF LedgerNext, OpenStep, EpisodeStep

(* An invocation never rewrites what an earlier one finished or interrupted. *)
THEOREM FinalRowsStayHolds == LedgerSpec => FinalRowsStay
<1>1. LedgerInvariant /\ [LedgerNext]_ledgerVars =>
        [~together' => \A e \in Episodes :
           row[e].status \in Endings \cup {"interrupted"} => row'[e] = row[e]]_ledgerVars
  BY FinalRowsStep, LedgerAssumption
<1>2. QED
  BY <1>1, LedgerInvariantHolds, PTL DEF LedgerSpec, FinalRowsStay

(* Only queueing an episode promises a success: the others run what is       *)
(* promised, or give it up (one, run_episode_with_retries).                  *)
LEMMA OnlyQueueingPromises ==
  ASSUME LedgerAssumption, LedgerTypeOK, TasksFollowHosts, DirectoriesFollowTasks, [LedgerNext]_ledgerVars,
         \A h \in Hosts, e \in Episodes : ~QueueEpisode(h, e)
  PROVE  Promised' \subseteq Promised
<1> SUFFICES ASSUME NEW f \in Episodes, f \in Promised' PROVE f \in Promised
  BY DEF Promised, Successes
<1> DEFINE Succeeded == HasResult(f) /\ ResultOf(f) = "completed"
<1>0. /\ Succeeded' \/ task'[f] \in Live
      /\ f \in Promised <=> (Succeeded \/ task[f] \in Live)
  BY DEF Promised, Successes
<1> HIDE DEF Succeeded

<1>1. ASSUME NEW h \in Hosts, Open(h) PROVE f \in Promised
  BY <1>0, <1>1 DEF Open, taskVars, hostVars, Succeeded, HasResult, ResultOf
<1>2. ASSUME NEW h \in Hosts, NEW e \in Episodes, ReadResult(h, e) PROVE f \in Promised
  BY <1>0, <1>2 DEF ReadResult, taskVars, hostVars, Succeeded, HasResult, ResultOf
<1>3. ASSUME NEW h \in Hosts, ProjectResult(h) PROVE f \in Promised
  BY <1>0, <1>3 DEF ProjectResult, taskVars, hostVars, Succeeded, HasResult, ResultOf
<1>4. ASSUME NEW h \in Hosts, InterruptStaleRows(h) PROVE f \in Promised
  BY <1>0, <1>4 DEF InterruptStaleRows, taskVars, hostVars, Succeeded, HasResult, ResultOf
<1>5. ASSUME NEW h \in Hosts, CountDone(h) PROVE f \in Promised
  BY <1>0, <1>5 DEF CountDone, taskVars, hostVars, Succeeded, HasResult, ResultOf
<1>6. ASSUME NEW h \in Hosts, StartEpisodes(h) PROVE f \in Promised
  BY <1>0, <1>6 DEF StartEpisodes, taskVars, hostVars, Succeeded, HasResult, ResultOf
<1>7. ASSUME NEW h \in Hosts, NEW e \in Episodes, MarkRunning(h, e) PROVE f \in Promised
  BY <1>0, <1>7 DEF MarkRunning, Running, Begin, hostVars, LedgerTypeOK, Succeeded, HasResult,
     ResultOf, Live, Inside
<1>8. ASSUME NEW h \in Hosts, NEW e \in Episodes, UpdatePhase(h, e) PROVE f \in Promised
  BY <1>0, <1>8 DEF UpdatePhase, taskVars, hostVars, Succeeded, HasResult, ResultOf
<1>9. ASSUME NEW h \in Hosts, NEW e \in Episodes, WriteLock(h, e) PROVE f \in Promised
  BY <1>0, <1>9 DEF WriteLock, hostVars, LedgerTypeOK, Holding, Records, Succeeded, HasResult,
     ResultOf
<1>10. ASSUME NEW h \in Hosts, NEW e \in Episodes, WriteResult(h, e) PROVE f \in Promised
  BY <1>0, <1>10 DEF WriteResult, Running, hostVars, LedgerTypeOK, Holding, Records,
     Succeeded, HasResult, ResultOf, Live, Inside
<1>11. ASSUME NEW h \in Hosts, NEW e \in Episodes, MakeArchive(h, e) PROVE f \in Promised
  BY <1>0, <1>11 DEF MakeArchive, Running, Begin, hostVars, LedgerTypeOK, Succeeded,
     HasResult, ResultOf, Live, Inside
<1>12. ASSUME NEW h \in Hosts, NEW e \in Episodes, NEW r \in Records, ArchiveRecord(h, e, r) PROVE f \in Promised
  BY <1>0, <1>12 DEF ArchiveRecord, Running, hostVars, LedgerTypeOK, Holding, Records,
     Succeeded, HasResult, ResultOf, Live, Inside
<1>13. ASSUME NEW h \in Hosts, NEW e \in Episodes, Retry(h, e) PROVE f \in Promised
  BY <1>0, <1>13 DEF Retry, Running, Begin, hostVars, LedgerTypeOK, Succeeded, HasResult,
     ResultOf, Live, Inside
<1>14. ASSUME NEW h \in Hosts, NEW e \in Episodes, LeaveGate(h, e) PROVE f \in Promised
  BY <1>0, <1>14 DEF LeaveGate, Running, Begin, hostVars, LedgerTypeOK, Succeeded, HasResult,
     ResultOf, Live, Inside
<1>15. ASSUME NEW h \in Hosts, NEW e \in Episodes, FinishEpisode(h, e) PROVE f \in Promised
  BY <1>0, <1>15 DEF FinishEpisode, Running, Begin, hostVars, LedgerTypeOK, Succeeded,
     HasResult, ResultOf, Live, Inside
<1>16. ASSUME NEW h \in Hosts, NEW e \in Episodes, Raise(h, e) PROVE f \in Promised
  BY <1>0, <1>16 DEF Raise, Running, Begin, hostVars, LedgerTypeOK, Succeeded, HasResult,
     ResultOf, Live, Inside
<1>17. ASSUME NEW h \in Hosts, Close(h) PROVE f \in Promised
  BY <1>0, <1>17 DEF Close, taskVars, hostVars, Succeeded, HasResult, ResultOf
<1>18. ASSUME NEW h \in Hosts, Kill(h) PROVE f \in Promised
  BY <1>0, <1>18 DEF Kill, hostVars, LedgerTypeOK, Succeeded, HasResult, ResultOf, Live, Inside
<1>19. CASE UNCHANGED ledgerVars
  BY <1>0, <1>19 DEF ledgerVars, taskVars, Succeeded, HasResult, ResultOf
<1>20. QED
  BY <1>1, <1>2, <1>3, <1>4, <1>5, <1>6, <1>7, <1>8, <1>9, <1>10, <1>11, <1>12, <1>13, <1>14,
     <1>15, <1>16, <1>17, <1>18, <1>19
     DEF LedgerNext, OpenStep, EpisodeStep

(* What promises is finite, so it is counted.                                *)
LEMMA PromisedIsFinite ==
  ASSUME LedgerAssumption
  PROVE  /\ IsFiniteSet(Promised) /\ IsFiniteSet(Successes) /\ IsFiniteSet(Done)
         /\ Cardinality(Promised) \in Nat /\ Cardinality(Successes) \in Nat /\ Cardinality(Done) \in Nat
<1>1. Promised \subseteq Episodes /\ Successes \subseteq Episodes /\ Done \subseteq Episodes
  BY DEF Promised, Successes, Done
<1>2. IsFiniteSet(Promised) /\ IsFiniteSet(Successes) /\ IsFiniteSet(Done)
  BY <1>1, FS_Subset DEF LedgerAssumption
<1>3. QED BY <1>2, FS_CardinalityType

(* An invocation's count is decided after its rows are reconciled, while     *)
(* none runs beside it.                                                      *)
LEMMA CountingStep ==
  ASSUME LedgerAssumption, LedgerTypeOK, OneAtATime, ~together', [LedgerNext]_ledgerVars,
         NEW k \in Hosts, host'[k] = "count", ~InterruptStaleRows(k)
  PROVE  host[k] = "count" /\ UNCHANGED <<row, taskVars>>
<1> DEFINE Waits == host[k] = "count" /\ UNCHANGED <<row, taskVars>>
<1>1. ASSUME NEW h \in Hosts, Open(h) PROVE Waits
  BY <1>1 DEF Open, LedgerTypeOK, OneAtATime, Alive, hostVars
<1>2. ASSUME NEW h \in Hosts, NEW e \in Episodes, ReadResult(h, e) PROVE Waits
  BY <1>2 DEF ReadResult, LedgerTypeOK, OneAtATime, Alive, hostVars
<1>3. ASSUME NEW h \in Hosts, ProjectResult(h) PROVE Waits
  BY <1>3 DEF ProjectResult, LedgerTypeOK, OneAtATime, Alive, hostVars
<1>4. ASSUME NEW h \in Hosts, InterruptStaleRows(h) PROVE Waits
  BY <1>4 DEF InterruptStaleRows, LedgerTypeOK, OneAtATime, Alive, hostVars
<1>5. ASSUME NEW h \in Hosts, CountDone(h) PROVE Waits
  BY <1>5 DEF CountDone, LedgerTypeOK, OneAtATime, Alive, hostVars
<1>6. ASSUME NEW h \in Hosts, StartEpisodes(h) PROVE Waits
  BY <1>6 DEF StartEpisodes, LedgerTypeOK, OneAtATime, Alive, hostVars
<1>7. ASSUME NEW h \in Hosts, NEW e \in Episodes, MarkRunning(h, e) PROVE Waits
  BY <1>7 DEF MarkRunning, Running, LedgerTypeOK, OneAtATime, Alive, hostVars
<1>8. ASSUME NEW h \in Hosts, NEW e \in Episodes, UpdatePhase(h, e) PROVE Waits
  BY <1>8 DEF UpdatePhase, Running, LedgerTypeOK, OneAtATime, Alive, hostVars
<1>9. ASSUME NEW h \in Hosts, NEW e \in Episodes, WriteLock(h, e) PROVE Waits
  BY <1>9 DEF WriteLock, Running, LedgerTypeOK, OneAtATime, Alive, hostVars
<1>10. ASSUME NEW h \in Hosts, NEW e \in Episodes, WriteResult(h, e) PROVE Waits
  BY <1>10 DEF WriteResult, Running, LedgerTypeOK, OneAtATime, Alive, hostVars
<1>11. ASSUME NEW h \in Hosts, NEW e \in Episodes, MakeArchive(h, e) PROVE Waits
  BY <1>11 DEF MakeArchive, Running, LedgerTypeOK, OneAtATime, Alive, hostVars
<1>12. ASSUME NEW h \in Hosts, NEW e \in Episodes, NEW r \in Records, ArchiveRecord(h, e, r) PROVE Waits
  BY <1>12 DEF ArchiveRecord, Running, LedgerTypeOK, OneAtATime, Alive, hostVars
<1>13. ASSUME NEW h \in Hosts, NEW e \in Episodes, Retry(h, e) PROVE Waits
  BY <1>13 DEF Retry, Running, LedgerTypeOK, OneAtATime, Alive, hostVars
<1>14. ASSUME NEW h \in Hosts, NEW e \in Episodes, LeaveGate(h, e) PROVE Waits
  BY <1>14 DEF LeaveGate, Running, LedgerTypeOK, OneAtATime, Alive, hostVars
<1>15. ASSUME NEW h \in Hosts, NEW e \in Episodes, FinishEpisode(h, e) PROVE Waits
  BY <1>15 DEF FinishEpisode, Running, LedgerTypeOK, OneAtATime, Alive, hostVars
<1>16. ASSUME NEW h \in Hosts, NEW e \in Episodes, Raise(h, e) PROVE Waits
  BY <1>16 DEF Raise, Running, LedgerTypeOK, OneAtATime, Alive, hostVars
<1>17. ASSUME NEW h \in Hosts, Close(h) PROVE Waits
  BY <1>17 DEF Close, LedgerTypeOK, OneAtATime, Alive, hostVars
<1>18. ASSUME NEW h \in Hosts, Kill(h) PROVE Waits
  BY <1>18 DEF Kill, LedgerTypeOK, OneAtATime, Alive, hostVars
<1>19. ASSUME NEW h \in Hosts, NEW e \in Episodes, QueueEpisode(h, e) PROVE Waits
  BY <1>19 DEF QueueEpisode, LedgerTypeOK, OneAtATime, Alive, hostVars
<1>20. CASE UNCHANGED ledgerVars
  BY <1>20 DEF ledgerVars, hostVars
<1>21. QED
  BY <1>1, <1>2, <1>3, <1>4, <1>5, <1>6, <1>7, <1>8, <1>9, <1>10, <1>11, <1>12, <1>13, <1>14,
     <1>15, <1>16, <1>17, <1>18, <1>19, <1>20
     DEF LedgerNext, OpenStep, EpisodeStep

(* Counting what is done counts every success, since the ledger has been     *)
(* reconciled with the results (_reconcile, count_completed).                *)
LEMMA CountedStep ==
  ASSUME LedgerAssumption, LedgerInvariant, SuccessesArePromised, ~together', [LedgerNext]_ledgerVars
  PROVE  \A h \in Hosts : host'[h] = "count" => (Successes \subseteq Done)'
<1> SUFFICES ASSUME NEW h \in Hosts, host'[h] = "count" PROVE (Successes \subseteq Done)'
  OBVIOUS
<1>1. /\ LedgerTypeOK /\ OneAtATime /\ Reconciling /\ SuccessesArePromised /\ ~together
      /\ OneAtATime'
  BY OverlapStays, InvariantStep DEF LedgerInvariant
<1>2. CASE InterruptStaleRows(h)
  <2>1. \A e \in Successes : row[e].status = "completed"
    BY <1>1, <1>2 DEF InterruptStaleRows, Reconciling, Successes
  <2>2. \A e \in Episodes : row[e].status = "completed" => row'[e].status = "completed"
    BY <1>2 DEF InterruptStaleRows
  <2>3. UNCHANGED Successes
    BY <1>2 DEF InterruptStaleRows, taskVars, Successes, HasResult, ResultOf
  <2>4. QED BY <2>1, <2>2, <2>3 DEF Done, Successes
<1>3. CASE ~InterruptStaleRows(h)
  <2>1. host[h] = "count"
    BY <1>1, <1>3, CountingStep
  <2>2. UNCHANGED <<row, taskVars>>
    BY <1>1, <1>3, CountingStep
  <2>3. Successes \subseteq Done
    BY <1>1, <2>1 DEF SuccessesArePromised
  <2>4. QED BY <2>2, <2>3 DEF taskVars, Successes, HasResult, ResultOf, Done
<1>4. QED BY <1>2, <1>3

(* What is left to queue is only asked for by CountDone and taken by         *)
(* QueueEpisode.                                                             *)
LEMMA LeftStep ==
  ASSUME LedgerAssumption, LedgerTypeOK, OneAtATime, ~together', [LedgerNext]_ledgerVars,
         \A h \in Hosts : ~CountDone(h), \A h \in Hosts, e \in Episodes : ~QueueEpisode(h, e),
         NEW k \in Hosts, left[k] > 0 => host[k] = "queue"
  PROVE  /\ goal' = goal /\ (left'[k] = left[k] \/ left'[k] = 0)
         /\ left'[k] > 0 => host'[k] = "queue"
<1> DEFINE Left == /\ goal' = goal /\ (left'[k] = left[k] \/ left'[k] = 0)
                   /\ left'[k] > 0 => host'[k] = "queue"
<1>1. ASSUME NEW h \in Hosts, Open(h) PROVE Left
  BY <1>1 DEF Open, LedgerTypeOK, hostVars
<1>2. ASSUME NEW h \in Hosts, NEW e \in Episodes, ReadResult(h, e) PROVE Left
  BY <1>2 DEF ReadResult, LedgerTypeOK, hostVars
<1>3. ASSUME NEW h \in Hosts, ProjectResult(h) PROVE Left
  BY <1>3 DEF ProjectResult, LedgerTypeOK, hostVars
<1>4. ASSUME NEW h \in Hosts, InterruptStaleRows(h) PROVE Left
  BY <1>4 DEF InterruptStaleRows, LedgerTypeOK, hostVars
<1>5. ASSUME NEW h \in Hosts, StartEpisodes(h) PROVE Left
  BY <1>5 DEF StartEpisodes, LedgerTypeOK, hostVars
<1>6. ASSUME NEW h \in Hosts, NEW e \in Episodes, MarkRunning(h, e) PROVE Left
  BY <1>6 DEF MarkRunning, LedgerTypeOK, hostVars
<1>7. ASSUME NEW h \in Hosts, NEW e \in Episodes, UpdatePhase(h, e) PROVE Left
  BY <1>7 DEF UpdatePhase, LedgerTypeOK, hostVars
<1>8. ASSUME NEW h \in Hosts, NEW e \in Episodes, WriteLock(h, e) PROVE Left
  BY <1>8 DEF WriteLock, LedgerTypeOK, hostVars
<1>9. ASSUME NEW h \in Hosts, NEW e \in Episodes, WriteResult(h, e) PROVE Left
  BY <1>9 DEF WriteResult, LedgerTypeOK, hostVars
<1>10. ASSUME NEW h \in Hosts, NEW e \in Episodes, MakeArchive(h, e) PROVE Left
  BY <1>10 DEF MakeArchive, LedgerTypeOK, hostVars
<1>11. ASSUME NEW h \in Hosts, NEW e \in Episodes, NEW r \in Records, ArchiveRecord(h, e, r) PROVE Left
  BY <1>11 DEF ArchiveRecord, LedgerTypeOK, hostVars
<1>12. ASSUME NEW h \in Hosts, NEW e \in Episodes, Retry(h, e) PROVE Left
  BY <1>12 DEF Retry, LedgerTypeOK, hostVars
<1>13. ASSUME NEW h \in Hosts, NEW e \in Episodes, LeaveGate(h, e) PROVE Left
  BY <1>13 DEF LeaveGate, LedgerTypeOK, hostVars
<1>14. ASSUME NEW h \in Hosts, NEW e \in Episodes, FinishEpisode(h, e) PROVE Left
  BY <1>14 DEF FinishEpisode, LedgerTypeOK, hostVars
<1>15. ASSUME NEW h \in Hosts, NEW e \in Episodes, Raise(h, e) PROVE Left
  BY <1>15 DEF Raise, LedgerTypeOK, hostVars
<1>16. ASSUME NEW h \in Hosts, Close(h) PROVE Left
  BY <1>16 DEF Close, LedgerTypeOK, hostVars
<1>17. ASSUME NEW h \in Hosts, Kill(h) PROVE Left
  BY <1>17 DEF Kill, LedgerTypeOK, hostVars
<1>18. CASE UNCHANGED ledgerVars
  BY <1>18 DEF ledgerVars, hostVars
<1>19. QED
  BY <1>1, <1>2, <1>3, <1>4, <1>5, <1>6, <1>7, <1>8, <1>9, <1>10, <1>11, <1>12, <1>13, <1>14,
     <1>15, <1>16, <1>17, <1>18
     DEF LedgerNext, OpenStep, EpisodeStep

(* What is promised and what is left to queue stays within what was asked    *)
(* for: an invocation asks for what is missing of its count, or for its      *)
(* count anew (cli/tasks.py).                                                *)
LEMMA PromisedStep ==
  ASSUME LedgerAssumption, LedgerInvariant, SuccessesArePromised, [LedgerNext]_ledgerVars
  PROVE  SuccessesArePromised'
<1> SUFFICES ASSUME ~together'
             PROVE  /\ Cardinality(Promised)' <= goal'
                    /\ \A h \in Hosts : /\ left'[h] > 0 => host'[h] = "queue"
                                        /\ host'[h] = "count" => (Successes \subseteq Done)'
                                        /\ Cardinality(Promised)' + left'[h] <= goal'
  BY DEF SuccessesArePromised
<1>1. /\ LedgerTypeOK /\ TasksFollowHosts /\ DirectoriesFollowTasks /\ OneAtATime /\ ~together
      /\ LedgerTypeOK' /\ LedgerInvariant'
  BY OverlapStays, InvariantStep DEF LedgerInvariant
<1>2. /\ Cardinality(Promised) <= goal
      /\ \A h \in Hosts : /\ left[h] > 0 => host[h] = "queue"
                          /\ host[h] = "count" => Successes \subseteq Done
                          /\ Cardinality(Promised) + left[h] <= goal
  BY <1>1 DEF SuccessesArePromised
<1>3. /\ IsFiniteSet(Promised) /\ Cardinality(Promised) \in Nat /\ Cardinality(Promised)' \in Nat
      /\ left \in [Hosts -> Nat] /\ left' \in [Hosts -> Nat] /\ goal \in Nat
      /\ Cardinality(Successes) \in Nat /\ IsFiniteSet(Done) /\ Cardinality(Done) \in Nat
      /\ Hosts \subseteq Nat /\ Counts \subseteq Nat
  <2>1. Cardinality(Promised)' \in Nat
    <3> DEFINE P == Promised'
    <3>1. P \subseteq Episodes BY DEF Promised, Successes
    <3>2. Cardinality(P) \in Nat BY <3>1, FS_Subset, FS_CardinalityType DEF LedgerAssumption
    <3>3. QED BY <3>2
  <2>2. QED BY <1>1, <2>1, PromisedIsFinite DEF LedgerTypeOK, LedgerAssumption
<1>4. \A h \in Hosts : host'[h] = "count" => (Successes \subseteq Done)'
  BY CountedStep
<1>5. ASSUME NEW h \in Hosts, NEW e \in Episodes, QueueEpisode(h, e)
      PROVE  /\ Cardinality(Promised)' <= goal'
             /\ \A g \in Hosts : /\ left'[g] > 0 => host'[g] = "queue"
                                 /\ Cardinality(Promised)' + left'[g] <= goal'
  <2>1. Promised' \subseteq Promised \cup {e}
    BY <1>1, <1>5 DEF QueueEpisode, LedgerTypeOK, Promised, Successes, HasResult, ResultOf
  <2>2. /\ IsFiniteSet(Promised \cup {e})
        /\ Cardinality(Promised \cup {e}) \in Nat /\ Cardinality(Promised \cup {e}) <= Cardinality(Promised) + 1
    <3>1. /\ IsFiniteSet(Promised \cup {e})
          /\ \/ Cardinality(Promised \cup {e}) = Cardinality(Promised)
             \/ Cardinality(Promised \cup {e}) = Cardinality(Promised) + 1
      BY <1>3, FS_AddElement
    <3>2. QED BY <1>3, <3>1
  <2>3. Cardinality(Promised)' <= Cardinality(Promised) + 1
    <3> DEFINE P == Promised'
    <3>1. P \subseteq Promised \cup {e} => Cardinality(P) <= Cardinality(Promised \cup {e})
      BY <2>2, FS_Subset
    <3>2. QED BY <3>1, <2>1, <2>2, <1>3
  <2>4. /\ left[h] > 0 /\ left'[h] = left[h] - 1 /\ UNCHANGED <<host, goal>>
        /\ \A g \in Hosts \ {h} : left'[g] = left[g]
        /\ host[h] = "queue"
    BY <1>3, <1>5 DEF QueueEpisode
  <2>5. \A g \in Hosts \ {h} : left[g] = 0
    BY <1>1, <1>2, <1>3, <2>4 DEF OneAtATime, Alive
  <2>6. QED BY <1>2, <1>3, <2>3, <2>4, <2>5
<1>6. ASSUME \A h \in Hosts, e \in Episodes : ~QueueEpisode(h, e)
      PROVE  Cardinality(Promised)' <= Cardinality(Promised)
  <2> DEFINE P == Promised'
  <2>1. P \subseteq Promised
    BY <1>1, <1>6, OnlyQueueingPromises
  <2> HIDE DEF P
  <2>2. Cardinality(P) <= Cardinality(Promised)
    BY <2>1, <1>3, FS_Subset
  <2>3. QED BY <2>2 DEF P
<1>7. ASSUME NEW h \in Hosts, CountDone(h)
      PROVE  /\ Cardinality(Promised)' <= goal'
             /\ \A g \in Hosts : /\ left'[g] > 0 => host'[g] = "queue"
                                 /\ Cardinality(Promised)' + left'[g] <= goal'
  <2>1. Promised = Successes
    <3>1. ASSUME NEW e \in Episodes, task[e] \in Live PROVE FALSE
      <4>1. owner[e] \in Hosts
        BY <1>1, <3>1 DEF LedgerTypeOK, TasksFollowHosts, TaskFollowsHost, Live, Inside
      <4>2. host[owner[e]] \in {"queue", "run"}
        BY <1>1, <3>1 DEF TasksFollowHosts, TaskFollowsHost
      <4>3. QED BY <1>1, <1>7, <4>1, <4>2 DEF CountDone, OneAtATime, Alive
    <3>2. QED BY <3>1 DEF Promised
  <2>2. Cardinality(Successes) <= Cardinality(Done)
    BY <1>2, <1>3, <1>7, FS_Subset DEF CountDone
  <2>3. Cardinality(Promised)' = Cardinality(Successes)
    BY <2>1, <1>7 DEF CountDone, taskVars, Promised, Successes, HasResult, ResultOf
  <2>4. /\ \A g \in Hosts \ {h} : left'[g] = left[g] /\ host'[g] = host[g]
        /\ host'[h] = "queue"
    BY <1>1, <1>7 DEF CountDone, LedgerTypeOK
  <2>5. goal' >= goal /\ goal' \in Nat /\ Cardinality(Successes) + left'[h] <= goal'
    <3>1. PICK n \in Counts : \/ /\ left'[h] = Beyond(n, Cardinality(Done)) /\ goal' = goal + Beyond(n, goal)
                              \/ left'[h] = n /\ goal' = goal + n
      BY <1>7, <1>3 DEF CountDone
    <3>2. n \in Nat BY <1>3
    <3>3. Cardinality(Successes) <= goal BY <1>2, <2>1
    <3>4. QED BY <3>1, <3>2, <3>3, <2>2, <1>3 DEF Beyond
  <2>6. QED BY <1>2, <1>3, <2>1, <2>3, <2>4, <2>5
<1>8. ASSUME \A h \in Hosts : ~CountDone(h), \A h \in Hosts, e \in Episodes : ~QueueEpisode(h, e)
      PROVE  /\ goal' = goal
             /\ \A g \in Hosts : /\ left'[g] = left[g] \/ left'[g] = 0
                                 /\ left'[g] > 0 => host'[g] = "queue"
  <2>1. ASSUME NEW g \in Hosts
        PROVE  /\ goal' = goal /\ (left'[g] = left[g] \/ left'[g] = 0)
               /\ left'[g] > 0 => host'[g] = "queue"
    BY <1>1, <1>2, <1>8, LeftStep
  <2>2. Hosts = {} => goal' = goal
    BY DEF LedgerNext, ledgerVars
  <2>3. QED BY <2>1, <2>2
<1>9. QED BY <1>2, <1>3, <1>4, <1>5, <1>6, <1>7, <1>8

(* Invocations that follow one another ask for what is missing and run it:   *)
(* the inductive invariant behind the count of successes.                    *)
THEOREM SuccessesArePromisedHolds == LedgerSpec => []SuccessesArePromised
<1>1. LedgerInit => SuccessesArePromised
  <2> SUFFICES ASSUME LedgerInit PROVE SuccessesArePromised
    OBVIOUS
  <2>1. Promised = {}
    BY DEF LedgerInit, Promised, Successes, HasResult, Empty, Records, Live, Inside
  <2>2. Cardinality(Promised) = 0
    BY <2>1, FS_EmptySet
  <2>3. QED BY <2>2 DEF LedgerInit, SuccessesArePromised
<1>2. LedgerInvariant /\ SuccessesArePromised /\ [LedgerNext]_ledgerVars => SuccessesArePromised'
  BY PromisedStep, LedgerAssumption
<1>3. QED BY <1>1, <1>2, LedgerInvariantHolds, PTL DEF LedgerSpec

(* No invocation runs again what has succeeded, even if the one before it    *)
(* died before its row said so (Ledger.__init__, count_completed).           *)
THEOREM SuccessesAreNotRepeatedHolds == LedgerSpec => []SuccessesAreNotRepeated
<1>1. LedgerInvariant /\ SuccessesArePromised => SuccessesAreNotRepeated
  <2> SUFFICES ASSUME LedgerInvariant, SuccessesArePromised, ~together
               PROVE  Cardinality(Successes) <= goal
    BY DEF SuccessesAreNotRepeated
  <2>1. Successes \subseteq Promised
    BY DEF Promised
  <2>2. Cardinality(Successes) <= Cardinality(Promised)
    BY <2>1, PromisedIsFinite, LedgerAssumption, FS_Subset
  <2>3. goal \in Nat /\ Cardinality(Promised) <= goal
    BY DEF LedgerInvariant, LedgerTypeOK, SuccessesArePromised
  <2>4. QED BY <2>2, <2>3, PromisedIsFinite, LedgerAssumption
<1>2. QED BY <1>1, LedgerInvariantHolds, SuccessesArePromisedHolds, PTL
=============================================================================
