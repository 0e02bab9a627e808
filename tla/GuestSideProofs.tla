-------------------------- MODULE GuestSideProofs --------------------------
(***************************************************************************)
(* Theorems about what calls and pipes lead to outside the process:        *)
(* SubscriptionRefresh, DaytonaVM, TunnelMux, Desktop, GuestChannel and    *)
(* GuestFiles.  The inductive invariants are RefreshInvariant,             *)
(* DaytonaCreates, EgressSettles, MuxInvariant, DesktopInvariant,          *)
(* ChannelInvariant and FilesInvariant.                                    *)
(***************************************************************************)
EXTENDS SubscriptionRefresh, DaytonaVM, TunnelMux, Desktop, GuestChannel, GuestFiles,
        SequenceTheorems, TLAPS

-----------------------------------------------------------------------------
(* A refreshed login (SubscriptionRefresh)                                *)

(* Each await of a request, and each kill, keeps the types. *)
LEMMA RefreshTypeStep ==
  ASSUME RefreshTypeOK, [RefreshNext]_refreshVars PROVE RefreshTypeOK'
<1> USE DEF RefreshTypeOK, HoldsProfile
<1>0. CASE UNCHANGED refreshVars BY <1>0 DEF refreshVars
<1>p. ASSUME NEW r \in Requests PROVE ProcessOf[r] \in Processes /\ Mine(r) \in Nat
  BY <1>p DEF Processes, Mine
<1>1. ASSUME NEW r \in Requests, NeedsToken(r) PROVE RefreshTypeOK'
  BY <1>1, <1>p DEF NeedsToken, Await
<1>2. ASSUME NEW r \in Requests, EnterLock(r) PROVE RefreshTypeOK'
  BY <1>2, <1>p DEF EnterLock, Await, Forget
<1>3. ASSUME NEW r \in Requests, LockProfile(r) PROVE RefreshTypeOK'
  BY <1>3 DEF LockProfile, Await
<1>4. ASSUME NEW r \in Requests, TakeOver(r) PROVE RefreshTypeOK'
  BY <1>4, <1>p DEF TakeOver, ReadProfile
<1>5. ASSUME NEW r \in Requests, Exchange(r) PROVE RefreshTypeOK'
  <2>1. /\ newest' \in Nat
        /\ want' \in [Requests -> {"idle", "task_lock", "file_lock", "writing"} \cup HoldsProfile]
    BY <1>5 DEF Exchange
  <2>2. payload' \in [Requests -> Nat] BY <1>5 DEF Exchange
  <2>3. reused' \in {reused, TRUE} /\ disturbed' \in {disturbed, TRUE} BY <1>5 DEF Exchange
  <2>4. QED BY <1>5, <2>1, <2>2, <2>3 DEF Exchange
<1>6. ASSUME NEW r \in Requests, NoExchange(r) \/ WriteFails(r) \/ AbandonWrite(r)
      PROVE  RefreshTypeOK'
  BY <1>6 DEF NoExchange, WriteFails, AbandonWrite, Await
<1>7. ASSUME NEW r \in Requests, WriteProfile(r) PROVE RefreshTypeOK'
  BY <1>7, <1>p DEF WriteProfile, Await
<1>8. ASSUME NEW r \in Requests, Unlock(r) PROVE RefreshTypeOK'
  BY <1>8, <1>p DEF Unlock, Await, Forget
<1>9. ASSUME NEW r \in Requests, ThreadWrites(r) PROVE RefreshTypeOK'
  BY <1>9 DEF ThreadWrites, Await, Forget
<1>10. ASSUME NEW p \in Processes, KillProcess(p) PROVE RefreshTypeOK'
  BY <1>10 DEF KillProcess
<1>11. CASE Expire BY <1>11 DEF Expire
<1>12. QED
  BY <1>0, <1>1, <1>2, <1>3, <1>4, <1>5, <1>6, <1>7, <1>8, <1>9, <1>10, <1>11 DEF RefreshNext

(* One request at a time is between the lock of the file and its release. *)
LEMMA ProfileLockedStep ==
  ASSUME RefreshTypeOK, ProfileLocked, [RefreshNext]_refreshVars PROVE ProfileLocked'
<1> USE DEF RefreshTypeOK, HoldsProfile, ProfileLocked
<1>0. CASE UNCHANGED refreshVars BY <1>0 DEF refreshVars
<1>n. Nobody \notin Requests BY RefreshAssumption DEF Nobody
<1>1. ASSUME NEW r \in Requests, NeedsToken(r) PROVE ProfileLocked' BY <1>1 DEF NeedsToken, Await
<1>2. ASSUME NEW r \in Requests, EnterLock(r) PROVE ProfileLocked' BY <1>2 DEF EnterLock, Await
<1>3. ASSUME NEW r \in Requests, LockProfile(r) PROVE ProfileLocked'
  BY <1>3, <1>n DEF LockProfile, Await
<1>4. ASSUME NEW r \in Requests, TakeOver(r) PROVE ProfileLocked' BY <1>4 DEF TakeOver
<1>5. ASSUME NEW r \in Requests, Exchange(r) PROVE ProfileLocked' BY <1>5 DEF Exchange
<1>6. ASSUME NEW r \in Requests, NoExchange(r) \/ WriteFails(r) \/ AbandonWrite(r)
      PROVE  ProfileLocked'
  BY <1>6 DEF NoExchange, WriteFails, AbandonWrite, Await
<1>7. ASSUME NEW r \in Requests, WriteProfile(r) PROVE ProfileLocked'
  BY <1>7 DEF WriteProfile, Await
<1>8. ASSUME NEW r \in Requests, Unlock(r) PROVE ProfileLocked'
  BY <1>8, <1>n DEF Unlock, Await
<1>9. ASSUME NEW r \in Requests, ThreadWrites(r) PROVE ProfileLocked'
  BY <1>9 DEF ThreadWrites, Await
<1>10. ASSUME NEW p \in Processes, KillProcess(p) PROVE ProfileLocked'
  BY <1>10, <1>n DEF KillProcess
<1>11. CASE Expire BY <1>11 DEF Expire
<1>12. QED
  BY <1>0, <1>1, <1>2, <1>3, <1>4, <1>5, <1>6, <1>7, <1>8, <1>9, <1>10, <1>11 DEF RefreshNext

(* What keeps the tokens: the exchange sends what was read under the lock,    *)
(* and the write of what it returned is the only thing that ends it.         *)
LEMMA NewestStep ==
  ASSUME RefreshTypeOK, ProfileLocked, NewestIsKept, [RefreshNext]_refreshVars PROVE NewestIsKept'
<1> USE DEF RefreshTypeOK, NewestIsKept
<1>0. CASE UNCHANGED refreshVars BY <1>0 DEF refreshVars
<1>a. ASSUME NEW r \in Requests, NEW s \in Requests, r # s, want[r] \in HoldsProfile
      PROVE  want[s] \notin HoldsProfile
  BY <1>a DEF ProfileLocked
<1>1. ASSUME NEW r \in Requests, NeedsToken(r) PROVE NewestIsKept' BY <1>1 DEF NeedsToken, Await
<1>2. ASSUME NEW r \in Requests, EnterLock(r) PROVE NewestIsKept' BY <1>2 DEF EnterLock, Await
<1>3. ASSUME NEW r \in Requests, LockProfile(r) PROVE NewestIsKept' BY <1>3 DEF LockProfile, Await
<1>4. ASSUME NEW r \in Requests, TakeOver(r) PROVE NewestIsKept' BY <1>4 DEF TakeOver, ReadProfile
<1>5. ASSUME NEW r \in Requests, Exchange(r) PROVE NewestIsKept'
  BY <1>5, <1>a DEF Exchange, HoldsProfile
<1>6. ASSUME NEW r \in Requests, NoExchange(r) \/ WriteFails(r) \/ AbandonWrite(r)
      PROVE  NewestIsKept'
  BY <1>6 DEF NoExchange, WriteFails, AbandonWrite, Await
<1>7. ASSUME NEW r \in Requests, WriteProfile(r) PROVE NewestIsKept'
  BY <1>7, <1>a DEF WriteProfile, Await, HoldsProfile
<1>8. ASSUME NEW r \in Requests, Unlock(r) PROVE NewestIsKept'
  BY <1>8 DEF Unlock, Await, Forget
<1>9. ASSUME NEW r \in Requests, ThreadWrites(r) PROVE NewestIsKept'
  BY <1>9 DEF ThreadWrites, Await, Forget
<1>10. ASSUME NEW p \in Processes, KillProcess(p) PROVE NewestIsKept'
  BY <1>10 DEF KillProcess
<1>11. CASE Expire BY <1>11 DEF Expire
<1>12. QED
  BY <1>0, <1>1, <1>2, <1>3, <1>4, <1>5, <1>6, <1>7, <1>8, <1>9, <1>10, <1>11 DEF RefreshNext

(* What is inductive of a login that many requests refresh: who holds the
   lock of its profile, and that the profile, or the one request that
   writes it, has the tokens issued last (_refresh_token). *)
THEOREM RefreshInvariantHolds == RefreshSpec => []RefreshInvariant
<1>1. ASSUME RefreshInit PROVE RefreshInvariant
  <2>1. RefreshTypeOK BY <1>1 DEF RefreshInit, RefreshTypeOK
  <2>2. ProfileLocked BY <1>1, RefreshAssumption DEF RefreshInit, ProfileLocked, HoldsProfile, Nobody
  <2>3. NewestIsKept BY <1>1 DEF RefreshInit, NewestIsKept
  <2>4. QED BY <2>1, <2>2, <2>3 DEF RefreshInvariant
<1>2. RefreshInvariant /\ [RefreshNext]_refreshVars => RefreshInvariant'
  BY RefreshTypeStep, ProfileLockedStep, NewestStep DEF RefreshInvariant
<1>3. QED BY <1>1, <1>2, PTL DEF RefreshSpec

(* No refresh token is exchanged twice, and the next holder of the lock
   finds the newest one, unless a write was lost on the way
   (_refresh_token, its file lock). *)
THEOREM LoginSurvivesHolds == RefreshSpec => []LoginSurvives
<1>1. RefreshInvariant => LoginSurvives
  BY RefreshAssumption DEF RefreshInvariant, RefreshTypeOK, ProfileLocked, NewestIsKept, LoginSurvives,
    HoldsProfile, Nobody
<1>2. QED BY <1>1, RefreshInvariantHolds, PTL

-----------------------------------------------------------------------------
(* Sandboxes at Daytona (DaytonaVM)                                        *)

DaytonaSpec == DaytonaInit /\ [][DaytonaNext]_daytonaVars

(* A step that leaves the create alone leaves what is held as it is.        *)
LEMMA CreatesUntouched ==
  ASSUME DaytonaCreates, UNCHANGED createVars
  PROVE  DaytonaCreates'
BY DEF DaytonaCreates, createVars, Live, NameIsFree

(* A create, a repair or a destroy holds the one sandbox there is, or none. *)
THEOREM DaytonaCreatesHolds == DaytonaSpec => []DaytonaCreates
<1>1. DaytonaInit => DaytonaCreates
  BY DEF DaytonaInit, DaytonaCreates, Attempts, Asking, Holding, Ended, Alive, Live, NameIsFree
<1>2. DaytonaCreates /\ [DaytonaNext]_daytonaVars => DaytonaCreates'
  <2> SUFFICES ASSUME DaytonaCreates, [DaytonaNext]_daytonaVars PROVE DaytonaCreates'
    OBVIOUS
  <2> USE DEF DaytonaCreates, Attempts, Asking, Holding, Ended, Alive, Live, NameIsFree, Stage
  <2>1. CASE Publish BY <2>1 DEF Publish
  <2>2. CASE PublishFails BY <2>2 DEF PublishFails
  <2>3. CASE Post BY <2>3 DEF Post
  <2>4. CASE Replied BY <2>4 DEF Replied
  <2>5. CASE NoReply BY <2>5 DEF NoReply, LookForIt
  <2>6. CASE Reclaim
    <3>1. ASSUME NEW a \in Attempts, Live(a), Stage("reclaim", "discard"), held' = a,
                 UNCHANGED <<try, cloud, troubled, overdue>>
          PROVE  DaytonaCreates'
      BY <3>1
    <3>2. CASE /\ NameIsFree /\ Stage("reclaim", "raised")
               /\ UNCHANGED <<try, held, cloud, troubled, overdue>>
      BY <3>2
    <3>3. CASE /\ Stage("reclaim", "raised") /\ troubled' = TRUE
               /\ UNCHANGED <<try, held, cloud, overdue>>
      BY <3>3
    <3>4. QED BY <2>6, <3>1, <3>2, <3>3 DEF Reclaim
  <2>7. CASE Started BY <2>7 DEF Started
  <2>8. CASE NotStarted BY <2>8 DEF NotStarted
  <2>9. CASE Discard
    <3>1. CASE cloud' = [cloud EXCEPT ![held] = "gone"] /\ UNCHANGED troubled
      BY <2>9, <3>1 DEF Discard, Delete
    <3>2. CASE troubled' = TRUE /\ UNCHANGED cloud BY <2>9, <3>2 DEF Discard, Delete
    <3>3. QED BY <2>9, <3>1, <3>2 DEF Discard, Delete
  <2>10. CASE DiscardAndRetry
    <3>1. CASE cloud' = [cloud EXCEPT ![held] = "gone"] /\ UNCHANGED troubled
      BY <2>10, <3>1 DEF DiscardAndRetry, Delete
    <3>2. CASE troubled' = TRUE /\ UNCHANGED cloud BY <2>10, <3>2 DEF DiscardAndRetry, Delete
    <3>3. QED BY <2>10, <3>1, <3>2 DEF DiscardAndRetry, Delete
  <2>11. CASE Connect BY <2>11 DEF Connect
  <2>12. CASE Ready BY <2>12 DEF Ready
  <2>13. CASE CreateFails BY <2>13 DEF CreateFails
  <2>14. ASSUME NEW open \in BOOLEAN, SetEgress(open) PROVE DaytonaCreates'
    BY <2>14 DEF SetEgress
  <2>15. CASE Probe BY <2>15 DEF Probe
  <2>16. CASE EgressFails BY <2>16 DEF EgressFails
  <2>17. CASE Destroy
    <3>1. CASE cloud' = [cloud EXCEPT ![held] = "gone"] /\ UNCHANGED troubled
      BY <2>17, <3>1 DEF Destroy, Delete
    <3>2. CASE troubled' = TRUE /\ UNCHANGED cloud BY <2>17, <3>2 DEF Destroy, Delete
    <3>3. QED BY <2>17, <3>1, <3>2 DEF Destroy, Delete
  <2>18. CASE Retain BY <2>18 DEF Retain
  <2>19. CASE Supervise \/ TunnelDrops \/ Applied
    BY <2>19, CreatesUntouched DEF Supervise, TunnelDials, TunnelReady, TunnelFails,
       TunnelDrops, Applied
  <2>20. ASSUME NEW a \in Attempts, Made(a) PROVE DaytonaCreates' BY <2>20 DEF Made
  <2>21. ASSUME NEW a \in Attempts, Refused(a) PROVE DaytonaCreates' BY <2>21 DEF Refused
  <2>22. ASSUME NEW a \in Attempts, Build(a) PROVE DaytonaCreates' BY <2>22 DEF Build
  <2>23. CASE UNCHANGED daytonaVars BY <2>23, CreatesUntouched DEF daytonaVars, createVars
  <2>24. QED
    BY <2>1, <2>2, <2>3, <2>4, <2>5, <2>6, <2>7, <2>8, <2>9, <2>10, <2>11, <2>12, <2>13,
       <2>14, <2>15,
       <2>16, <2>17, <2>18, <2>19, <2>20, <2>21, <2>22, <2>23
       DEF DaytonaNext, Daytona
<1>3. QED BY <1>1, <1>2, PTL DEF DaytonaSpec

(* Nothing is left at Daytona by a create that raised, by a repaired first  *)
(* attempt, or by a destroy.                                                *)
THEOREM CreatesLeaveNothingHolds == DaytonaSpec => []CreatesLeaveNothing
<1>1. DaytonaCreates => CreatesLeaveNothing
  BY DEF DaytonaCreates, CreatesLeaveNothing, Asking, Holding, Ended, Attempts
<1>2. QED BY <1>1, DaytonaCreatesHolds, PTL

(* Applying the oldest setting leaves the others as they were asked for.    *)
LEMMA SettingsInTurn ==
  ASSUME NEW q \in Seq(BOOLEAN), q # <<>>
  PROVE  /\ Tail(q) \in Seq(BOOLEAN) /\ Head(q) = q[1] /\ q[1] \in BOOLEAN
         /\ Len(q) \in Nat \ {0} /\ Len(Tail(q)) = Len(q) - 1
         /\ \A i \in 1 .. Len(q) - 1 : Tail(q)[i] = q[i + 1]
BY HeadTailProperties, ElementOfSeq, LenProperties

(* The reports of egress follow the settings, unless a probe was misread.   *)
THEOREM EgressSettlesHolds == DaytonaSpec => []EgressSettles
<1>1. DaytonaInit => EgressSettles
  <2> SUFFICES ASSUME DaytonaInit PROVE EgressSettles OBVIOUS
  <2>1. <<>> \in Seq(BOOLEAN) /\ Len(<<>>) = 0 OBVIOUS
  <2>2. network = [pending |-> <<>>, open |-> FALSE, told |-> "closed"] /\ ~misread
    BY DEF DaytonaInit
  <2>3. network \in [pending : Seq(BOOLEAN), open : BOOLEAN, told : {"closed", "open", "unknown"}]
    BY <2>1, <2>2
  <2>4. network.pending = <<>> /\ network.open = FALSE /\ network.told = "closed" BY <2>2
  <2>5. misread \in BOOLEAN BY DEF DaytonaInit
  <2>6. \A i \in 1 .. Len(network.pending) : FALSE BY <2>1, <2>4
  <2>7. \A i \in 1 .. Len(network.pending) - 1 : FALSE BY <2>1, <2>4
  <2>8. QED BY <2>3, <2>4, <2>5, <2>6, <2>7 DEF EgressSettles, Unreported
<1>2. EgressSettles /\ [DaytonaNext]_daytonaVars => EgressSettles'
  <2> SUFFICES ASSUME EgressSettles, [DaytonaNext]_daytonaVars PROVE EgressSettles'
    OBVIOUS
  <2> DEFINE q == network.pending
  <2>0. /\ q \in Seq(BOOLEAN) /\ Len(q) \in Nat /\ network.open \in BOOLEAN
        /\ misread \in BOOLEAN /\ network.told \in {"closed", "open", "unknown"}
    BY LenProperties DEF EgressSettles
  <2>1. ASSUME UNCHANGED <<network, misread>>,
               ~(stage \in {"probing", "failed", "destroyed"} /\ stage' \notin {"probing", "failed", "destroyed"})
        PROVE  EgressSettles'
    BY <2>1 DEF EgressSettles, Unreported
  <2>2. ASSUME NEW open \in BOOLEAN, SetEgress(open) PROVE EgressSettles'
    <3>1. /\ network' = [network EXCEPT !.pending = Append(q, open), !.told = "unknown"]
          /\ stage = "ready" /\ stage' = "probing" /\ misread' = misread
      BY <2>2 DEF SetEgress, Stage
    <3>2. /\ Append(q, open) \in Seq(BOOLEAN) /\ Len(Append(q, open)) = Len(q) + 1
          /\ \A i \in 1 .. Len(q) : Append(q, open)[i] = q[i]
      BY <2>0, AppendProperties
    <3>3. /\ network'.pending = Append(q, open) /\ network'.open = network.open
          /\ network'.told = "unknown"
          /\ network' \in [pending : Seq(BOOLEAN), open : BOOLEAN, told : {"closed", "open", "unknown"}]
      BY <3>1, <3>2 DEF EgressSettles
    <3>4. ~misread => \A i \in 1 .. Len(q) : q[i] = network.open
      BY <3>1 DEF EgressSettles, Unreported
    <3> HIDE DEF q
    <3>5. ~misread' => \A i \in 1 .. Len(network'.pending) - 1 : network'.pending[i] = network'.open
      BY <2>0, <3>1, <3>2, <3>3, <3>4
    <3>6. QED BY <2>0, <3>1, <3>3, <3>5 DEF EgressSettles, Unreported
  <2>3. CASE Probe
    <3>1. PICK handshake \in {network.open, FALSE} :
             /\ handshake = Wanted /\ misread' = (misread \/ handshake # network.open)
      BY <2>3 DEF Probe, BehavesAsAsked
    <3>2. /\ network' = [network EXCEPT !.told = IF Wanted THEN "open" ELSE "closed"]
          /\ stage' = "ready"
      BY <2>3 DEF Probe, Stage
    <3>3. /\ network'.pending = q /\ network'.open = network.open
          /\ network'.told = IF Wanted THEN "open" ELSE "closed"
          /\ network' \in [pending : Seq(BOOLEAN), open : BOOLEAN, told : {"closed", "open", "unknown"}]
      BY <3>2 DEF EgressSettles
    <3>4. misread' \in BOOLEAN BY <3>1
    <3>5. ASSUME ~misread'
          PROVE  /\ network.open = Wanted
                 /\ \A i \in 1 .. Len(q) : q[i] = network.open
      <4>1. ~misread /\ network.open = Wanted BY <3>1, <3>5
      <4>2. \A i \in 1 .. Len(q) - 1 : q[i] = network.open BY <4>1 DEF EgressSettles
      <4>3. q # <<>> => q[Len(q)] = network.open BY <4>1 DEF Wanted
      <4>4. q = <<>> => Len(q) = 0 OBVIOUS
      <4>5. QED BY <2>0, <4>1, <4>2, <4>3, <4>4
    <3> HIDE DEF q
    <3>6. QED BY <2>0, <3>2, <3>3, <3>4, <3>5 DEF EgressSettles, Unreported
  <2>4. CASE Applied
    <3>1. /\ q # <<>> /\ UNCHANGED <<stage, misread>>
          /\ network' = [network EXCEPT !.open = Head(q), !.pending = Tail(q)]
      BY <2>4 DEF Applied, createVars
    <3>2. /\ Tail(q) \in Seq(BOOLEAN) /\ Head(q) = q[1] /\ q[1] \in BOOLEAN
          /\ Len(q) \in Nat \ {0} /\ Len(Tail(q)) = Len(q) - 1
          /\ \A i \in 1 .. Len(q) - 1 : Tail(q)[i] = q[i + 1]
      BY <2>0, <3>1, SettingsInTurn
    <3>3. /\ network'.pending = Tail(q) /\ network'.open = q[1] /\ network'.told = network.told
          /\ network' \in [pending : Seq(BOOLEAN), open : BOOLEAN, told : {"closed", "open", "unknown"}]
      BY <3>1, <3>2 DEF EgressSettles
    <3>4. ASSUME ~misread
          PROVE  /\ \A i \in 1 .. Len(q) - 1 : q[i] = network.open
                 /\ ~Unreported => /\ network.told = "closed" <=> ~network.open
                                   /\ \A i \in 1 .. Len(q) : q[i] = network.open
      BY <3>4 DEF EgressSettles
    <3> HIDE DEF q
    <3>5. ASSUME ~misread
          PROVE  /\ \A i \in 1 .. Len(Tail(q)) - 1 : Tail(q)[i] = q[1]
                 /\ ~Unreported => /\ network.told = "closed" <=> ~q[1]
                                   /\ \A i \in 1 .. Len(Tail(q)) : Tail(q)[i] = q[1]
      <4>1. ~Unreported => q[1] = network.open BY <3>2, <3>4, <3>5
      <4>2. \A i \in 1 .. Len(Tail(q)) - 1 : i + 1 \in 1 .. Len(q) - 1 /\ 1 \in 1 .. Len(q) - 1
        BY <3>2
      <4>3. \A i \in 1 .. Len(Tail(q)) - 1 : Tail(q)[i] = q[1] BY <3>2, <3>4, <3>5, <4>2
      <4>4. ~Unreported => \A i \in 1 .. Len(Tail(q)) : Tail(q)[i] = q[1]
        BY <3>2, <3>4, <3>5
      <4>5. QED BY <3>4, <3>5, <4>1, <4>3, <4>4
    <3>6. Unreported' <=> Unreported BY <3>3 DEF Unreported
    <3>7. QED BY <3>1, <3>3, <3>5, <3>6, <2>0 DEF EgressSettles, Unreported
  <2>5. CASE \/ Publish \/ PublishFails \/ Post \/ Replied \/ NoReply \/ Reclaim \/ Started \/ NotStarted
             \/ Discard \/ DiscardAndRetry \/ Connect \/ Ready \/ CreateFails \/ EgressFails \/ Destroy
             \/ Retain
    BY <2>1, <2>5 DEF Publish, PublishFails, Post, Replied, NoReply, Reclaim, Started,
       NotStarted, Discard,
       DiscardAndRetry, Connect, Ready, CreateFails, EgressFails, Destroy, Retain, Stage, Delete, egressVars
  <2>6. CASE Supervise \/ TunnelDrops \/ \E a \in Attempts : Made(a) \/ Refused(a) \/ Build(a)
    BY <2>1, <2>6 DEF Supervise, TunnelDials, TunnelReady, TunnelFails, TunnelDrops, Made,
       Refused, Build,
       egressVars, createVars
  <2>7. CASE UNCHANGED daytonaVars BY <2>1, <2>7 DEF daytonaVars
  <2>8. QED BY <2>2, <2>3, <2>4, <2>5, <2>6, <2>7 DEF DaytonaNext, Daytona
<1>3. QED BY <1>1, <1>2, PTL DEF DaytonaSpec

(* Once close_egress has returned the network is closed.                    *)
THEOREM ReportedClosedIsClosedHolds == DaytonaSpec => []ReportedClosedIsClosed
<1>1. EgressSettles => ReportedClosedIsClosed
  BY DEF EgressSettles, ReportedClosedIsClosed, Unreported
<1>2. QED BY <1>1, EgressSettlesHolds, PTL

-----------------------------------------------------------------------------
(* Streams over one pipe (TunnelMux)                                       *)

MuxSpec == MuxInit /\ [][MuxNext]_muxVars

(* The two ends of the pipe. *)
LEMMA TwoEnds ==
  /\ \A e \in TunnelEnds : Peer(e) \in TunnelEnds /\ Peer(e) # e /\ Peer(Peer(e)) = e
  /\ Peer("guest") = "host" /\ Peer("host") = "guest"
  /\ "guest" \in TunnelEnds /\ "host" \in TunnelEnds
BY DEF TunnelEnds, Peer

(* A place is a number. *)
LEMMA PlacesAreNumbers ==
  ASSUME NEW e \in TunnelEnds, NEW f \in Frames
  PROVE  Place(e, f) \in Nat
<1>1. Chunks[e][f.sid] \in Nat /\ f.n \in Nat BY TunnelAssumption DEF Frames
<1>2. QED BY <1>1 DEF Place

(* A frame more in the pipe ... *)
LEMMA OneMore ==
  ASSUME NEW q \in Seq(Frames), NEW f \in Frames
  PROVE  /\ Append(q, f) \in Seq(Frames) /\ Len(q) \in Nat /\ Len(Append(q, f)) = Len(q) + 1
         /\ \A i \in 1 .. Len(q) : Append(q, f)[i] = q[i] /\ q[i] \in Frames
         /\ Append(q, f)[Len(q) + 1] = f
         /\ \A i \in 1 .. Len(Append(q, f)) : i \in 1 .. Len(q) \/ i = Len(q) + 1
BY AppendProperties, ElementOfSeq, LenProperties

(* ... and one less. *)
LEMMA OneLess ==
  ASSUME NEW q \in Seq(Frames), q # <<>>
  PROVE  /\ Tail(q) \in Seq(Frames) /\ Len(q) \in Nat \ {0} /\ Len(Tail(q)) = Len(q) - 1
         /\ \A i \in 1 .. Len(q) : q[i] \in Frames
         /\ \A i \in 1 .. Len(Tail(q)) : i + 1 \in 1 .. Len(q) /\ Tail(q)[i] = q[i + 1]
         /\ \A i \in 1 .. Len(q) : i = 1 \/ (i - 1 \in 1 .. Len(Tail(q)) /\ Tail(q)[i - 1] = q[i])
         /\ Head(q) = q[1] /\ 1 \in 1 .. Len(q)
<1>1. /\ Tail(q) \in Seq(Frames) /\ Len(Tail(q)) = Len(q) - 1
      /\ \A i \in 1 .. Len(Tail(q)) : Tail(q)[i] = q[i+1]
  BY HeadTailProperties
<1>2. Len(q) \in Nat \ {0} BY EmptySeq, LenProperties
<1>3. Head(q) = q[1] OBVIOUS
<1>4. \A i \in 1 .. Len(q) : q[i] \in Frames BY ElementOfSeq
<1>5. QED BY <1>1, <1>2, <1>3, <1>4

(* The places on the way after a frame of another stream was sent ... *)
LEMMA SendOther ==
  ASSUME NEW e \in TunnelEnds, NEW q \in Seq(Frames), NEW f \in Frames, NEW s, NEW t \in Nat,
         NEW n \in Nat, ~Carries(f, s)
  PROVE  /\ InSequence(e, q, s, t) => InSequence(e, Append(q, f), s, t)
         /\ ReachesTo(e, q, s, t, n) => ReachesTo(e, Append(q, f), s, t, n)
<1>1. Carrying(Append(q, f), s) = Carrying(q, s)
  <2>1. \A i \in 1 .. Len(Append(q, f)) : Carries(Append(q, f)[i], s) => i \in 1 .. Len(q) /\ Carries(q[i], s)
    BY OneMore
  <2>2. \A i \in 1 .. Len(q) : i \in 1 .. Len(Append(q, f)) /\ Append(q, f)[i] = q[i] BY OneMore
  <2>3. QED BY <2>1, <2>2 DEF Carrying
<1>2. \A i \in Carrying(q, s) : Append(q, f)[i] = q[i] BY OneMore DEF Carrying
<1>3. QED BY <1>1, <1>2 DEF InSequence, ReachesTo

(* ... the next frame of it ... *)
LEMMA SendNext ==
  ASSUME NEW e \in TunnelEnds, NEW q \in Seq(Frames), NEW f \in Frames, NEW s, NEW t \in Nat,
         NEW n \in Nat, Carries(f, s), Place(e, f) = n + 1,
         InSequence(e, q, s, t), ReachesTo(e, q, s, t, n)
  PROVE  InSequence(e, Append(q, f), s, t) /\ ReachesTo(e, Append(q, f), s, t, n + 1)
<1> DEFINE Q == Append(q, f)
           k == Len(q) + 1
<1>1. k \in Nat /\ Q[k] = f /\ \A i \in Carrying(q, s) : i < k /\ i \in Nat /\ Q[i] = q[i]
  BY OneMore DEF Carrying
<1>2. Carrying(Q, s) = Carrying(q, s) \cup {k}
  <2>1. \A i \in 1 .. Len(Q) : Carries(Q[i], s) => i = k \/ (i \in 1 .. Len(q) /\ Carries(q[i], s))
    BY OneMore
  <2>2. \A i \in 1 .. Len(q) : i \in 1 .. Len(Q) /\ Q[i] = q[i] BY OneMore
  <2>3. k \in 1 .. Len(Q) /\ Q[k] = f BY OneMore
  <2>4. QED BY <2>1, <2>2, <2>3 DEF Carrying
<1>3. \A i \in Carrying(q, s) : q[i] \in Frames /\ Place(e, q[i]) \in Nat
  BY OneMore, PlacesAreNumbers DEF Carrying
<1> HIDE DEF Q, k
<1>4. t <= n /\ \A i \in Carrying(q, s) : Place(e, q[i]) <= n BY DEF ReachesTo
<1>5. \A m \in t + 1 .. n : \E i \in Carrying(q, s) : Place(e, q[i]) = m BY DEF ReachesTo
<1>6. ASSUME NEW i \in Carrying(Q, s)
      PROVE  /\ Place(e, Q[i]) > t
             /\ \A m \in t + 1 .. Place(e, Q[i]) - 1 :
                  \E j \in Carrying(Q, s) : j < i /\ Place(e, Q[j]) = m
             /\ \A j \in Carrying(Q, s) : j < i => Place(e, Q[j]) < Place(e, Q[i])
  <2>1. CASE i \in Carrying(q, s)
    <3>1. Q[i] = q[i] /\ i < k /\ \A j \in Carrying(Q, s) : j < i => j \in Carrying(q, s)
      BY <1>1, <1>2, <2>1
    <3>2. /\ Place(e, q[i]) > t
          /\ \A m \in t + 1 .. Place(e, q[i]) - 1 :
               \E j \in Carrying(q, s) : j < i /\ Place(e, q[j]) = m
          /\ \A j \in Carrying(q, s) : j < i => Place(e, q[j]) < Place(e, q[i])
      BY <2>1 DEF InSequence
    <3>3. QED BY <1>1, <1>2, <3>1, <3>2
  <2>2. CASE i = k
    <3>1. Place(e, Q[i]) = n + 1 BY <1>1, <2>2
    <3>2. Place(e, Q[i]) > t BY <1>4, <3>1
    <3>3. \A m \in t + 1 .. Place(e, Q[i]) - 1 : m \in t + 1 .. n BY <3>1
    <3>4. \A m \in t + 1 .. Place(e, Q[i]) - 1 :
            \E j \in Carrying(Q, s) : j < i /\ Place(e, Q[j]) = m
      BY <1>1, <1>2, <1>5, <2>2, <3>3
    <3>5. \A j \in Carrying(Q, s) : j < i => Place(e, Q[j]) < Place(e, Q[i])
      BY <1>1, <1>2, <1>3, <1>4, <2>2, <3>1
    <3>6. QED BY <3>2, <3>4, <3>5
  <2>3. QED BY <1>2, <2>1, <2>2
<1>7. InSequence(e, Q, s, t) BY <1>6 DEF InSequence
<1>8. ReachesTo(e, Q, s, t, n + 1)
  <2>1. t <= n + 1 BY <1>4
  <2>2. \A i \in Carrying(Q, s) : Place(e, Q[i]) <= n + 1 BY <1>1, <1>2, <1>3, <1>4
  <2>3. \A m \in t + 1 .. n + 1 : m = n + 1 \/ m \in t + 1 .. n OBVIOUS
  <2>4. \A m \in t + 1 .. n + 1 : \E i \in Carrying(Q, s) : Place(e, Q[i]) = m
    BY <1>1, <1>2, <1>5, <2>3
  <2>5. QED BY <2>1, <2>2, <2>4 DEF ReachesTo
<1>9. QED BY <1>7, <1>8 DEF Q

(* ... after the frame of another stream was read ... *)
LEMMA ReadOther ==
  ASSUME NEW e \in TunnelEnds, NEW q \in Seq(Frames), q # <<>>, NEW s, NEW t \in Nat,
         NEW n \in Nat, ~Carries(Head(q), s)
  PROVE  /\ InSequence(e, q, s, t) => InSequence(e, Tail(q), s, t)
         /\ ReachesTo(e, q, s, t, n) => ReachesTo(e, Tail(q), s, t, n)
<1> DEFINE T == Tail(q)
<1>1. /\ \A i \in Carrying(T, s) : i \in Nat /\ i + 1 \in Carrying(q, s) /\ T[i] = q[i + 1]
      /\ \A i \in Carrying(q, s) : i \in Nat /\ i - 1 \in Carrying(T, s) /\ T[i - 1] = q[i]
  BY OneLess DEF Carrying
<1> HIDE DEF T
<1>2. ASSUME InSequence(e, q, s, t), NEW i \in Carrying(T, s)
      PROVE  /\ Place(e, T[i]) > t
             /\ \A m \in t + 1 .. Place(e, T[i]) - 1 :
                  \E j \in Carrying(T, s) : j < i /\ Place(e, T[j]) = m
             /\ \A j \in Carrying(T, s) : j < i => Place(e, T[j]) < Place(e, T[i])
  <2>1. T[i] = q[i + 1] /\ i + 1 \in Carrying(q, s) /\ i \in Nat BY <1>1
  <2>2. /\ Place(e, q[i + 1]) > t
        /\ \A m \in t + 1 .. Place(e, q[i + 1]) - 1 :
             \E j \in Carrying(q, s) : j < i + 1 /\ Place(e, q[j]) = m
        /\ \A j \in Carrying(q, s) : j < i + 1 => Place(e, q[j]) < Place(e, q[i + 1])
    BY <1>2, <2>1 DEF InSequence
  <2>3. ASSUME NEW m \in t + 1 .. Place(e, T[i]) - 1
        PROVE  \E j \in Carrying(T, s) : j < i /\ Place(e, T[j]) = m
    <3>1. PICK j \in Carrying(q, s) : j < i + 1 /\ Place(e, q[j]) = m BY <2>1, <2>2
    <3>2. j - 1 \in Carrying(T, s) /\ j - 1 < i /\ Place(e, T[j - 1]) = m BY <1>1, <2>1, <3>1
    <3>3. QED BY <3>2
  <2>4. ASSUME NEW j \in Carrying(T, s), j < i PROVE Place(e, T[j]) < Place(e, T[i])
    <3>1. j + 1 \in Carrying(q, s) /\ j + 1 < i + 1 /\ T[j] = q[j + 1] BY <1>1, <2>1, <2>4
    <3>2. QED BY <2>1, <2>2, <3>1
  <2>5. QED BY <2>1, <2>2, <2>3, <2>4
<1>3. ASSUME ReachesTo(e, q, s, t, n) PROVE ReachesTo(e, T, s, t, n)
  <2>1. \A i \in Carrying(T, s) : Place(e, T[i]) <= n BY <1>1, <1>3 DEF ReachesTo
  <2>2. ASSUME NEW m \in t + 1 .. n PROVE \E i \in Carrying(T, s) : Place(e, T[i]) = m
    <3>1. PICK j \in Carrying(q, s) : Place(e, q[j]) = m BY <1>3 DEF ReachesTo
    <3>2. j - 1 \in Carrying(T, s) /\ Place(e, T[j - 1]) = m BY <1>1, <3>1
    <3>3. QED BY <3>2
  <2>3. QED BY <1>3, <2>1, <2>2 DEF ReachesTo
<1>4. QED BY <1>2, <1>3 DEF T, InSequence

(* ... and after the next frame of it. *)
LEMMA ReadNext ==
  ASSUME NEW e \in TunnelEnds, NEW q \in Seq(Frames), q # <<>>, NEW s, NEW t \in Nat,
         NEW n \in Nat, Carries(Head(q), s), InSequence(e, q, s, t)
  PROVE  /\ Place(e, Head(q)) = t + 1
         /\ InSequence(e, Tail(q), s, t + 1)
         /\ ReachesTo(e, q, s, t, n) => ReachesTo(e, Tail(q), s, t + 1, n)
<1> DEFINE T == Tail(q)
<1>1. /\ \A i \in Carrying(T, s) : i \in Nat \ {0} /\ i + 1 \in Carrying(q, s) /\ T[i] = q[i + 1]
      /\ \A i \in Carrying(q, s) : /\ i \in Nat \ {0}
                                   /\ i = 1 \/ (i - 1 \in Carrying(T, s) /\ T[i - 1] = q[i])
      /\ 1 \in Carrying(q, s) /\ q[1] = Head(q)
  BY OneLess DEF Carrying
<1>2. \A i \in Carrying(q, s) : Place(e, q[i]) \in Nat BY OneLess, PlacesAreNumbers DEF Carrying
<1> HIDE DEF T
<1>3. Place(e, q[1]) = t + 1
  <2>1. /\ Place(e, q[1]) > t
        /\ \A m \in t + 1 .. Place(e, q[1]) - 1 : \E j \in Carrying(q, s) : j < 1 /\ Place(e, q[j]) = m
    BY <1>1 DEF InSequence
  <2>2. \A m \in t + 1 .. Place(e, q[1]) - 1 : FALSE BY <1>1, <2>1
  <2>3. Place(e, q[1]) \in Nat BY <1>1, <1>2
  <2>4. ~(t + 1 <= Place(e, q[1]) - 1) BY <2>2, <2>3
  <2>5. QED BY <2>1, <2>3, <2>4
<1>4. ASSUME NEW i \in Carrying(T, s)
      PROVE  /\ Place(e, T[i]) > t + 1
             /\ \A m \in t + 2 .. Place(e, T[i]) - 1 :
                  \E j \in Carrying(T, s) : j < i /\ Place(e, T[j]) = m
             /\ \A j \in Carrying(T, s) : j < i => Place(e, T[j]) < Place(e, T[i])
  <2>1. T[i] = q[i + 1] /\ i + 1 \in Carrying(q, s) /\ i \in Nat \ {0} BY <1>1
  <2>2. /\ \A m \in t + 1 .. Place(e, q[i + 1]) - 1 :
             \E j \in Carrying(q, s) : j < i + 1 /\ Place(e, q[j]) = m
        /\ \A j \in Carrying(q, s) : j < i + 1 => Place(e, q[j]) < Place(e, q[i + 1])
    BY <2>1 DEF InSequence
  <2>3. ASSUME NEW m \in t + 2 .. Place(e, T[i]) - 1
        PROVE  \E j \in Carrying(T, s) : j < i /\ Place(e, T[j]) = m
    <3>0. m \in t + 1 .. Place(e, q[i + 1]) - 1 BY <2>1
    <3>1. PICK j \in Carrying(q, s) : j < i + 1 /\ Place(e, q[j]) = m BY <2>2, <3>0
    <3>2. j # 1 BY <1>3, <3>1
    <3>3. j - 1 \in Carrying(T, s) /\ j - 1 < i /\ Place(e, T[j - 1]) = m
      BY <1>1, <2>1, <3>1, <3>2
    <3>4. QED BY <3>3
  <2>4. ASSUME NEW j \in Carrying(T, s), j < i PROVE Place(e, T[j]) < Place(e, T[i])
    <3>1. j + 1 \in Carrying(q, s) /\ j + 1 < i + 1 /\ T[j] = q[j + 1] BY <1>1, <2>1, <2>4
    <3>2. QED BY <2>1, <2>2, <3>1
  <2>5. 1 < i + 1 /\ Place(e, q[1]) < Place(e, q[i + 1]) BY <1>1, <2>1, <2>2
  <2>6. QED BY <1>3, <2>1, <2>3, <2>4, <2>5
<1>5. InSequence(e, T, s, t + 1) BY <1>4 DEF InSequence
<1>6. ASSUME ReachesTo(e, q, s, t, n) PROVE ReachesTo(e, T, s, t + 1, n)
  <2>1. \A i \in Carrying(T, s) : Place(e, T[i]) <= n BY <1>1, <1>6 DEF ReachesTo
  <2>2. t + 1 <= n BY <1>1, <1>3, <1>6 DEF ReachesTo
  <2>3. ASSUME NEW m \in t + 2 .. n PROVE \E i \in Carrying(T, s) : Place(e, T[i]) = m
    <3>1. m \in t + 1 .. n /\ m # t + 1 OBVIOUS
    <3>2. PICK j \in Carrying(q, s) : Place(e, q[j]) = m BY <1>6, <3>1 DEF ReachesTo
    <3>3. j # 1 BY <1>3, <3>1, <3>2
    <3>4. j - 1 \in Carrying(T, s) /\ Place(e, T[j - 1]) = m BY <1>1, <3>2, <3>3
    <3>5. QED BY <3>4
  <2>4. QED BY <2>1, <2>2, <2>3 DEF ReachesTo
<1>7. QED BY <1>1, <1>3, <1>5, <1>6 DEF T

(* The opening of a stream after a frame was sent ... *)
LEMMA OpensAfterSend ==
  ASSUME NEW q \in Seq(Frames), NEW f \in Frames, NEW s
  PROVE  /\ ~(f.kind = "OPEN" /\ f.sid = s) => Opens(Append(q, f), s) = Opens(q, s)
         /\ f.kind = "OPEN" /\ f.sid = s => Opens(Append(q, f), s) = Opens(q, s) \cup {Len(q) + 1}
         /\ f.sid # s => (Silent(Append(q, f), s) <=> Silent(q, s))
         /\ OpensAhead(q, s) /\ (f.sid # s \/ Opens(Append(q, f), s) # {}) => OpensAhead(Append(q, f), s)
<1> DEFINE Q == Append(q, f)
<1>1. /\ Len(q) \in Nat /\ \A i \in 1 .. Len(q) : Q[i] = q[i] /\ i \in 1 .. Len(Q) /\ i <= Len(q) + 1
      /\ Q[Len(q) + 1] = f /\ Len(q) + 1 \in 1 .. Len(Q)
      /\ \A i \in 1 .. Len(Q) : (i \in 1 .. Len(q) \/ i = Len(q) + 1) /\ i <= Len(q) + 1 /\ i \in Nat
  BY OneMore
<1> HIDE DEF Q
<1>2. ~(f.kind = "OPEN" /\ f.sid = s) => Opens(Q, s) = Opens(q, s) BY <1>1 DEF Opens
<1>3. f.kind = "OPEN" /\ f.sid = s => Opens(Q, s) = Opens(q, s) \cup {Len(q) + 1}
  BY <1>1 DEF Opens
<1>4. f.sid # s => (Silent(Q, s) <=> Silent(q, s)) BY <1>1 DEF Silent
<1>5. ASSUME OpensAhead(q, s), f.sid # s \/ Opens(Q, s) # {} PROVE OpensAhead(Q, s)
  <2>1. \A j \in Opens(Q, s) : j \in 1 .. Len(Q) BY DEF Opens
  <2>2. Opens(q, s) \subseteq Opens(Q, s) BY <1>2, <1>3
  <2>3. ASSUME NEW i \in 1 .. Len(Q), Q[i].sid = s PROVE \E j \in Opens(Q, s) : j <= i
    <3>1. CASE i \in 1 .. Len(q)
      <4>1. PICK j \in Opens(q, s) : j <= i BY <1>1, <1>5, <2>3, <3>1 DEF OpensAhead
      <4>2. QED BY <2>2, <4>1
    <3>2. CASE i = Len(q) + 1
      <4>1. PICK j \in Opens(Q, s) : TRUE BY <1>1, <1>5, <2>3, <3>2
      <4>2. j <= i BY <1>1, <2>1, <3>2
      <4>3. QED BY <4>2
    <3>3. QED BY <1>1, <3>1, <3>2
  <2>4. QED BY <2>3 DEF OpensAhead
<1>6. QED BY <1>2, <1>3, <1>4, <1>5 DEF Q

(* ... and after one was read. *)
LEMMA OpensAfterRead ==
  ASSUME NEW q \in Seq(Frames), q # <<>>, NEW s
  PROVE  /\ Opens(q, s) = {} => Opens(Tail(q), s) = {}
         /\ OpensOnce(q, s) => OpensOnce(Tail(q), s)
         /\ Silent(q, s) => Silent(Tail(q), s) /\ Head(q).sid # s
         /\ Opens(Tail(q), s) # {} => Opens(q, s) # {}
         /\ Head(q).kind # "OPEN" \/ Head(q).sid # s =>
              /\ Opens(q, s) # {} => Opens(Tail(q), s) # {}
              /\ OpensAhead(q, s) => OpensAhead(Tail(q), s) /\ Head(q).sid # s
         /\ Head(q).kind = "OPEN" /\ Head(q).sid = s =>
              Opens(q, s) # {} /\ (OpensOnce(q, s) => Opens(Tail(q), s) = {})
<1> DEFINE T == Tail(q)
<1>1. /\ \A i \in 1 .. Len(T) : i \in Nat \ {0} /\ i + 1 \in 1 .. Len(q) /\ T[i] = q[i + 1]
      /\ \A i \in 1 .. Len(q) : i \in Nat \ {0} /\ (i = 1 \/ (i - 1 \in 1 .. Len(T) /\ T[i - 1] = q[i]))
      /\ 1 \in 1 .. Len(q) /\ q[1] = Head(q)
  BY OneLess
<1> HIDE DEF T
<1>2. /\ \A i \in Opens(T, s) : i \in Nat \ {0} /\ i + 1 \in Opens(q, s)
      /\ \A i \in Opens(q, s) : i \in Nat \ {0} /\ (i = 1 \/ i - 1 \in Opens(T, s))
      /\ 1 \in Opens(q, s) <=> Head(q).kind = "OPEN" /\ Head(q).sid = s
  BY <1>1 DEF Opens
<1>3. Opens(q, s) = {} => Opens(T, s) = {} BY <1>2
<1>4. OpensOnce(q, s) => OpensOnce(T, s)
  <2> SUFFICES ASSUME OpensOnce(q, s), NEW i \in Opens(T, s), NEW j \in Opens(T, s) PROVE i = j
    BY DEF OpensOnce
  <2>1. i + 1 = j + 1 BY <1>2 DEF OpensOnce
  <2>2. QED BY <1>2, <2>1
<1>5. Silent(q, s) => Silent(T, s) /\ Head(q).sid # s BY <1>1 DEF Silent
<1>6. ASSUME Head(q).kind # "OPEN" \/ Head(q).sid # s
      PROVE  /\ Opens(q, s) # {} => Opens(T, s) # {}
             /\ OpensAhead(q, s) => OpensAhead(T, s) /\ Head(q).sid # s
  <2>1. \A j \in Opens(q, s) : j # 1 /\ j - 1 \in Opens(T, s) /\ j \in Nat BY <1>2, <1>6
  <2>2. ASSUME OpensAhead(q, s), NEW i \in 1 .. Len(T), T[i].sid = s
        PROVE  \E j \in Opens(T, s) : j <= i
    <3>1. PICK j \in Opens(q, s) : j <= i + 1 BY <1>1, <2>2 DEF OpensAhead
    <3>2. j - 1 \in Opens(T, s) /\ j - 1 <= i BY <1>1, <2>1, <3>1
    <3>3. QED BY <3>2
  <2>3. ASSUME OpensAhead(q, s), Head(q).sid = s PROVE FALSE
    <3>1. PICK j \in Opens(q, s) : j <= 1 BY <1>1, <2>3 DEF OpensAhead
    <3>2. QED BY <1>2, <2>1, <3>1
  <2>4. QED BY <2>1, <2>2, <2>3 DEF OpensAhead
<1>7. ASSUME Head(q).kind = "OPEN" /\ Head(q).sid = s
      PROVE  Opens(q, s) # {} /\ (OpensOnce(q, s) => Opens(T, s) = {})
  <2>1. 1 \in Opens(q, s) BY <1>2, <1>7
  <2>2. ASSUME OpensOnce(q, s), NEW i \in Opens(T, s) PROVE FALSE
    <3>1. i + 1 = 1 BY <1>2, <2>1, <2>2 DEF OpensOnce
    <3>2. QED BY <1>2, <3>1
  <2>3. QED BY <2>1, <2>2
<1>8. QED BY <1>2, <1>3, <1>4, <1>5, <1>6, <1>7 DEF T

(* Chunks keep their places. *)
LEMMA PlacesAfter ==
  ASSUME NEW e \in TunnelEnds, NEW q \in Seq(Frames), HavePlaces(e, q)
  PROVE  /\ \A f \in Frames : (f.kind = "DATA" => f.n \in 1 .. Chunks[e][f.sid]) => HavePlaces(e, Append(q, f))
         /\ q # <<>> => /\ HavePlaces(e, Tail(q)) /\ Head(q) \in Frames
                        /\ Head(q).kind = "DATA" => Head(q).n \in 1 .. Chunks[e][Head(q).sid]
<1>1. ASSUME NEW f \in Frames, f.kind = "DATA" => f.n \in 1 .. Chunks[e][f.sid]
      PROVE  HavePlaces(e, Append(q, f))
  <2>1. SUFFICES ASSUME NEW i \in 1 .. Len(Append(q, f)), Append(q, f)[i].kind = "DATA"
                 PROVE  Append(q, f)[i].n \in 1 .. Chunks[e][Append(q, f)[i].sid]
    BY DEF HavePlaces
  <2>2. CASE i \in 1 .. Len(q)
    <3>1. Append(q, f)[i] = q[i] BY <2>2, OneMore
    <3>2. QED BY <2>1, <2>2, <3>1 DEF HavePlaces
  <2>3. CASE i = Len(q) + 1
    <3>1. Append(q, f)[i] = f BY <2>3, OneMore
    <3>2. QED BY <1>1, <2>1, <3>1
  <2>4. QED BY <2>2, <2>3, OneMore
<1>2. ASSUME q # <<>>
      PROVE  /\ HavePlaces(e, Tail(q)) /\ Head(q) \in Frames
             /\ Head(q).kind = "DATA" => Head(q).n \in 1 .. Chunks[e][Head(q).sid]
  <2>1. /\ \A i \in 1 .. Len(Tail(q)) : i + 1 \in 1 .. Len(q) /\ Tail(q)[i] = q[i + 1]
        /\ Head(q) = q[1] /\ 1 \in 1 .. Len(q) /\ q[1] \in Frames
    BY <1>2, OneLess
  <2>2. QED BY <2>1 DEF HavePlaces
<1>3. QED BY <1>1, <1>2

(* The record of one end of one stream changes, and no other. *)
Moved(e, s, r) ==
  /\ streams' \in [TunnelEnds -> [Sids -> MuxStreams]]
  /\ streams'[e][s] = r
  /\ \A d \in TunnelEnds, t \in Sids : d # e \/ t # s => streams'[d][t] = streams[d][t]

(* A step of one stream does that. *)
LEMMA StreamMoves ==
  ASSUME MuxTypeOK, NEW e \in TunnelEnds, NEW s \in Sids, NEW r \in MuxStreams, Stream(e, s, r)
  PROVE  Moved(e, s, r)
BY DEF MuxTypeOK, Stream, Moved

(* It keeps what the other end and the pipe rely on. *)
KeepsFaith(e, s, r) ==
  /\ r \in MuxStreams /\ InItsOrder(e, s, r)
  /\ e \notin ended /\ r.phase \in Early => Phase(e, s) \in Early /\ Taken(r) = Taken(streams[e][s])
  /\ e = "host" => (r.phase = "none" <=> Phase(e, s) = "none")
  /\ e = "guest" /\ r.phase \in {"none", "opening"} => Phase(e, s) \in {"none", "opening"}

(* What an end has taken of a stream is counted. *)
LEMMA TakenIsANumber ==
  ASSUME NEW r \in MuxStreams
  PROVE  Taken(r) \in Nat /\ InHand(r) \in Nat /\ Len(r.inbox) \in Nat
BY LenProperties DEF MuxStreams, Taken, InHand

(* The end is alone in its streams: what comes for the other streams is as  *)
(* it was.                                                                  *)
LEMMA OtherStreams ==
  ASSUME MuxInvariant, NEW e \in TunnelEnds, NEW s \in Sids, NEW r, Moved(e, s, r),
         UNCHANGED <<link, ended>>, NEW d \in TunnelEnds, NEW t \in Sids, t # s
  PROVE  ComesInOrder(d, t)' /\ OpensFirst(t)' /\ InItsOrder(d, t, streams[d][t])'
<1>1. \A c \in TunnelEnds : streams'[c][t] = streams[c][t] BY DEF Moved
<1>2. Peer(d) \in TunnelEnds BY TwoEnds
<1>3. ComesInOrder(d, t) /\ OpensFirst(t) /\ InItsOrder(d, t, streams[d][t]) BY DEF MuxInvariant
<1>4. ComesInOrder(d, t)' BY <1>1, <1>2, <1>3 DEF ComesInOrder, Accepts, Feeds, Phase
<1>5. OpensFirst(t)' BY <1>1, <1>3, TwoEnds DEF OpensFirst, Phase
<1>6. InItsOrder(d, t, streams[d][t])' BY <1>1, <1>3 DEF InItsOrder
<1>7. QED BY <1>4, <1>5, <1>6

(* A step of one end of a stream that sends nothing. *)
LEMMA LocalStep ==
  ASSUME MuxInvariant, NEW e \in TunnelEnds, NEW s \in Sids, NEW r, Moved(e, s, r),
         KeepsFaith(e, s, r), UNCHANGED <<limit, link, broken, ended>>,
         r.phase \in Early /\ r.up => Feeds(e, s) /\ r.sent = streams[e][s].sent,
         e = "guest" /\ r.phase \in MaySend => Phase(e, s) \in MaySend
  PROVE  MuxInvariant'
<1> DEFINE p == Peer(e)
<1>0. p \in TunnelEnds /\ p # e /\ Peer(p) = e BY TwoEnds
<1>1. streams'[e][s] = r /\ streams'[p][s] = streams[p][s] BY <1>0 DEF Moved
<1>2. MuxTypeOK' BY DEF MuxInvariant, MuxTypeOK, Moved
<1>3. \A d \in TunnelEnds : HavePlaces(d, link[d])' BY DEF MuxInvariant, HavePlaces
<1>4. ComesInOrder(e, s) /\ ComesInOrder(p, s) /\ OpensFirst(s) BY <1>0 DEF MuxInvariant
<1>5. ComesInOrder(e, s)'
  BY <1>0, <1>1, <1>4 DEF ComesInOrder, Accepts, Feeds, Phase, KeepsFaith
<1>6. ComesInOrder(p, s)'
  BY <1>0, <1>1, <1>4 DEF ComesInOrder, Accepts, Feeds, Phase
<1>7. OpensFirst(s)'
  <2>1. CASE e = "host"
    <3>1. /\ streams'["guest"][s] = streams["guest"][s]
          /\ streams'["host"][s].phase = "none" <=> streams["host"][s].phase = "none"
      BY <1>1, <2>1, TwoEnds DEF KeepsFaith, Phase
    <3>2. QED BY <1>4, <3>1 DEF OpensFirst, Phase
  <2>2. CASE e = "guest"
    <3>1. /\ streams'["host"][s] = streams["host"][s]
          /\ streams'["guest"][s].phase \in {"none", "opening"} => streams["guest"][s].phase \in {"none", "opening"}
          /\ streams'["guest"][s].phase \in MaySend => streams["guest"][s].phase \in MaySend
      BY <1>1, <2>2, TwoEnds DEF KeepsFaith, Phase
    <3>2. QED BY <1>4, <3>1 DEF OpensFirst, Phase
  <2>3. QED BY <2>1, <2>2 DEF TunnelEnds
<1>8. \A d \in TunnelEnds : InItsOrder(d, s, streams[d][s])'
  <2>1. InItsOrder(e, s, r)' BY DEF KeepsFaith, InItsOrder
  <2>2. InItsOrder(p, s, streams[p][s]) BY <1>0 DEF MuxInvariant
  <2>3. InItsOrder(p, s, streams[p][s])' BY <1>1, <2>2 DEF InItsOrder
  <2>4. \A d \in TunnelEnds : d = e \/ d = p BY DEF TunnelEnds, Peer
  <2>5. QED BY <1>1, <2>1, <2>3, <2>4 DEF InItsOrder
<1>9. \A d \in TunnelEnds : ComesInOrder(d, s)'
  <2>1. \A d \in TunnelEnds : d = e \/ d = p BY DEF TunnelEnds, Peer
  <2>2. QED BY <1>5, <1>6, <2>1
<1>10. \A d \in TunnelEnds, t \in Sids : ComesInOrder(d, t)' /\ InItsOrder(d, t, streams[d][t])'
  BY <1>8, <1>9, OtherStreams
<1>11. \A t \in Sids : OpensFirst(t)' BY <1>7, OtherStreams
<1>12. QED BY <1>2, <1>3, <1>10, <1>11 DEF MuxInvariant

(* A step of one end of a stream that sends a frame of it. *)
LEMMA SendStep ==
  ASSUME MuxInvariant, NEW e \in TunnelEnds, NEW s \in Sids, NEW r, Moved(e, s, r), KeepsFaith(e, s, r),
         NEW f \in Frames, f.sid = s, f.kind = "DATA" => f.n \in 1 .. Chunks[e][s],
         link' = [link EXCEPT ![e] = Append(@, f)], UNCHANGED <<limit, broken, ended>>,
         Carries(f, s) => Feeds(e, s) /\ Place(e, f) = streams[e][s].sent + 1,
         r.phase \in Early /\ r.up =>
           Feeds(e, s) /\ r.sent = streams[e][s].sent + (IF Carries(f, s) THEN 1 ELSE 0),
         OpensFirst(s)'
  PROVE  MuxInvariant'
<1> DEFINE p == Peer(e)
           q == link[e]
<1>0. p \in TunnelEnds /\ p # e /\ Peer(p) = e /\ \A d \in TunnelEnds : d = e \/ d = p
  BY TwoEnds DEF TunnelEnds, Peer
<1>1. streams'[e][s] = r /\ \A t \in Sids : streams'[p][t] = streams[p][t]
  BY <1>0 DEF Moved
<1>2. q \in Seq(Frames) BY DEF MuxInvariant, MuxTypeOK
<1>3. link'[e] = Append(q, f) /\ link'[p] = link[p] BY <1>0 DEF MuxInvariant, MuxTypeOK
<1>4. MuxTypeOK'
  <2>1. Append(q, f) \in Seq(Frames) BY <1>2, OneMore
  <2>2. link' \in [TunnelEnds -> Seq(Frames)] BY <2>1 DEF MuxInvariant, MuxTypeOK
  <2>3. QED BY <2>2 DEF MuxInvariant, MuxTypeOK, Moved
<1>5. \A d \in TunnelEnds : HavePlaces(d, link[d])'
  <2>1. HavePlaces(e, Append(q, f)) BY <1>2, PlacesAfter DEF MuxInvariant
  <2>2. HavePlaces(p, link[p]) BY <1>0 DEF MuxInvariant
  <2>3. HavePlaces(e, link'[e]) /\ HavePlaces(p, link'[p]) BY <1>3, <2>1, <2>2
  <2>4. QED BY <1>0, <2>3 DEF HavePlaces
<1>6. \A t \in Sids : ComesInOrder(e, t)'
  <2> TAKE t \in Sids
  <2>1. ComesInOrder(e, t) BY DEF MuxInvariant
  <2>2. CASE t = s
    BY <1>0, <1>1, <1>3, <2>1, <2>2 DEF ComesInOrder, Accepts, Feeds, Phase, KeepsFaith
  <2>3. CASE t # s
    <3>1. streams'[e][t] = streams[e][t] BY <2>3 DEF Moved
    <3>2. QED BY <1>0, <1>1, <1>3, <2>1, <3>1 DEF ComesInOrder, Accepts, Feeds, Phase
  <2>4. QED BY <2>2, <2>3
<1>7. \A t \in Sids : ComesInOrder(p, t)'
  <2> TAKE t \in Sids
  <2> DEFINE k == Taken(streams[p][t])
             n == streams[e][t].sent
  <2>0. k \in Nat /\ n \in Nat
    BY <1>0, TakenIsANumber DEF MuxInvariant, MuxTypeOK, MuxStreams
  <2>1. Accepts(p, t) => InSequence(e, q, t, k) /\ (Feeds(e, t) => ReachesTo(e, q, t, k, n))
    BY <1>0 DEF MuxInvariant, ComesInOrder
  <2>2. SUFFICES ASSUME Accepts(p, t)
                 PROVE  /\ InSequence(e, Append(q, f), t, k)
                        /\ Feeds(e, t)' => ReachesTo(e, Append(q, f), t, k, streams'[e][t].sent)
    BY <1>0, <1>1, <1>3 DEF ComesInOrder, Accepts, Phase
  <2>3. CASE ~Carries(f, t)
    <3>1. InSequence(e, Append(q, f), t, k) BY <1>2, <2>0, <2>1, <2>2, <2>3, SendOther
    <3>2. Feeds(e, t)' => Feeds(e, t) /\ streams'[e][t].sent = n
      <4>1. CASE t = s BY <1>1, <2>0, <2>3, <4>1 DEF Feeds, Phase
      <4>2. CASE t # s
        <5>1. streams'[e][t] = streams[e][t] BY <4>2 DEF Moved
        <5>2. QED BY <5>1 DEF Feeds, Phase
      <4>3. QED BY <4>1, <4>2
    <3>3. Feeds(e, t) => ReachesTo(e, Append(q, f), t, k, n)
      BY <1>2, <2>0, <2>1, <2>2, <2>3, SendOther
    <3>4. QED BY <3>1, <3>2, <3>3
  <2>4. CASE Carries(f, t)
    <3>1. t = s BY <2>4 DEF Carries
    <3>2. Feeds(e, t) /\ Place(e, f) = n + 1 BY <2>4, <3>1
    <3>3. InSequence(e, Append(q, f), t, k) /\ ReachesTo(e, Append(q, f), t, k, n + 1)
      BY <1>2, <2>0, <2>1, <2>2, <2>4, <3>2, SendNext
    <3>4. Feeds(e, t)' => streams'[e][t].sent = n + 1 BY <1>1, <2>4, <3>1 DEF Feeds, Phase
    <3>5. QED BY <3>3, <3>4
  <2>5. QED BY <2>3, <2>4
<1>8. \A t \in Sids : OpensFirst(t)'
  <2> TAKE t \in Sids
  <2>1. CASE t # s
    <3>1. OpensFirst(t) /\ f.sid # t BY <2>1 DEF MuxInvariant
    <3>2. /\ Opens(Append(q, f), t) = Opens(q, t)
          /\ Silent(Append(q, f), t) <=> Silent(q, t)
          /\ OpensAhead(q, t) => OpensAhead(Append(q, f), t)
      BY <1>2, <3>1, OpensAfterSend
    <3>3. OpensOnce(Append(q, f), t) <=> OpensOnce(q, t) BY <3>2 DEF OpensOnce
    <3>4. \A d \in TunnelEnds : streams'[d][t] = streams[d][t] BY <2>1 DEF Moved
    <3>5. CASE e = "guest"
      <4>1. link'["guest"] = Append(link["guest"], f) /\ link'["host"] = link["host"]
        BY <1>3, <3>5, TwoEnds
      <4>2. QED BY <3>1, <3>2, <3>3, <3>4, <3>5, <4>1, TwoEnds DEF OpensFirst, Phase
    <3>6. CASE e = "host"
      <4>1. link'["host"] = Append(link["host"], f) /\ link'["guest"] = link["guest"]
        BY <1>3, <3>6, TwoEnds
      <4>2. QED BY <3>1, <3>2, <3>3, <3>4, <3>6, <4>1, TwoEnds DEF OpensFirst, Phase
    <3>7. QED BY <3>5, <3>6 DEF TunnelEnds
  <2>2. QED BY <2>1
<1>9. \A d \in TunnelEnds, t \in Sids : InItsOrder(d, t, streams[d][t])'
  <2> TAKE d \in TunnelEnds, t \in Sids
  <2>1. InItsOrder(d, t, streams[d][t]) /\ InItsOrder(e, s, r) BY DEF MuxInvariant, KeepsFaith
  <2>2. InItsOrder(d, t, streams'[d][t]) BY <1>1, <2>1 DEF Moved
  <2>3. QED BY <2>2 DEF InItsOrder
<1>10. \A d \in TunnelEnds, t \in Sids : ComesInOrder(d, t)' BY <1>0, <1>6, <1>7
<1>11. QED BY <1>4, <1>5, <1>8, <1>9, <1>10 DEF MuxInvariant

(* Who may send has opened the stream, or was asked to. *)
LEMMA SendingKeepsItOpen ==
  ASSUME MuxInvariant, NEW e \in TunnelEnds, NEW s \in Sids, NEW r, Moved(e, s, r), KeepsFaith(e, s, r),
         NEW f \in Frames, f.sid = s, f.kind # "OPEN", Phase(e, s) \in MaySend,
         link' = [link EXCEPT ![e] = Append(@, f)], UNCHANGED ended
  PROVE  OpensFirst(s)'
<1>0. OpensFirst(s) /\ link[e] \in Seq(Frames) BY DEF MuxInvariant, MuxTypeOK
<1>1. /\ Opens(Append(link[e], f), s) = Opens(link[e], s)
      /\ OpensAhead(link[e], s) /\ Opens(link[e], s) # {} => OpensAhead(Append(link[e], f), s)
  BY <1>0, OpensAfterSend
<1>2. streams'[e][s] = r /\ Phase(e, s) \notin {"none", "opening"} BY DEF Moved, MaySend
<1>3. CASE e = "guest"
  <2>1. /\ link'["guest"] = Append(link["guest"], f) /\ link'["host"] = link["host"]
        /\ streams'["host"][s] = streams["host"][s]
    BY <1>3, TwoEnds DEF MuxInvariant, MuxTypeOK, Moved
  <2>2. OpensOnce(link'["guest"], s) BY <1>0, <1>1, <1>3, <2>1 DEF OpensFirst, OpensOnce
  <2>3. r.phase \notin {"none", "opening"} BY <1>2, <1>3 DEF KeepsFaith
  <2>4. QED BY <1>0, <1>1, <1>2, <1>3, <2>1, <2>2, <2>3 DEF OpensFirst, Phase
<1>4. CASE e = "host"
  <2>1. /\ link'["host"] = Append(link["host"], f) /\ link'["guest"] = link["guest"]
        /\ streams'["guest"][s] = streams["guest"][s]
    BY <1>4, TwoEnds DEF MuxInvariant, MuxTypeOK, Moved
  <2>2. r.phase # "none" /\ Phase("host", s) # "none" BY <1>2, <1>4 DEF KeepsFaith
  <2>3. QED BY <1>0, <1>1, <1>2, <1>4, <2>1, <2>2 DEF OpensFirst, Phase
<1>5. QED BY <1>3, <1>4 DEF TunnelEnds

(* The first frame in the pipe: it opens a stream, or the stream is open.   *)
LEMMA ReadOpens ==
  ASSUME MuxInvariant, NEW e \in TunnelEnds, e \notin ended, NEW f, NEW s, f.sid = s,
         link[Peer(e)] # <<>>, f = Head(link[Peer(e)])
  PROVE  /\ f \in Frames /\ s \in Sids
         /\ f.kind = "OPEN" => e = "host" /\ Phase("host", s) = "none"
         /\ f.kind # "OPEN" => Phase("host", s) # "none"
         /\ Phase("guest", s) \notin {"none", "opening"}
         /\ Opens(Tail(link[Peer(e)]), s) = {} /\ Opens(link[e], s) = {}
<1> DEFINE q == link[Peer(e)]
<1>1. Peer(e) \in TunnelEnds /\ q \in Seq(Frames) BY TwoEnds DEF MuxInvariant, MuxTypeOK
<1>2. f \in Frames /\ s \in Sids BY <1>1, OneLess DEF Frames
<1>3. OpensFirst(s) BY <1>2 DEF MuxInvariant
<1>4. /\ Opens(q, s) = {} => Opens(Tail(q), s) = {}
      /\ Silent(q, s) => f.sid # s
      /\ f.kind # "OPEN" /\ OpensAhead(q, s) => f.sid # s
      /\ f.kind = "OPEN" => Opens(q, s) # {} /\ (OpensOnce(q, s) => Opens(Tail(q), s) = {})
  BY <1>1, OpensAfterRead
<1>5. ~Silent(q, s) /\ (f.kind # "OPEN" => ~OpensAhead(q, s)) BY <1>4
<1>6. CASE e = "host"
  <2>1. q = link["guest"] BY <1>6, TwoEnds
  <2>2. QED BY <1>2, <1>3, <1>4, <1>5, <1>6, <2>1 DEF OpensFirst
<1>7. CASE e = "guest"
  <2>1. q = link["host"] BY <1>7, TwoEnds
  <2>2. QED BY <1>2, <1>3, <1>4, <1>5, <1>7, <2>1 DEF OpensFirst
<1>8. QED BY <1>6, <1>7 DEF TunnelEnds

(* What an end makes of the frame it reads. *)
LEMMA ReceivedInOrder ==
  ASSUME MuxInvariant, NEW e \in TunnelEnds, e \notin ended, NEW f, NEW s, f.sid = s,
         link[Peer(e)] # <<>>, f = Head(link[Peer(e)]), NEW r, r = Received(e, f)
  PROVE  /\ r \in MuxStreams /\ InItsOrder(e, s, r)
         /\ r.phase \in Early =>
              /\ Phase(e, s) \in Early /\ (r.up => streams[e][s].up) /\ r.sent = streams[e][s].sent
              /\ Taken(r) = Taken(streams[e][s]) + (IF Carries(f, s) THEN 1 ELSE 0)
         /\ e = "host" => r.phase # "none"
         /\ e = "guest" => r.phase \notin {"none", "opening"}
<1> DEFINE o == streams[e][s]
           p == Peer(e)
<1>1. /\ f \in Frames /\ s \in Sids
      /\ f.kind = "OPEN" => e = "host" /\ o.phase = "none"
      /\ f.kind # "OPEN" => ~(e = "host" /\ o.phase = "none")
      /\ ~(e = "guest" /\ o.phase \in {"none", "opening"})
  BY ReadOpens DEF Phase
<1>2. p \in TunnelEnds /\ Peer(p) = e BY TwoEnds
<1>3. o \in MuxStreams /\ InItsOrder(e, s, o) BY <1>1 DEF MuxInvariant, MuxTypeOK
<1>4. link[p] \in Seq(Frames) BY <1>2 DEF MuxInvariant, MuxTypeOK
<1>5. Chunks[e][s] \in Nat /\ Chunks[p][s] \in Nat /\ Window \in Nat \ {0}
  BY <1>1, <1>2, TunnelAssumption
<1>6. Taken(o) \in Nat /\ InHand(o) \in Nat /\ Len(o.inbox) \in Nat BY <1>3, TakenIsANumber
<1>7. o.phase \in Early /\ Carries(f, s) => Place(p, f) = Taken(o) + 1
  <2>1. SUFFICES ASSUME o.phase \in Early, Carries(f, s) PROVE Place(p, f) = Taken(o) + 1
    OBVIOUS
  <2>2. ComesInOrder(e, s) BY <1>1 DEF MuxInvariant
  <2>3. InSequence(p, link[p], s, Taken(o)) BY <2>1, <2>2 DEF ComesInOrder, Accepts, Phase
  <2>4. QED BY <1>2, <1>4, <1>6, <2>1, <2>3, ReadNext
<1>8. s \in Registered(e) <=> o.phase \in {"opening", "dialing", "bridged", "closing"}
  BY <1>1 DEF Registered, Phase
<1>9. f.kind \in FrameKinds /\ f.n \in Nat BY <1>1 DEF Frames
<1>10. /\ Aborted \in MuxStreams /\ InItsOrder(e, s, Aborted) /\ Aborted.phase = "aborted"
       /\ Closing \in MuxStreams /\ InItsOrder(e, s, Closing) /\ Closing.phase = "closing"
  <2> SUFFICES ASSUME NEW z \in {Aborted, Closing}
               PROVE  z \in MuxStreams /\ InItsOrder(e, s, z)
    BY DEF Aborted, Closing
  <2>1. /\ z.phase \in {"aborted", "closing"} /\ z.sent = 0 /\ z.written = 0 /\ z.writing = 0 /\ z.inbox = <<>>
        /\ z \in MuxStreams
    <3>1. <<>> \in Seq(Nat) /\ Window \in Int BY <1>5, EmptySeq
    <3>2. CASE z = Aborted BY <3>1, <3>2 DEF Aborted, Unused, MuxStreams, Phases
    <3>3. CASE z = Closing BY <3>1, <3>3 DEF Closing, Unused, MuxStreams, Phases
    <3>4. QED BY <3>2, <3>3
  <2>2. \A k \in 1 .. Len(z.inbox) : FALSE BY <2>1
  <2>3. InItsOrder(e, s, z) BY <1>5, <2>1, <2>2 DEF InItsOrder
  <2>4. QED BY <2>1, <2>3
<1> HIDE DEF o, p
<1>11. CASE f.kind = "OPEN"
  <2>1. PICK way \in {"refusing", "dialing"} : r = [o EXCEPT !.phase = way]
    BY <1>11 DEF Received, o
  <2>2. o.phase = "none" /\ e = "host" BY <1>1, <1>11
  <2>3. o.up /\ o.down /\ o.sent = 0 /\ o.written = 0 /\ o.inbox = <<>> /\ o.writing = 0
    BY <1>3, <2>2 DEF InItsOrder
  <2>4. r \in MuxStreams /\ r.phase = way /\ r.up = o.up /\ r.down = o.down /\ r.sent = o.sent
        /\ r.written = o.written /\ r.inbox = o.inbox /\ r.writing = o.writing
    BY <1>3, <2>1 DEF MuxStreams, Phases
  <2>5. InItsOrder(e, s, r)
    <3>1. \A k \in 1 .. Len(r.inbox) : FALSE BY <2>3, <2>4
    <3>2. r.phase \in {"refusing", "dialing"} BY <2>4
    <3>3. r.phase \notin {"none", "opening", "bridged", "clean"} BY <3>2
    <3>4. r.sent = 0 /\ r.written = 0 /\ r.writing = 0 /\ r.up /\ r.down BY <2>3, <2>4
    <3>5. QED BY <1>5, <3>1, <3>3, <3>4 DEF InItsOrder
  <2>6. Taken(r) = Taken(o) /\ ~Carries(f, s) BY <1>11, <2>4 DEF Taken, InHand, Carries
  <2>7. QED BY <1>6, <2>2, <2>4, <2>5, <2>6 DEF Phase, Early, o
<1>12. CASE f.kind # "OPEN" /\ s \notin Registered(e)
  <2>1. r = o BY <1>12 DEF Received, o
  <2>2. o.phase \notin Early /\ ~(e = "host" /\ o.phase = "none")
    BY <1>1, <1>8, <1>12 DEF Early, TunnelEnds
  <2>3. QED BY <1>1, <1>3, <2>1, <2>2
<1>13. CASE f.kind = "CLOSE" /\ s \in Registered(e)
  <2>1. r = Aborted BY <1>13 DEF Received
  <2>2. QED BY <1>10, <2>1 DEF Early
<1>14. CASE f.kind \notin {"OPEN", "CLOSE"} /\ s \in Registered(e) /\ o.phase = "closing"
  <2>1. r = o BY <1>14 DEF Received, o
  <2>2. QED BY <1>3, <1>14, <2>1 DEF Early
<1>15. CASE f.kind \notin {"OPEN", "CLOSE"} /\ s \in Registered(e) /\ o.phase # "closing"
  <2>0. o.phase \in {"opening", "dialing", "bridged"} /\ o.phase \in Early
    BY <1>8, <1>15 DEF Early
  <2>1. CASE f.kind = "DATA" /\ Len(o.inbox) + 1 > 2 * Window
    <3>1. r = Closing BY <1>15, <2>1 DEF Received, o
    <3>2. QED BY <1>10, <3>1 DEF Early
  <2>2. CASE f.kind = "CREDIT"
    <3>1. r = [o EXCEPT !.window = @ + f.n] BY <1>15, <2>2 DEF Received, o
    <3>2. r \in MuxStreams /\ r.phase = o.phase /\ r.up = o.up /\ r.down = o.down /\ r.sent = o.sent
          /\ r.written = o.written /\ r.inbox = o.inbox /\ r.writing = o.writing
      BY <1>3, <1>9, <3>1 DEF MuxStreams
    <3>3. InItsOrder(e, s, r) BY <1>3, <3>2 DEF InItsOrder, InHand
    <3>4. Taken(r) = Taken(o) /\ ~Carries(f, s) BY <2>2, <3>2 DEF Taken, InHand, Carries
    <3>5. QED BY <1>1, <1>6, <2>0, <3>2, <3>3, <3>4 DEF Phase, o
  <2>3. CASE (f.kind = "DATA" /\ ~(Len(o.inbox) + 1 > 2 * Window)) \/ f.kind = "EOF"
    <3> DEFINE c == IF f.kind = "DATA" THEN f.n ELSE 0
    <3>1. r = [o EXCEPT !.inbox = Append(@, c)] BY <1>15, <2>3 DEF Received, o
    <3>2. c \in Nat BY <1>9
    <3>3. Place(p, f) = Taken(o) + 1 /\ Carries(f, s) BY <1>7, <2>0, <2>3 DEF Carries
    <3>4. IF c = 0 THEN Taken(o) = Chunks[p][s] ELSE c = Taken(o) + 1
      BY <1>5, <1>6, <1>9, <2>3, <3>3 DEF Place
    <3> HIDE DEF c
    <3>5. o.inbox \in Seq(Nat) BY <1>3 DEF MuxStreams
    <3>6. /\ Append(o.inbox, c) \in Seq(Nat) /\ Len(Append(o.inbox, c)) = Len(o.inbox) + 1
          /\ \A k \in 1 .. Len(o.inbox) : Append(o.inbox, c)[k] = o.inbox[k]
          /\ Append(o.inbox, c)[Len(o.inbox) + 1] = c
      BY <3>2, <3>5, AppendProperties
    <3>7. r \in MuxStreams /\ r.phase = o.phase /\ r.up = o.up /\ r.down = o.down /\ r.sent = o.sent
          /\ r.written = o.written /\ r.inbox = Append(o.inbox, c) /\ r.writing = o.writing
      BY <1>3, <3>1, <3>6 DEF MuxStreams
    <3>8. InHand(r) = InHand(o) /\ Taken(r) = Taken(o) + 1
      <4>1. InHand(r) = InHand(o) BY <3>7 DEF InHand
      <4>2. Len(r.inbox) = Len(o.inbox) + 1 BY <3>6, <3>7
      <4>3. QED BY <1>6, <4>1, <4>2 DEF Taken
    <3>9. ASSUME NEW k \in 1 .. Len(r.inbox)
          PROVE  IF r.inbox[k] = 0 THEN InHand(r) + k = Chunks[p][s] + 1
                                   ELSE r.inbox[k] = InHand(r) + k
      <4>1. CASE k \in 1 .. Len(o.inbox)
        <5>1. r.inbox[k] = o.inbox[k] BY <3>6, <3>7, <4>1
        <5>2. QED BY <1>3, <3>8, <4>1, <5>1 DEF InItsOrder, p
      <4>2. CASE k = Len(o.inbox) + 1
        <5>1. r.inbox[k] = c BY <3>6, <3>7, <4>2
        <5>2. Taken(o) = InHand(o) + Len(o.inbox) BY DEF Taken
        <5>3. InHand(r) + k = Taken(o) + 1 BY <1>6, <3>8, <4>2, <5>2
        <5>4. CASE c = 0 BY <3>4, <5>1, <5>3, <5>4
        <5>5. CASE c # 0 BY <3>4, <5>1, <5>3, <5>5
        <5>6. QED BY <5>4, <5>5
      <4>3. QED BY <1>6, <3>6, <3>7, <4>1, <4>2
    <3>10. InItsOrder(e, s, r)
      <4>1. InItsOrder(e, s, o) BY <1>3
      <4>2. QED BY <2>0, <3>7, <3>9, <4>1 DEF InItsOrder, p
    <3>11. QED BY <1>1, <2>0, <3>3, <3>7, <3>8, <3>10 DEF Phase, o
  <2>4. QED BY <1>9, <1>15, <2>1, <2>2, <2>3 DEF FrameKinds
<1>16. QED BY <1>11, <1>12, <1>13, <1>14, <1>15

(* An end reads a frame. *)
LEMMA DispatchStep ==
  ASSUME MuxInvariant, NEW e \in TunnelEnds, DispatchFrame(e)
  PROVE  MuxInvariant'
<1> DEFINE p == Peer(e)
           q == link[p]
           f == Head(q)
           s == f.sid
           r == Received(e, f)
           o == streams[e][s]
<1>1. e \notin ended /\ q # <<>> /\ Stream(e, s, r) /\ UNCHANGED <<limit, broken, ended>>
      /\ link' = [link EXCEPT ![p] = Tail(@)]
  BY DEF DispatchFrame
<1>2. p \in TunnelEnds /\ p # e /\ Peer(p) = e /\ \A d \in TunnelEnds : d = e \/ d = p
  BY TwoEnds DEF TunnelEnds, Peer
<1>3. /\ f \in Frames /\ s \in Sids
      /\ f.kind # "OPEN" => Phase("host", s) # "none"
      /\ f.kind = "OPEN" => e = "host" /\ Phase("host", s) = "none"
      /\ Phase("guest", s) \notin {"none", "opening"}
      /\ Opens(Tail(q), s) = {} /\ Opens(link[e], s) = {}
  BY <1>1, ReadOpens
<1>4. /\ r \in MuxStreams /\ InItsOrder(e, s, r)
      /\ r.phase \in Early =>
           /\ Phase(e, s) \in Early /\ (r.up => o.up) /\ r.sent = o.sent
           /\ Taken(r) = Taken(o) + (IF Carries(f, s) THEN 1 ELSE 0)
      /\ e = "host" => r.phase # "none"
      /\ e = "guest" => r.phase \notin {"none", "opening"}
  BY <1>1, ReceivedInOrder
<1>5. q \in Seq(Frames) BY <1>2 DEF MuxInvariant, MuxTypeOK
<1>6. link'[p] = Tail(q) /\ link'[e] = link[e] BY <1>1, <1>2 DEF MuxInvariant, MuxTypeOK
<1>7. Moved(e, s, r) BY <1>1, <1>3, <1>4, StreamMoves DEF MuxInvariant
<1>8. streams'[e][s] = r /\ \A t \in Sids : streams'[p][t] = streams[p][t] /\ (t # s => streams'[e][t] = streams[e][t])
  BY <1>2, <1>7 DEF Moved
<1> HIDE DEF r, f, s, o, q
<1>9. MuxTypeOK'
  <2>1. Tail(q) \in Seq(Frames) BY <1>1, <1>5, OneLess
  <2>2. link' \in [TunnelEnds -> Seq(Frames)] BY <1>1, <2>1 DEF MuxInvariant, MuxTypeOK, q
  <2>3. QED BY <1>1, <1>7, <2>2 DEF MuxInvariant, MuxTypeOK, Moved
<1>10. \A d \in TunnelEnds : HavePlaces(d, link[d])'
  <2>1. HavePlaces(p, q) /\ HavePlaces(e, link[e]) BY <1>2 DEF MuxInvariant, q
  <2>2. HavePlaces(p, Tail(q)) BY <1>1, <1>2, <1>5, <2>1, PlacesAfter
  <2>3. HavePlaces(e, link'[e]) /\ HavePlaces(p, link'[p]) BY <1>6, <2>1, <2>2
  <2>4. QED BY <1>2, <2>3 DEF HavePlaces
<1>11. \A t \in Sids : OpensFirst(t)'
  <2> TAKE t \in Sids
  <2>1. CASE t = s
    <3>1. Opens(link'["host"], t) = {} /\ Opens(link'["guest"], t) = {}
      BY <1>2, <1>3, <1>6, <2>1, TwoEnds
    <3>2. streams'["host"][t].phase # "none" /\ streams'["guest"][t].phase \notin {"none", "opening"}
      <4>1. CASE e = "host"
        <5>1. p = "guest" BY <4>1, TwoEnds
        <5>2. streams'["guest"][t] = streams["guest"][t] /\ streams'["host"][t] = r
          BY <1>8, <2>1, <4>1, <5>1
        <5>3. QED BY <1>3, <1>4, <2>1, <4>1, <5>2 DEF Phase
      <4>2. CASE e = "guest"
        <5>1. p = "host" BY <4>2, TwoEnds
        <5>2. streams'["host"][t] = streams["host"][t] /\ streams'["guest"][t] = r
          BY <1>8, <2>1, <4>2, <5>1
        <5>3. QED BY <1>3, <1>4, <2>1, <4>2, <5>2 DEF Phase
      <4>3. QED BY <4>1, <4>2 DEF TunnelEnds
    <3>3. QED BY <3>1, <3>2 DEF OpensFirst, Phase, OpensOnce
  <2>2. CASE t # s
    <3>1. OpensFirst(t) /\ Head(q).sid # t BY <2>2 DEF MuxInvariant, s, f
    <3>2. /\ Opens(q, t) = {} <=> Opens(Tail(q), t) = {}
          /\ OpensOnce(q, t) => OpensOnce(Tail(q), t)
          /\ Silent(q, t) => Silent(Tail(q), t)
          /\ OpensAhead(q, t) => OpensAhead(Tail(q), t)
      BY <1>1, <1>5, <3>1, OpensAfterRead
    <3>3. \A d \in TunnelEnds : streams'[d][t] = streams[d][t] BY <1>2, <1>8, <2>2
    <3>4. CASE p = "guest"
      <4>1. q = link["guest"] /\ link'["guest"] = Tail(q) /\ link'["host"] = link["host"]
        BY <1>2, <1>6, <3>4, TwoEnds DEF q
      <4>2. QED BY <1>1, <3>1, <3>2, <3>3, <4>1, TwoEnds DEF OpensFirst, Phase
    <3>5. CASE p = "host"
      <4>1. q = link["host"] /\ link'["host"] = Tail(q) /\ link'["guest"] = link["guest"]
        BY <1>2, <1>6, <3>5, TwoEnds DEF q
      <4>2. QED BY <1>1, <3>1, <3>2, <3>3, <4>1, TwoEnds DEF OpensFirst, Phase
    <3>6. QED BY <1>2, <3>4, <3>5 DEF TunnelEnds
  <2>3. QED BY <2>1, <2>2
<1>12. \A d \in TunnelEnds, t \in Sids : InItsOrder(d, t, streams[d][t])'
  <2> TAKE d \in TunnelEnds, t \in Sids
  <2>1. InItsOrder(d, t, streams[d][t]) BY DEF MuxInvariant
  <2>2. InItsOrder(d, t, streams'[d][t]) BY <1>2, <1>4, <1>8, <2>1
  <2>3. QED BY <2>2 DEF InItsOrder
<1>13. \A t \in Sids : ComesInOrder(p, t)'
  <2> TAKE t \in Sids
  <2>1. ComesInOrder(p, t) BY <1>2 DEF MuxInvariant
  <2>2. Feeds(e, t)' => Feeds(e, t) /\ streams'[e][t].sent = streams[e][t].sent
    <3>1. CASE t = s BY <1>4, <1>8, <3>1 DEF Feeds, Phase, o
    <3>2. CASE t # s BY <1>8, <3>2 DEF Feeds, Phase
    <3>3. QED BY <3>1, <3>2
  <2>3. Accepts(p, t)' => Accepts(p, t) BY <1>1, <1>8 DEF Accepts, Phase
  <2>4. QED BY <1>2, <1>6, <1>8, <2>1, <2>2, <2>3 DEF ComesInOrder
<1>14. \A t \in Sids : ComesInOrder(e, t)'
  <2> TAKE t \in Sids
  <2> DEFINE k == Taken(streams[e][t])
             n == streams[p][t].sent
  <2>1. k \in Nat /\ n \in Nat BY <1>2, TakenIsANumber DEF MuxInvariant, MuxTypeOK, MuxStreams
  <2>2. Accepts(e, t) => InSequence(p, q, t, k) /\ (Feeds(p, t) => ReachesTo(p, q, t, k, n))
    BY DEF MuxInvariant, ComesInOrder, q
  <2>3. Feeds(p, t)' <=> Feeds(p, t) BY <1>8 DEF Feeds, Phase
  <2>4. Accepts(e, t)' => Accepts(e, t)
    <3>1. CASE t = s BY <1>1, <1>4, <1>8, <3>1 DEF Accepts, Phase
    <3>2. CASE t # s BY <1>1, <1>8, <3>2 DEF Accepts, Phase
    <3>3. QED BY <3>1, <3>2
  <2>5. SUFFICES ASSUME Accepts(e, t)'
                 PROVE  /\ InSequence(p, Tail(q), t, Taken(streams'[e][t]))
                        /\ Feeds(p, t) => ReachesTo(p, Tail(q), t, Taken(streams'[e][t]), n)
    BY <1>2, <1>6, <1>8, <2>3 DEF ComesInOrder
  <2>6. InSequence(p, q, t, k) /\ (Feeds(p, t) => ReachesTo(p, q, t, k, n)) BY <2>2, <2>4, <2>5
  <2>7. CASE Carries(f, t)
    <3>1. t = s BY <2>7 DEF Carries, s
    <3>2. Taken(streams'[e][t]) = k + 1 BY <1>4, <1>8, <2>5, <2>7, <3>1 DEF Accepts, Phase, o
    <3>3. /\ InSequence(p, Tail(q), t, k + 1)
          /\ ReachesTo(p, q, t, k, n) => ReachesTo(p, Tail(q), t, k + 1, n)
      BY <1>1, <1>2, <1>5, <2>1, <2>6, <2>7, ReadNext DEF f
    <3>4. QED BY <2>6, <3>2, <3>3
  <2>8. CASE ~Carries(f, t)
    <3>1. Taken(streams'[e][t]) = k
      <4>1. CASE t = s
        <5>1. Taken(r) = Taken(o) + 0 BY <1>4, <1>8, <2>5, <2>8, <4>1 DEF Accepts, Phase
        <5>2. QED BY <1>8, <2>1, <4>1, <5>1 DEF o
      <4>2. CASE t # s BY <1>8, <4>2
      <4>3. QED BY <4>1, <4>2
    <3>2. /\ InSequence(p, Tail(q), t, k)
          /\ ReachesTo(p, q, t, k, n) => ReachesTo(p, Tail(q), t, k, n)
      BY <1>1, <1>2, <1>5, <2>1, <2>6, <2>8, ReadOther DEF f
    <3>3. QED BY <2>6, <3>1, <3>2
  <2>9. QED BY <2>7, <2>8
<1>15. \A d \in TunnelEnds, t \in Sids : ComesInOrder(d, t)' BY <1>2, <1>13, <1>14
<1>16. QED BY <1>9, <1>10, <1>11, <1>12, <1>15 DEF MuxInvariant

(* The end of the pipe is read. *)
LEMMA EndRunStep ==
  ASSUME MuxInvariant, NEW e \in TunnelEnds, EndRun(e)
  PROVE  MuxInvariant'
<1> DEFINE p == Peer(e)
<1>1. p \in TunnelEnds /\ p # e /\ Peer(p) = e /\ \A d \in TunnelEnds : d = e \/ d = p
  BY TwoEnds DEF TunnelEnds, Peer
<1>2. link'[p] = <<>> /\ link'[e] = link[e] /\ link' \in [TunnelEnds -> Seq(Frames)]
  BY <1>1, EmptySeq DEF EndRun, MuxInvariant, MuxTypeOK
<1>3. /\ \A t \in Sids : streams'[p][t] = streams[p][t]
      /\ \A t \in Sids : streams'[e][t] = IF t \in Registered(e) THEN Aborted ELSE streams[e][t]
  BY <1>1 DEF EndRun, MuxInvariant, MuxTypeOK
<1>4. Aborted \in MuxStreams /\ Aborted.phase = "aborted"
      /\ Aborted.inbox = <<>> /\ Aborted.sent = 0 /\ Aborted.written = 0 /\ Aborted.writing = 0
  <2>1. <<>> \in Seq(Nat) /\ Window \in Int BY EmptySeq, TunnelAssumption
  <2>2. QED BY <2>1 DEF Aborted, Unused, MuxStreams, Phases
<1>5. streams' \in [TunnelEnds -> [Sids -> MuxStreams]]
  BY <1>4 DEF EndRun, MuxInvariant, MuxTypeOK
<1>6. UNCHANGED <<limit, broken>> /\ ended' = ended \cup {e} BY DEF EndRun
<1>7. MuxTypeOK' BY <1>2, <1>5, <1>6 DEF MuxInvariant, MuxTypeOK
<1>8. \A d \in TunnelEnds : HavePlaces(d, link[d])'
  <2>1. HavePlaces(e, link[e]) BY DEF MuxInvariant
  <2>2. HavePlaces(e, link'[e]) /\ HavePlaces(p, link'[p]) BY <1>2, <2>1 DEF HavePlaces
  <2>3. QED BY <1>1, <2>2 DEF HavePlaces
<1>9. \A d \in TunnelEnds, t \in Sids : InItsOrder(d, t, streams[d][t])'
  <2> TAKE d \in TunnelEnds, t \in Sids
  <2>1. InItsOrder(d, t, streams[d][t]) BY DEF MuxInvariant
  <2>2. Chunks[d][t] \in Nat BY TunnelAssumption
  <2>3. \A k \in 1 .. Len(Aborted.inbox) : FALSE BY <1>4
  <2>4. InItsOrder(d, t, Aborted) BY <1>4, <2>2, <2>3 DEF InItsOrder
  <2>5. InItsOrder(d, t, streams'[d][t]) BY <1>1, <1>3, <2>1, <2>4
  <2>6. QED BY <2>5 DEF InItsOrder
<1>10. \A t \in Sids : streams'[e][t].phase \in Early => streams'[e][t] = streams[e][t]
  BY <1>3, <1>4 DEF Early
<1>11. \A t \in Sids : ComesInOrder(p, t)' /\ ComesInOrder(e, t)'
  <2> TAKE t \in Sids
  <2>1. ComesInOrder(e, t)' BY <1>6 DEF ComesInOrder, Accepts
  <2>2. ComesInOrder(p, t) BY <1>1 DEF MuxInvariant
  <2>3. ComesInOrder(p, t)'
    BY <1>1, <1>2, <1>3, <1>6, <1>10, <2>2 DEF ComesInOrder, Accepts, Feeds, Phase
  <2>4. QED BY <2>1, <2>3
<1>12. \A t \in Sids : OpensFirst(t)'
  <2> TAKE t \in Sids
  <2>1. OpensFirst(t) BY DEF MuxInvariant
  <2>2. Opens(<<>>, t) = {} /\ Silent(<<>>, t) BY DEF Opens, Silent
  <2>3. streams'[e][t] = streams[e][t] \/ (streams'[e][t].phase = "aborted" /\ t \in Registered(e))
    BY <1>3, <1>4
  <2>4. CASE e = "host"
    <3>1. link'["guest"] = <<>> /\ link'["host"] = link["host"] /\ "host" \in ended'
      BY <1>2, <1>6, <2>4, TwoEnds
    <3>2. streams'["guest"][t] = streams["guest"][t] BY <1>3, <2>4, TwoEnds
    <3>3. streams'["host"][t].phase = "none" <=> streams["host"][t].phase = "none"
      BY <2>3, <2>4 DEF Registered, Phase
    <3>4. QED BY <2>1, <2>2, <3>1, <3>2, <3>3 DEF OpensFirst, Phase, OpensOnce
  <2>5. CASE e = "guest"
    <3>1. link'["host"] = <<>> /\ link'["guest"] = link["guest"] BY <1>2, <2>5, TwoEnds
    <3>2. streams'["host"][t] = streams["host"][t] /\ (("host" \in ended') <=> ("host" \in ended))
      BY <1>3, <1>6, <2>5, TwoEnds
    <3>3. streams'["guest"][t] = streams["guest"][t] \/ streams'["guest"][t].phase = "aborted"
      BY <2>3, <2>5
    <3>4. QED BY <2>1, <2>2, <3>1, <3>2, <3>3 DEF OpensFirst, Phase, MaySend
  <2>6. QED BY <2>4, <2>5 DEF TunnelEnds
<1>13. \A d \in TunnelEnds, t \in Sids : ComesInOrder(d, t)' BY <1>1, <1>11
<1>14. QED BY <1>7, <1>8, <1>9, <1>12, <1>13 DEF MuxInvariant

(* A bridge of which both directions are over is finished in order. *)
LEMMA SettledInOrder ==
  ASSUME NEW e \in TunnelEnds, NEW s \in Sids, NEW r \in MuxStreams, InItsOrder(e, s, r), r.phase = "bridged"
  PROVE  /\ Settled(r) \in MuxStreams /\ InItsOrder(e, s, Settled(r))
         /\ Settled(r) = r \/ Settled(r).phase = "clean"
<1>1. CASE ~r.up /\ ~r.down
  <2> DEFINE z == Settled(r)
  <2>1. <<>> \in Seq(Nat) /\ Window \in Int BY EmptySeq, TunnelAssumption
  <2>2. z = [r EXCEPT !.phase = "clean", !.window = Window, !.inbox = <<>>]
    BY <1>1 DEF Settled, Finished
  <2>3. /\ z \in MuxStreams /\ z.phase = "clean" /\ z.inbox = <<>> /\ z.writing = r.writing
        /\ z.sent = r.sent /\ z.written = r.written
    BY <2>1, <2>2 DEF MuxStreams, Phases
  <2>4. \A k \in 1 .. Len(z.inbox) : FALSE BY <2>3
  <2>5. r.sent = Chunks[e][s] /\ r.written = Chunks[Peer(e)][s] /\ r.writing = 0 /\ r.sent <= Chunks[e][s]
    BY <1>1 DEF InItsOrder
  <2>6. InItsOrder(e, s, z) BY <2>3, <2>4, <2>5 DEF InItsOrder
  <2>7. QED BY <2>3, <2>6
<1>2. CASE ~(~r.up /\ ~r.down)
  <2>1. Settled(r) = r BY <1>2 DEF Settled
  <2>2. QED BY <2>1
<1>3. QED BY <1>1, <1>2

(* A stream that is aborted, by either end or for want of room. *)
LEMMA AbortedInOrder ==
  ASSUME NEW e \in TunnelEnds, NEW s \in Sids, NEW r \in {Aborted, Closing}
  PROVE  r \in MuxStreams /\ InItsOrder(e, s, r) /\ r.phase \in {"aborted", "closing"}
<1>1. <<>> \in Seq(Nat) /\ Window \in Int /\ Chunks[e][s] \in Nat BY EmptySeq, TunnelAssumption
<1>2. CASE r = Aborted
  <2>1. /\ r.phase = "aborted" /\ r.sent = 0 /\ r.written = 0 /\ r.writing = 0 /\ r.inbox = <<>>
        /\ r \in MuxStreams
    BY <1>1, <1>2 DEF Aborted, Unused, MuxStreams, Phases
  <2>2. \A k \in 1 .. Len(r.inbox) : FALSE BY <2>1
  <2>3. QED BY <1>1, <2>1, <2>2 DEF InItsOrder
<1>3. CASE r = Closing
  <2>1. /\ r.phase = "closing" /\ r.sent = 0 /\ r.written = 0 /\ r.writing = 0 /\ r.inbox = <<>>
        /\ r \in MuxStreams
    BY <1>1, <1>3 DEF Closing, Unused, MuxStreams, Phases
  <2>2. \A k \in 1 .. Len(r.inbox) : FALSE BY <2>1
  <2>3. QED BY <1>1, <2>1, <2>2 DEF InItsOrder
<1>4. QED BY <1>2, <1>3

(* One end of a stream before a step. *)
LEMMA AtOneEnd ==
  ASSUME MuxInvariant, NEW e \in TunnelEnds, NEW s \in Sids
  PROVE  /\ streams[e][s] \in MuxStreams /\ InItsOrder(e, s, streams[e][s]) /\ OpensFirst(s)
         /\ Chunks[e][s] \in Nat /\ Chunks[Peer(e)][s] \in Nat
         /\ \A r : r = streams[e][s] =>
              /\ r.sent \in Nat /\ r.written \in Nat /\ r.writing \in Nat /\ r.inbox \in Seq(Nat)
              /\ r.window \in Int /\ r.up \in BOOLEAN /\ r.down \in BOOLEAN /\ r.phase \in Phases
              /\ Taken(r) \in Nat /\ InHand(r) \in Nat
<1>1. streams[e][s] \in MuxStreams /\ InItsOrder(e, s, streams[e][s]) /\ OpensFirst(s)
  BY DEF MuxInvariant, MuxTypeOK
<1>2. Chunks[e][s] \in Nat /\ Chunks[Peer(e)][s] \in Nat BY TwoEnds, TunnelAssumption
<1>3. QED BY <1>1, <1>2, TakenIsANumber DEF MuxStreams

(* The guest takes a local connection, or has no room for it. *)
LEMMA AcceptedStep == ASSUME MuxInvariant, Accepted PROVE MuxInvariant'
<1>1. PICK s \in Sids, way \in {"aborted", "opening"} :
        Phase("guest", s) = "none" /\ Stream("guest", s, [Unused EXCEPT !.phase = way])
  BY DEF Accepted
<1> DEFINE o == streams["guest"][s]
           r == [Unused EXCEPT !.phase = way]
<1>2. UNCHANGED <<limit, link, broken, ended>> BY DEF Accepted
<1>3. /\ InItsOrder("guest", s, o) /\ o \in MuxStreams /\ Chunks["guest"][s] \in Nat
  BY AtOneEnd, TwoEnds
<1>4. o.phase = "none" /\ o.up /\ o.sent = 0 /\ o.written = 0 /\ o.writing = 0 /\ o.inbox = <<>>
  BY <1>1, <1>3 DEF Phase, InItsOrder
<1>5. /\ r \in MuxStreams /\ r.phase = way /\ r.up /\ r.down /\ r.sent = 0 /\ r.written = 0 /\ r.writing = 0
      /\ r.inbox = <<>>
  <2>1. <<>> \in Seq(Nat) /\ Window \in Int BY EmptySeq, TunnelAssumption
  <2>2. QED BY <2>1 DEF Unused, MuxStreams, Phases
<1>6. Moved("guest", s, r) BY <1>1, <1>5, StreamMoves, TwoEnds DEF MuxInvariant
<1> HIDE DEF r, o
<1>7. InItsOrder("guest", s, r)
  <2>1. \A k \in 1 .. Len(r.inbox) : FALSE BY <1>5
  <2>2. r.phase \notin {"none", "bridged", "clean"} BY <1>5
  <2>3. QED BY <1>3, <1>5, <2>1, <2>2 DEF InItsOrder
<1>8. Taken(r) = Taken(o) BY <1>4, <1>5 DEF Taken, InHand
<1>9. KeepsFaith("guest", s, r) BY <1>4, <1>5, <1>7, <1>8 DEF KeepsFaith, Phase, Early, o
<1>10. Feeds("guest", s) /\ r.sent = streams["guest"][s].sent
  BY <1>4, <1>5 DEF Feeds, Phase, Early, o
<1>11. r.phase \notin MaySend BY <1>5 DEF MaySend
<1>12. QED BY <1>2, <1>6, <1>9, <1>10, <1>11, LocalStep, TwoEnds

(* The host dials for the stream. *)
LEMMA DialStep == ASSUME MuxInvariant, NEW s \in Sids, Dial(s) PROVE MuxInvariant'
<1> DEFINE o == streams["host"][s]
<1>1. PICK r \in {[o EXCEPT !.phase = "bridged"], Closing} : Stream("host", s, r) BY DEF Dial
<1>2. Phase("host", s) = "dialing" /\ UNCHANGED <<limit, link, broken, ended>> BY DEF Dial
<1>3. InItsOrder("host", s, o) /\ o \in MuxStreams BY AtOneEnd, TwoEnds
<1>4. CASE r = Closing
  <2>1. r \in MuxStreams /\ InItsOrder("host", s, r) /\ r.phase = "closing"
    BY <1>4, AbortedInOrder, TwoEnds DEF Closing
  <2>2. Moved("host", s, r) BY <1>1, <2>1, StreamMoves, TwoEnds DEF MuxInvariant
  <2>3. KeepsFaith("host", s, r) BY <1>2, <2>1 DEF KeepsFaith, Early
  <2>4. r.phase \notin Early BY <2>1 DEF Early
  <2>5. QED BY <1>2, <2>2, <2>3, <2>4, LocalStep, TwoEnds
<1>5. CASE r = [o EXCEPT !.phase = "bridged"]
  <2>1. /\ r \in MuxStreams /\ r.phase = "bridged" /\ r.up = o.up /\ r.down = o.down /\ r.sent = o.sent
        /\ r.written = o.written /\ r.inbox = o.inbox /\ r.writing = o.writing
    BY <1>3, <1>5 DEF MuxStreams, Phases
  <2>2. o.phase = "dialing" /\ o.up /\ o.down BY <1>2, <1>3 DEF Phase, InItsOrder
  <2>3. InHand(r) = InHand(o) BY <2>1 DEF InHand
  <2>4. InItsOrder("host", s, r) BY <1>3, <2>1, <2>2, <2>3 DEF InItsOrder
  <2>5. Moved("host", s, r) BY <1>1, <2>1, StreamMoves, TwoEnds DEF MuxInvariant
  <2>6. Taken(r) = Taken(o) BY <2>1, <2>3 DEF Taken
  <2>7. KeepsFaith("host", s, r) BY <1>2, <2>1, <2>4, <2>6 DEF KeepsFaith, Early
  <2>8. Feeds("host", s) BY <2>2 DEF Feeds, Phase, Early
  <2>9. QED BY <1>2, <2>1, <2>5, <2>7, <2>8, LocalStep, TwoEnds
<1>6. QED BY <1>1, <1>4, <1>5

(* The local socket fails. *)
LEMMA SocketFailsStep ==
  ASSUME MuxInvariant, NEW e \in TunnelEnds, NEW s \in Sids, SocketFails(e, s) PROVE MuxInvariant'
<1>1. Closing \in MuxStreams /\ InItsOrder(e, s, Closing) /\ Closing.phase = "closing"
  BY AbortedInOrder DEF Closing
<1>2. Phase(e, s) = "bridged" /\ UNCHANGED <<limit, link, broken, ended>> /\ Stream(e, s, Closing)
  BY DEF SocketFails, Bridged
<1>3. Moved(e, s, Closing) BY <1>1, <1>2, StreamMoves DEF MuxInvariant
<1>4. KeepsFaith(e, s, Closing) BY <1>1, <1>2 DEF KeepsFaith, Early
<1>5. Closing.phase \notin Early /\ Phase(e, s) \in MaySend BY <1>1, <1>2 DEF Early, MaySend
<1>6. QED BY <1>2, <1>3, <1>4, <1>5, LocalStep

(* The reader of the local socket's side takes what came first. *)
LEMMA TakeChunkStep ==
  ASSUME MuxInvariant, NEW e \in TunnelEnds, NEW s \in Sids, TakeChunk(e, s) PROVE MuxInvariant'
<1> DEFINE o == streams[e][s]
           x == [o EXCEPT !.down = FALSE]
           y == [o EXCEPT !.writing = Head(o.inbox), !.inbox = Tail(@)]
           r == IF Head(o.inbox) = 0 THEN Settled(x) ELSE y
<1>1. /\ o.phase = "bridged" /\ o.down /\ o.writing = 0 /\ o.inbox # <<>>
      /\ Stream(e, s, r) /\ UNCHANGED <<limit, link, broken, ended>>
  BY DEF TakeChunk, Bridged, Phase
<1>2. /\ o \in MuxStreams /\ InItsOrder(e, s, o) /\ o.inbox \in Seq(Nat) /\ o.written \in Nat
      /\ Chunks[Peer(e)][s] \in Nat
  BY AtOneEnd
<1>3. /\ Head(o.inbox) = o.inbox[1] /\ Head(o.inbox) \in Nat /\ Tail(o.inbox) \in Seq(Nat)
      /\ Len(o.inbox) \in Nat \ {0} /\ Len(Tail(o.inbox)) = Len(o.inbox) - 1
      /\ \A k \in 1 .. Len(Tail(o.inbox)) : Tail(o.inbox)[k] = o.inbox[k + 1]
  BY <1>1, <1>2, HeadTailProperties, EmptySeq, LenProperties
<1>4. InHand(o) = o.written BY <1>1, <1>2 DEF InHand
<1>5. \A k \in 1 .. Len(o.inbox) : IF o.inbox[k] = 0 THEN o.written + k = Chunks[Peer(e)][s] + 1
                                                     ELSE o.inbox[k] = o.written + k
  BY <1>2, <1>4 DEF InItsOrder
<1>6. 1 \in 1 .. Len(o.inbox) BY <1>3
<1> HIDE DEF o
<1>7. CASE Head(o.inbox) = 0
  <2>1. /\ x \in MuxStreams /\ x.phase = "bridged" /\ ~x.down /\ x.up = o.up /\ x.sent = o.sent
        /\ x.written = o.written /\ x.inbox = o.inbox /\ x.writing = o.writing
    BY <1>1, <1>2 DEF MuxStreams
  <2>2. o.written = Chunks[Peer(e)][s]
    <3>1. o.inbox[1] = 0 BY <1>3, <1>7
    <3>2. o.written + 1 = Chunks[Peer(e)][s] + 1 BY <1>5, <1>6, <3>1
    <3>3. QED BY <1>2, <3>2
  <2>3. InHand(x) = InHand(o) /\ Taken(x) = Taken(o) BY <2>1 DEF InHand, Taken
  <2> HIDE DEF x
  <2>4. InItsOrder(e, s, x) BY <1>1, <1>2, <2>1, <2>2, <2>3 DEF InItsOrder
  <2>5. r \in MuxStreams /\ InItsOrder(e, s, r) /\ (r = x \/ r.phase = "clean")
    BY <1>7, <2>1, <2>4, SettledInOrder
  <2> HIDE DEF r
  <2>6. Moved(e, s, r) BY <1>1, <2>5, StreamMoves DEF MuxInvariant
  <2>7. KeepsFaith(e, s, r) BY <1>1, <2>1, <2>3, <2>5 DEF KeepsFaith, Phase, Early, o
  <2>8. r.phase \in Early /\ r.up => Feeds(e, s) /\ r.sent = streams[e][s].sent
    BY <1>1, <2>1, <2>5 DEF Early, Feeds, Phase, o
  <2>9. Phase(e, s) \in MaySend BY <1>1 DEF MaySend, Phase, o
  <2>10. QED BY <1>1, <2>6, <2>7, <2>8, <2>9, LocalStep
<1>8. CASE Head(o.inbox) # 0
  <2>1. /\ y \in MuxStreams /\ y.phase = "bridged" /\ y.down = o.down /\ y.up = o.up /\ y.sent = o.sent
        /\ y.written = o.written /\ y.inbox = Tail(o.inbox) /\ y.writing = Head(o.inbox)
    BY <1>1, <1>2, <1>3 DEF MuxStreams
  <2>2. Head(o.inbox) = o.written + 1 BY <1>3, <1>5, <1>6, <1>8
  <2>3. InHand(y) = o.written + 1 BY <1>2, <2>1, <2>2 DEF InHand
  <2>4. Taken(y) = Taken(o)
    <3>1. Taken(o) = o.written + Len(o.inbox) BY <1>4 DEF Taken
    <3>2. Len(y.inbox) = Len(o.inbox) - 1 BY <1>3, <2>1
    <3>3. QED BY <1>2, <1>3, <2>3, <3>1, <3>2 DEF Taken
  <2>5. r = y BY <1>8
  <2> HIDE DEF y, r
  <2>6. ASSUME NEW k \in 1 .. Len(y.inbox)
        PROVE  IF y.inbox[k] = 0 THEN InHand(y) + k = Chunks[Peer(e)][s] + 1 ELSE y.inbox[k] = InHand(y) + k
    <3>1. k + 1 \in 1 .. Len(o.inbox) /\ y.inbox[k] = o.inbox[k + 1] BY <1>3, <2>1
    <3>2. IF o.inbox[k + 1] = 0 THEN o.written + (k + 1) = Chunks[Peer(e)][s] + 1
                                ELSE o.inbox[k + 1] = o.written + (k + 1)
      BY <1>5, <3>1
    <3>3. k \in Int /\ o.written + (k + 1) = InHand(y) + k BY <1>2, <2>3
    <3>4. QED BY <3>1, <3>2, <3>3
  <2>7. InItsOrder(e, s, y) BY <1>1, <1>2, <2>1, <2>2, <2>6 DEF InItsOrder
  <2>8. Moved(e, s, y) BY <1>1, <2>1, <2>5, StreamMoves DEF MuxInvariant
  <2>9. KeepsFaith(e, s, y) BY <1>1, <2>1, <2>4, <2>7 DEF KeepsFaith, Phase, Early, o
  <2>10. r.phase \in Early /\ r.up => Feeds(e, s) /\ r.sent = streams[e][s].sent
    BY <1>1, <2>1, <2>5 DEF Early, Feeds, Phase, o
  <2>11. Phase(e, s) \in MaySend BY <1>1 DEF MaySend, Phase, o
  <2>12. QED BY <1>1, <2>5, <2>8, <2>9, <2>10, <2>11, LocalStep
<1>9. QED BY <1>7, <1>8

(* The guest opens the stream it accepted. *)
LEMMA SendOpenStep == ASSUME MuxInvariant, NEW s \in Sids, SendOpen(s) PROVE MuxInvariant'
<1> DEFINE o == streams["guest"][s]
           r == [o EXCEPT !.phase = "bridged"]
           f == Frame("OPEN", s, 0)
           q == link["guest"]
<1>1. /\ o.phase = "opening" /\ Stream("guest", s, r) /\ UNCHANGED <<limit, broken, ended>>
      /\ link' = [link EXCEPT !["guest"] = Append(@, f)]
  BY DEF SendOpen, Send, Phase
<1>2. /\ InItsOrder("guest", s, o) /\ o \in MuxStreams /\ OpensFirst(s) BY AtOneEnd, TwoEnds
<1>3. /\ r \in MuxStreams /\ r.phase = "bridged" /\ r.up = o.up /\ r.down = o.down /\ r.sent = o.sent
      /\ r.written = o.written /\ r.inbox = o.inbox /\ r.writing = o.writing
  BY <1>2 DEF MuxStreams, Phases
<1>4. f \in Frames /\ f.sid = s /\ f.kind = "OPEN" /\ ~Carries(f, s)
  BY DEF Frame, Frames, FrameKinds, Carries
<1>5. q \in Seq(Frames) /\ link'["guest"] = Append(q, f) /\ link'["host"] = link["host"]
  BY <1>1, TwoEnds DEF MuxInvariant, MuxTypeOK
<1> HIDE DEF r, f, o, q
<1>6. o.up /\ o.down BY <1>1, <1>2 DEF InItsOrder
<1>7. InHand(r) = InHand(o) BY <1>3 DEF InHand
<1>8. InItsOrder("guest", s, r) BY <1>2, <1>3, <1>6, <1>7 DEF InItsOrder
<1>9. Moved("guest", s, r) BY <1>1, <1>3, StreamMoves, TwoEnds DEF MuxInvariant
<1>10. Taken(r) = Taken(o) BY <1>3, <1>7 DEF Taken
<1>11. KeepsFaith("guest", s, r) BY <1>1, <1>3, <1>8, <1>10 DEF KeepsFaith, Phase, Early, o
<1>12. Feeds("guest", s) /\ r.sent = streams["guest"][s].sent + 0
  <2>1. o.sent \in Nat BY <1>2 DEF MuxStreams
  <2>2. QED BY <1>1, <1>3, <1>6, <2>1 DEF Feeds, Phase, Early, o
<1>13. OpensFirst(s)'
  <2>1. Phase("host", s) = "none" /\ Silent(q, s) BY <1>1, <1>2 DEF OpensFirst, Phase, o, q
  <2>2. Opens(q, s) = {} /\ OpensAhead(q, s) BY <2>1 DEF Silent, Opens, OpensAhead
  <2>3. Opens(Append(q, f), s) = {Len(q) + 1} /\ OpensAhead(Append(q, f), s)
    <3>1. Opens(Append(q, f), s) = Opens(q, s) \cup {Len(q) + 1} BY <1>4, <1>5, OpensAfterSend
    <3>2. Opens(Append(q, f), s) = {Len(q) + 1} BY <2>2, <3>1
    <3>3. OpensAhead(Append(q, f), s) BY <1>4, <1>5, <2>2, <3>2, OpensAfterSend
    <3>4. QED BY <3>2, <3>3
  <2>4. OpensOnce(Append(q, f), s) BY <2>3 DEF OpensOnce
  <2>5. streams'["host"][s] = streams["host"][s] /\ streams'["guest"][s].phase = "bridged"
    BY <1>3, <1>9, TwoEnds DEF Moved
  <2>6. QED BY <1>1, <1>2, <1>5, <2>1, <2>3, <2>4, <2>5 DEF OpensFirst, Phase
<1>14. QED BY <1>1, <1>4, <1>9, <1>11, <1>12, <1>13, SendStep, TwoEnds

(* The writer of the pipe's side sends the next chunk ... *)
LEMMA SendChunkStep ==
  ASSUME MuxInvariant, NEW e \in TunnelEnds, NEW s \in Sids, SendChunk(e, s) PROVE MuxInvariant'
<1> DEFINE o == streams[e][s]
           r == [o EXCEPT !.sent = @ + 1, !.window = @ - 1]
           f == Frame("DATA", s, o.sent + 1)
<1>1. /\ o.phase = "bridged" /\ o.up /\ o.sent < Chunks[e][s] /\ Stream(e, s, r)
      /\ UNCHANGED <<limit, broken, ended>> /\ link' = [link EXCEPT ![e] = Append(@, f)]
  BY DEF SendChunk, Bridged, Send, Phase
<1>2. /\ o \in MuxStreams /\ InItsOrder(e, s, o) /\ o.sent \in Nat /\ o.window \in Int /\ Chunks[e][s] \in Nat
  BY AtOneEnd
<1>3. /\ r \in MuxStreams /\ r.phase = "bridged" /\ r.up = o.up /\ r.down = o.down /\ r.sent = o.sent + 1
      /\ r.written = o.written /\ r.inbox = o.inbox /\ r.writing = o.writing
  <2>1. PICK m, w : m = o.sent + 1 /\ w = o.window - 1 OBVIOUS
  <2>2. m \in Nat /\ w \in Int /\ r = [o EXCEPT !.sent = m, !.window = w] BY <1>2, <2>1
  <2> HIDE DEF r
  <2>3. QED BY <1>1, <1>2, <2>1, <2>2 DEF MuxStreams
<1>4. /\ f \in Frames /\ f.sid = s /\ f.kind = "DATA" /\ f.n = o.sent + 1 /\ f.n \in 1 .. Chunks[e][s]
      /\ Carries(f, s) /\ Place(e, f) = o.sent + 1
  BY <1>1, <1>2 DEF Frame, Frames, FrameKinds, Carries, Place
<1> HIDE DEF r, f, o
<1>5. InHand(r) = InHand(o) /\ Taken(r) = Taken(o) BY <1>3 DEF InHand, Taken
<1>6. InItsOrder(e, s, r) BY <1>1, <1>2, <1>3, <1>5 DEF InItsOrder
<1>7. Moved(e, s, r) BY <1>1, <1>3, StreamMoves DEF MuxInvariant
<1>8. KeepsFaith(e, s, r) BY <1>1, <1>3, <1>5, <1>6 DEF KeepsFaith, Phase, Early, o
<1>9. Feeds(e, s) /\ Phase(e, s) \in MaySend BY <1>1 DEF Feeds, Phase, Early, MaySend, o
<1>10. OpensFirst(s)' BY <1>1, <1>4, <1>7, <1>8, <1>9, SendingKeepsItOpen
<1>11. Place(e, f) = streams[e][s].sent + 1 /\ r.sent = streams[e][s].sent + 1
  BY <1>3, <1>4 DEF o
<1>12. QED BY <1>1, <1>4, <1>7, <1>8, <1>9, <1>10, <1>11, SendStep

(* ... or, after the last one, that no more come ... *)
LEMMA SendEofStep ==
  ASSUME MuxInvariant, NEW e \in TunnelEnds, NEW s \in Sids, SendEof(e, s) PROVE MuxInvariant'
<1> DEFINE o == streams[e][s]
           x == [o EXCEPT !.up = FALSE]
           r == Settled(x)
           f == Frame("EOF", s, 0)
<1>1. /\ o.phase = "bridged" /\ o.up /\ o.sent = Chunks[e][s] /\ Stream(e, s, r)
      /\ UNCHANGED <<limit, broken, ended>> /\ link' = [link EXCEPT ![e] = Append(@, f)]
  BY DEF SendEof, Bridged, Send, Phase
<1>2. /\ o \in MuxStreams /\ InItsOrder(e, s, o) /\ o.sent \in Nat BY AtOneEnd
<1>3. /\ x \in MuxStreams /\ x.phase = "bridged" /\ ~x.up /\ x.down = o.down /\ x.sent = o.sent
      /\ x.written = o.written /\ x.inbox = o.inbox /\ x.writing = o.writing
  BY <1>1, <1>2 DEF MuxStreams
<1>4. /\ f \in Frames /\ f.sid = s /\ f.kind = "EOF" /\ Carries(f, s) /\ Place(e, f) = Chunks[e][s] + 1
  BY DEF Frame, Frames, FrameKinds, Carries, Place
<1> HIDE DEF x, f, o
<1>5. InHand(x) = InHand(o) /\ Taken(x) = Taken(o) BY <1>3 DEF InHand, Taken
<1>6. InItsOrder(e, s, x) BY <1>1, <1>2, <1>3, <1>5 DEF InItsOrder
<1>7. r \in MuxStreams /\ InItsOrder(e, s, r) /\ (r = x \/ r.phase = "clean")
  BY <1>3, <1>6, SettledInOrder
<1> HIDE DEF r
<1>8. Moved(e, s, r) BY <1>1, <1>7, StreamMoves DEF MuxInvariant
<1>9. KeepsFaith(e, s, r) BY <1>1, <1>3, <1>5, <1>7 DEF KeepsFaith, Phase, Early, o
<1>10. Feeds(e, s) /\ Phase(e, s) \in MaySend BY <1>1 DEF Feeds, Phase, Early, MaySend, o
<1>11. OpensFirst(s)' BY <1>1, <1>4, <1>8, <1>9, <1>10, SendingKeepsItOpen
<1>12. Place(e, f) = streams[e][s].sent + 1 BY <1>1, <1>4 DEF o
<1>13. ~(r.phase \in Early /\ r.up) BY <1>3, <1>7 DEF Early
<1>14. QED BY <1>1, <1>4, <1>8, <1>9, <1>10, <1>11, <1>12, <1>13, SendStep

(* ... and the reader of the pipe's side gives back the window of a chunk   *)
(* that it has written.                                                     *)
LEMMA WriteChunkStep ==
  ASSUME MuxInvariant, NEW e \in TunnelEnds, NEW s \in Sids, WriteChunk(e, s) PROVE MuxInvariant'
<1> DEFINE o == streams[e][s]
           r == [o EXCEPT !.writing = 0, !.written = @ + 1]
           f == Frame("CREDIT", s, 1)
<1>1. /\ o.phase = "bridged" /\ o.writing > 0 /\ Stream(e, s, r)
      /\ UNCHANGED <<limit, broken, ended>> /\ link' = [link EXCEPT ![e] = Append(@, f)]
  BY DEF WriteChunk, Bridged, ReturnWindow, Send, Phase
<1>2. /\ o \in MuxStreams /\ InItsOrder(e, s, o) /\ o.written \in Nat /\ o.sent \in Nat
  BY AtOneEnd
<1>3. /\ r \in MuxStreams /\ r.phase = "bridged" /\ r.up = o.up /\ r.down = o.down /\ r.sent = o.sent
      /\ r.written = o.written + 1 /\ r.inbox = o.inbox /\ r.writing = 0
  <2>1. PICK m : m = o.written + 1 OBVIOUS
  <2>2. m \in Nat /\ r = [o EXCEPT !.writing = 0, !.written = m] BY <1>2, <2>1
  <2> HIDE DEF r
  <2>3. QED BY <1>1, <1>2, <2>1, <2>2 DEF MuxStreams
<1>4. f \in Frames /\ f.sid = s /\ f.kind = "CREDIT" /\ ~Carries(f, s)
  BY DEF Frame, Frames, FrameKinds, Carries
<1> HIDE DEF r, f, o
<1>5. InHand(r) = InHand(o) BY <1>1, <1>2, <1>3 DEF InHand
<1>6. Taken(r) = Taken(o) BY <1>3, <1>5 DEF Taken
<1>7. o.down BY <1>1, <1>2 DEF InItsOrder, MuxStreams
<1>8. InItsOrder(e, s, r) BY <1>1, <1>2, <1>3, <1>5, <1>7 DEF InItsOrder
<1>9. Moved(e, s, r) BY <1>1, <1>3, StreamMoves DEF MuxInvariant
<1>10. KeepsFaith(e, s, r) BY <1>1, <1>3, <1>6, <1>8 DEF KeepsFaith, Phase, Early, o
<1>11. Phase(e, s) \in MaySend /\ (r.up => Feeds(e, s))
  BY <1>1, <1>3 DEF Feeds, Phase, Early, MaySend, o
<1>12. OpensFirst(s)' BY <1>1, <1>4, <1>9, <1>10, <1>11, SendingKeepsItOpen
<1>13. r.sent = streams[e][s].sent + 0 BY <1>2, <1>3 DEF o
<1>14. QED BY <1>1, <1>4, <1>9, <1>10, <1>11, <1>12, <1>13, SendStep

(* An abort is told to the other end. *)
LEMMA SendCloseStep ==
  ASSUME MuxInvariant, NEW e \in TunnelEnds, NEW s \in Sids, SendClose(e, s) PROVE MuxInvariant'
<1> DEFINE f == Frame("CLOSE", s, 0)
<1>1. /\ Phase(e, s) \in {"closing", "refusing"} /\ Stream(e, s, Aborted)
      /\ UNCHANGED <<limit, broken, ended>> /\ link' = [link EXCEPT ![e] = Append(@, f)]
  BY DEF SendClose, Send
<1>2. Aborted \in MuxStreams /\ InItsOrder(e, s, Aborted) /\ Aborted.phase = "aborted"
  BY AbortedInOrder DEF Aborted
<1>3. f \in Frames /\ f.sid = s /\ f.kind = "CLOSE" /\ ~Carries(f, s)
  BY DEF Frame, Frames, FrameKinds, Carries
<1> HIDE DEF f
<1>4. Moved(e, s, Aborted) BY <1>1, <1>2, StreamMoves DEF MuxInvariant
<1>5. KeepsFaith(e, s, Aborted) BY <1>1, <1>2 DEF KeepsFaith, Early
<1>6. Phase(e, s) \in MaySend /\ Aborted.phase \notin Early BY <1>1, <1>2 DEF Early, MaySend
<1>7. OpensFirst(s)' BY <1>1, <1>3, <1>4, <1>5, <1>6, SendingKeepsItOpen
<1>8. QED BY <1>1, <1>3, <1>4, <1>5, <1>6, <1>7, SendStep

(* Nothing but the pipe changes. *)
LEMMA PipeBreaksStep == ASSUME MuxInvariant, PipeBreaks PROVE MuxInvariant'
<1>1. UNCHANGED <<limit, link, streams, ended>> /\ broken' = TRUE BY DEF PipeBreaks
<1>2. MuxTypeOK' BY <1>1 DEF MuxInvariant, MuxTypeOK
<1>3. \A e \in TunnelEnds : HavePlaces(e, link[e])' BY <1>1 DEF MuxInvariant, HavePlaces
<1>4. \A s \in Sids : OpensFirst(s)' BY <1>1 DEF MuxInvariant, OpensFirst, Phase
<1>5. \A e \in TunnelEnds, s \in Sids : InItsOrder(e, s, streams[e][s])'
  BY <1>1 DEF MuxInvariant, InItsOrder
<1>6. \A e \in TunnelEnds, s \in Sids : ComesInOrder(e, s)'
  BY <1>1 DEF MuxInvariant, ComesInOrder, Accepts, Feeds, Phase
<1>7. QED BY <1>2, <1>3, <1>4, <1>5, <1>6 DEF MuxInvariant

(* Before the first stream. *)
LEMMA MuxStart == MuxInit => MuxInvariant
<1> SUFFICES ASSUME MuxInit PROVE MuxInvariant OBVIOUS
<1>1. <<>> \in Seq(Nat) /\ <<>> \in Seq(Frames) /\ Window \in Int BY EmptySeq, TunnelAssumption
<1>2. /\ Unused \in MuxStreams /\ Unused.phase = "none" /\ Unused.up /\ Unused.down /\ Unused.inbox = <<>>
      /\ Unused.writing = 0 /\ Unused.sent = 0 /\ Unused.written = 0
  BY <1>1 DEF Unused, MuxStreams, Phases
<1>3. \A e \in TunnelEnds : link[e] = <<>> /\ \A s \in Sids : streams[e][s] = Unused
  BY DEF MuxInit
<1>4. MuxTypeOK
  <2>1. limit \in Limits /\ link \in [TunnelEnds -> Seq(Frames)] /\ broken \in BOOLEAN /\ ended \subseteq TunnelEnds
    BY <1>1 DEF MuxInit
  <2>2. streams \in [TunnelEnds -> [Sids -> MuxStreams]] BY <1>2 DEF MuxInit
  <2>3. QED BY <2>1, <2>2 DEF MuxTypeOK
<1>5. \A k \in 1 .. Len(<<>>) : FALSE OBVIOUS
<1>6. \A e \in TunnelEnds : HavePlaces(e, link[e]) BY <1>3, <1>5 DEF HavePlaces
<1>7. \A s \in Sids : Opens(<<>>, s) = {} /\ Silent(<<>>, s) /\ Carrying(<<>>, s) = {}
  BY <1>5 DEF Opens, Silent, Carrying
<1>8. \A s \in Sids : OpensFirst(s)
  <2> TAKE s \in Sids
  <2>1. link["host"] = <<>> /\ link["guest"] = <<>> /\ Phase("host", s) = "none" /\ Phase("guest", s) = "none"
    BY <1>2, <1>3, TwoEnds DEF Phase
  <2>2. OpensAhead(<<>>, s) /\ OpensOnce(<<>>, s) BY <1>5, <1>7 DEF OpensAhead, OpensOnce
  <2>3. QED BY <1>7, <2>1, <2>2 DEF OpensFirst, MaySend
<1>9. \A e \in TunnelEnds, s \in Sids : InItsOrder(e, s, streams[e][s]) /\ ComesInOrder(e, s)
  <2> TAKE e \in TunnelEnds, s \in Sids
  <2>1. Chunks[e][s] \in Nat BY TunnelAssumption
  <2>2. InItsOrder(e, s, Unused)
    <3>1. \A k \in 1 .. Len(Unused.inbox) : FALSE BY <1>2
    <3>2. QED BY <1>2, <2>1, <3>1 DEF InItsOrder
  <2>3. Taken(Unused) = 0 BY <1>2 DEF Taken, InHand
  <2>4. InSequence(Peer(e), <<>>, s, 0) BY <1>7 DEF InSequence
  <2>5. ReachesTo(Peer(e), <<>>, s, 0, 0) BY <1>7 DEF ReachesTo
  <2>6. Peer(e) \in TunnelEnds BY TwoEnds
  <2>7. QED BY <1>2, <1>3, <2>2, <2>3, <2>4, <2>5, <2>6 DEF ComesInOrder
<1>10. QED BY <1>4, <1>6, <1>8, <1>9 DEF MuxInvariant

(* Every step of the tunnel keeps the places of what is under way. *)
THEOREM MuxInvariantHolds == MuxSpec => []MuxInvariant
<1>1. ASSUME MuxInvariant, [MuxNext]_muxVars PROVE MuxInvariant'
  <2>1. CASE UNCHANGED muxVars
    <3>1. UNCHANGED <<limit, link, streams, ended>> /\ broken' = broken BY <2>1 DEF muxVars
    <3>2. MuxTypeOK' BY <1>1, <3>1 DEF MuxInvariant, MuxTypeOK
    <3>3. \A e \in TunnelEnds : HavePlaces(e, link[e])'
      BY <1>1, <3>1 DEF MuxInvariant, HavePlaces
    <3>4. \A s \in Sids : OpensFirst(s)' BY <1>1, <3>1 DEF MuxInvariant, OpensFirst, Phase
    <3>5. \A e \in TunnelEnds, s \in Sids : InItsOrder(e, s, streams[e][s])'
      BY <1>1, <3>1 DEF MuxInvariant, InItsOrder
    <3>6. \A e \in TunnelEnds, s \in Sids : ComesInOrder(e, s)'
      BY <1>1, <3>1 DEF MuxInvariant, ComesInOrder, Accepts, Feeds, Phase
    <3>7. QED BY <3>2, <3>3, <3>4, <3>5, <3>6 DEF MuxInvariant
  <2>2. CASE Accepted BY <1>1, <2>2, AcceptedStep
  <2>3. CASE Fails BY <1>1, <2>3, PipeBreaksStep, SocketFailsStep DEF Fails
  <2>4. CASE Reads BY <1>1, <2>4, DispatchStep, EndRunStep DEF Reads
  <2>5. ASSUME NEW s \in Sids, Moves(s) PROVE MuxInvariant'
    <3>1. CASE SendOpen(s) BY <1>1, <3>1, SendOpenStep
    <3>2. CASE Dial(s) BY <1>1, <3>2, DialStep
    <3>3. ASSUME NEW e \in TunnelEnds, Copies(e, s) PROVE MuxInvariant'
      BY <1>1, <3>3, SendChunkStep, SendEofStep, TakeChunkStep, WriteChunkStep,
         SendCloseStep DEF Copies
    <3>4. QED BY <2>5, <3>1, <3>2, <3>3 DEF Moves
  <2>6. QED BY <1>1, <2>1, <2>2, <2>3, <2>4, <2>5 DEF MuxNext
<1>2. QED BY MuxStart, <1>1, PTL DEF MuxSpec

(* What a local socket was given is, in its order and whole, what the other *)
(* one sent, and a stream that ended without an abort ended with all of it. *)
THEOREM DeliveryIsWholeHolds == MuxSpec => []DeliveryIsWhole
<1>1. MuxInvariant => DeliveryIsWhole
  <2> SUFFICES ASSUME MuxInvariant, NEW e \in TunnelEnds, NEW s \in Sids
               PROVE  LET r == streams[e][s]
                      IN  /\ r.writing > 0 => r.writing = r.written + 1
                          /\ Phase(e, s) = "clean" => r.written = Chunks[Peer(e)][s] /\ r.sent = Chunks[e][s]
    BY DEF DeliveryIsWhole
  <2>1. InItsOrder(e, s, streams[e][s]) BY DEF MuxInvariant
  <2>2. QED BY <2>1 DEF InItsOrder, Phase
<1>2. QED BY MuxInvariantHolds, <1>1, PTL

-----------------------------------------------------------------------------
(* Calls of a Driver (Desktop)                                             *)

DesktopSpec == DesktopInit /\ [][DesktopNext]_desktopVars

(* A caller that asks for nothing. *)
LEMMA QuietIsInOrder ==
  /\ Quiet \in Calls /\ NothingTwice(Quiet.done) /\ NothingLeftOut(Quiet)
  /\ InItsTurn(Quiet) /\ InItsTurn(Quiet)' /\ DOMAIN Quiet.done = {}
<1>1. /\ Quiet.at = "idle" /\ Quiet.batch = <<>> /\ Quiet.call = 1 /\ Quiet.done = <<>>
      /\ DOMAIN <<>> = {} /\ <<>> \in Seq(DoneActs)
  BY EmptySeq DEF Quiet
<1>2. Quiet \in Calls BY <1>1 DEF Quiet, Calls, Places
<1>3. QED BY <1>1, <1>2 DEF NothingTwice, NothingLeftOut, InItsTurn

(* Who did something, by its entries. *)
LEMMA DoneByEntries ==
  /\ \A c \in Callers : \A i \in DOMAIN requests[c].done : requests[c].done[i].by \in Done
  /\ \A d \in Done : \E c \in Callers : \E i \in DOMAIN requests[c].done : d = requests[c].done[i].by
BY DEF Done

(* One caller before a step. *)
LEMMA OneCaller ==
  ASSUME DesktopInvariant, NEW c \in Callers
  PROVE  LET r == requests[c]
         IN /\ r \in Calls /\ r.at \in Places /\ r.batch \in Batches \cup {<<>>, <<"read">>} /\ r.call \in Nat \ {0}
            /\ r.done \in Seq(DoneActs) /\ Len(r.done) \in Nat /\ DOMAIN r.done = 1 .. Len(r.done)
            /\ \A i \in DOMAIN r.done :
                 /\ r.done[i].call \in Nat /\ r.done[i].by \in DriverIds
                 /\ r.done[i].by \in Done /\ drivers[r.done[i].by] # "starting"
            /\ NothingTwice(r.done) /\ NothingLeftOut(r) /\ InItsTurn(r)
<1> DEFINE r == requests[c]
<1>1. r \in Calls BY DEF DesktopInvariant, CallsTypeOK
<1>2. /\ r.at \in Places /\ r.batch \in Batches \cup {<<>>, <<"read">>} /\ r.call \in Nat \ {0} /\ r.done \in Seq(DoneActs)
  BY <1>1 DEF Calls
<1>3. Len(r.done) \in Nat /\ DOMAIN r.done = 1 .. Len(r.done) BY <1>2, LenProperties
<1>4. \A i \in DOMAIN r.done : r.done[i] \in DoneActs BY <1>2, <1>3, ElementOfSeq
<1>5. \A i \in DOMAIN r.done : r.done[i].by \in Done BY DoneByEntries
<1>6. NothingTwice(r.done) /\ NothingLeftOut(r) /\ InItsTurn(r)
  BY DEF DesktopInvariant, ActionsAreDoneInOrder
<1>7. QED BY <1>1, <1>2, <1>3, <1>4, <1>5, <1>6 DEF DesktopInvariant, DoneActs

(* The Drivers go their way, and a caller is left alone or hung up on. *)
LEMMA DriversMove ==
  ASSUME DesktopInvariant, drivers' \in [DriverIds -> {"none", "starting", "serving"}],
         server' \in DriverIds \cup {0},
         \/ socket' = socket \/ socket' = 0
         \/ socket' \in DriverIds /\ drivers[socket'] = "starting",
         \A d \in DriverIds : drivers'[d] = "starting" => drivers[d] = "starting" \/ d \notin Done,
         requests' \in [Callers -> Calls],
         \A c \in Callers : requests'[c] \in {requests[c], Quiet}
  PROVE  DesktopInvariant'
<1>1. CallsTypeOK' BY DEF CallsTypeOK, DesktopInvariant
<1>2. \A c \in Callers : NothingTwice(requests'[c].done) /\ NothingLeftOut(requests'[c])
  BY OneCaller, QuietIsInOrder
<1>3. ActionsAreDoneInOrder' BY <1>2 DEF ActionsAreDoneInOrder, NothingTwice, NothingLeftOut
<1>4. ASSUME NEW c \in Callers PROVE InItsTurn(requests[c])'
  <2>1. CASE requests'[c] = Quiet
    <3>1. InItsTurn(Quiet)' BY QuietIsInOrder
    <3>2. QED BY <2>1, <3>1 DEF InItsTurn
  <2>2. CASE requests'[c] = requests[c]
    <3>1. \A i \in DOMAIN requests[c].done :
            /\ requests[c].done[i].by \in DriverIds
            /\ drivers[requests[c].done[i].by] # "starting"
      BY OneCaller
    <3>2. \A i \in DOMAIN requests[c].done : requests[c].done[i].by # socket => requests[c].done[i].by # socket'
      BY <3>1, DesktopAssumption
    <3>3. InItsTurn(requests[c]) BY OneCaller
    <3>4. QED BY <2>2, <3>2, <3>3 DEF InItsTurn
  <2>3. QED BY <2>1, <2>2
<1>5. ASSUME NEW d \in Done' PROVE drivers'[d] # "starting"
  <2>1. PICK c \in Callers : \E i \in DOMAIN requests'[c].done : d = requests'[c].done[i].by
    BY <1>5 DEF Done
  <2>2. requests'[c] = requests[c] BY <2>1, QuietIsInOrder
  <2>3. d \in Done /\ d \in DriverIds BY <2>1, <2>2, OneCaller
  <2>4. drivers[d] # "starting" BY <2>3 DEF DesktopInvariant
  <2>5. QED BY <2>3, <2>4
<1>6. QED BY <1>1, <1>3, <1>4, <1>5 DEF DesktopInvariant

(* A caller goes on, and the Drivers stay as they are. *)
LEMMA CallerMoves ==
  ASSUME DesktopInvariant, NEW c \in Callers, NEW r \in Calls,
         requests' = [requests EXCEPT ![c] = r], UNCHANGED driverVars,
         NothingTwice(r.done), NothingLeftOut(r), InItsTurn(r),
         \A i \in DOMAIN r.done : drivers[r.done[i].by] # "starting"
  PROVE  DesktopInvariant'
<1>0. UNCHANGED <<drivers, socket, server>> BY DEF driverVars
<1>1. requests' \in [Callers -> Calls] /\ \A d \in Callers : requests'[d] = IF d = c THEN r ELSE requests[d]
  BY DEF DesktopInvariant, CallsTypeOK
<1>2. CallsTypeOK' BY <1>0, <1>1 DEF DesktopInvariant, CallsTypeOK
<1>3. \A d \in Callers : NothingTwice(requests'[d].done) /\ NothingLeftOut(requests'[d]) /\ InItsTurn(requests'[d])
  BY <1>1, OneCaller
<1>4. ActionsAreDoneInOrder' BY <1>3 DEF ActionsAreDoneInOrder, NothingTwice, NothingLeftOut
<1>5. \A d \in Callers : InItsTurn(requests[d])' BY <1>0, <1>3 DEF InItsTurn
<1>6. ASSUME NEW d \in Done' PROVE drivers'[d] # "starting"
  <2>1. PICK b \in Callers : \E i \in DOMAIN requests'[b].done : d = requests'[b].done[i].by
    BY <1>6 DEF Done
  <2>2. CASE b = c BY <1>0, <1>1, <2>1, <2>2
  <2>3. CASE b # c
    <3>1. requests'[b] = requests[b] BY <1>1, <2>3
    <3>2. QED BY <1>0, <2>1, <3>1, OneCaller
  <2>4. QED BY <2>2, <2>3
<1>7. QED BY <1>2, <1>4, <1>5, <1>6 DEF DesktopInvariant

(* A caller gives up. *)
LEMMA CallerFails ==
  ASSUME DesktopInvariant, NEW c \in Callers, Fail(c), UNCHANGED driverVars
  PROVE  DesktopInvariant'
BY CallerMoves, QuietIsInOrder DEF Fail

(* A caller goes to another place, with what it has done. *)
LEMMA CallerGoes ==
  ASSUME DesktopInvariant, NEW c \in Callers, NEW place \in Places, Go(c, place), UNCHANGED driverVars,
         place \in {"unlink", "again"}, place = "again" => requests[c].at = "wait"
  PROVE  DesktopInvariant'
<1> DEFINE o == requests[c]
           r == [o EXCEPT !.at = place]
<1>1. requests' = [requests EXCEPT ![c] = r] BY DEF Go
<1>2. r \in Calls /\ r.at = place /\ r.batch = o.batch /\ r.call = o.call /\ r.done = o.done
  BY OneCaller DEF Calls
<1> HIDE DEF r
<1>3. NothingTwice(r.done) /\ \A i \in DOMAIN r.done : drivers[r.done[i].by] # "starting"
  BY <1>2, OneCaller
<1>4. NothingLeftOut(r) BY <1>2, OneCaller DEF NothingLeftOut
<1>5. InItsTurn(r) BY <1>2, OneCaller DEF InItsTurn
<1>6. QED BY <1>1, <1>2, <1>3, <1>4, <1>5, CallerMoves

(* What a Driver does for a call comes after all that was done, and it has  *)
(* not done it before.                                                      *)
LEMMA DidInOrder ==
  ASSUME DesktopInvariant, NEW c \in Callers, requests[c].at \in {"call", "again"}, Reachable
  PROVE  LET r == requests[c]
             D == Did(c)
         IN /\ D \in Seq(DoneActs) /\ NothingTwice(D)
            /\ \A i \in DOMAIN r.done : i \in DOMAIN D /\ D[i] = r.done[i]
            /\ \A i \in DOMAIN D : D[i].call <= r.call /\ drivers[D[i].by] # "starting"
            /\ r.batch[r.call] = "act" => \E i \in DOMAIN D : D[i].call = r.call
<1> DEFINE r == requests[c]
           D == Did(c)
           n == Len(r.done)
<1>1. /\ r.call \in Nat \ {0} /\ r.done \in Seq(DoneActs) /\ n \in Nat /\ DOMAIN r.done = 1 .. n
      /\ \A i \in DOMAIN r.done : /\ r.done[i].call \in Nat /\ r.done[i].by \in DriverIds
                                  /\ drivers[r.done[i].by] # "starting"
      /\ NothingTwice(r.done) /\ InItsTurn(r)
  BY OneCaller
<1>2. socket \in DriverIds /\ drivers[socket] = "serving"
  BY DEF Reachable, DesktopInvariant, CallsTypeOK
<1>3. \A i \in DOMAIN r.done : r.done[i].call < r.call \/ (r.done[i].call = r.call /\ r.done[i].by # socket)
  <2>1. \A i \in DOMAIN r.done : r.done[i].call <= r.call
    BY <1>1 DEF InItsTurn
  <2>2. CASE r.at = "call" BY <1>1, <2>2 DEF InItsTurn
  <2>3. CASE r.at = "again"
    <3>1. \A i \in DOMAIN r.done : r.done[i].call = r.call => r.done[i].by # socket
      BY <1>1, <2>3 DEF InItsTurn
    <3>2. QED BY <1>1, <2>1, <3>1
  <2>4. QED BY <2>2, <2>3
<1>4. CASE r.batch[r.call] = "read"
  <2>1. D = r.done BY <1>4 DEF Did
  <2>2. QED BY <1>1, <1>3, <1>4, <2>1
<1>5. CASE r.batch[r.call] # "read"
  <2> DEFINE a == [call |-> r.call, by |-> socket]
  <2>1. D = Append(r.done, a) /\ a \in DoneActs BY <1>1, <1>2, <1>5 DEF Did, DoneActs
  <2>2. a.call = r.call /\ a.by = socket OBVIOUS
  <2> HIDE DEF a
  <2>3. /\ D \in Seq(DoneActs) /\ DOMAIN D = 1 .. n + 1 /\ \A i \in 1 .. n : D[i] = r.done[i]
        /\ D[n + 1] = a
    BY <1>1, <2>1, AppendProperties
  <2> HIDE DEF D, n, r
  <2>4. \A i \in DOMAIN D : (i \in DOMAIN r.done /\ D[i] = r.done[i]) \/ (i = n + 1 /\ D[i] = a)
    BY <1>1, <2>3
  <2>5. ASSUME NEW i \in DOMAIN D, NEW j \in DOMAIN D, i < j
        PROVE  \/ D[i].call < D[j].call
               \/ D[i].call = D[j].call /\ D[i].by # D[j].by
    <3>1. i \in DOMAIN r.done /\ D[i] = r.done[i] BY <1>1, <2>3, <2>4, <2>5
    <3>2. CASE j \in DOMAIN r.done /\ D[j] = r.done[j]
      BY <1>1, <2>5, <3>1, <3>2 DEF NothingTwice
    <3>3. CASE D[j] = a
      <4>1. D[j].call = r.call /\ D[j].by = socket BY <2>2, <3>3
      <4>2. QED BY <1>3, <3>1, <4>1
    <3>4. QED BY <2>4, <3>2, <3>3
  <2>6. NothingTwice(D) BY <2>5 DEF NothingTwice
  <2>7. \A i \in DOMAIN D : D[i].call <= r.call /\ drivers[D[i].by] # "starting"
    BY <1>1, <1>2, <1>3, <2>2, <2>4
  <2>8. n + 1 \in DOMAIN D /\ D[n + 1].call = r.call BY <1>1, <2>2, <2>3
  <2>9. QED BY <1>1, <2>3, <2>6, <2>7, <2>8 DEF r, D
<1>6. QED BY <1>4, <1>5

(* A tool call: done or not, answered or not. *)
LEMMA InvokeStep ==
  ASSUME DesktopInvariant, NEW c \in Callers, Invoke(c)
  PROVE  DesktopInvariant'
<1> DEFINE o == requests[c]
           D == Did(c)
<1>1. o.at \in {"call", "again"} /\ UNCHANGED driverVars BY DEF Invoke
<1>2. /\ o \in Calls /\ o.call \in Nat \ {0} /\ o.done \in Seq(DoneActs) /\ NothingTwice(o.done)
      /\ NothingLeftOut(o) /\ InItsTurn(o)
      /\ \A i \in DOMAIN o.done : o.done[i].call \in Nat /\ drivers[o.done[i].by] # "starting"
  BY OneCaller
<1>3. Reachable =>
        /\ D \in Seq(DoneActs) /\ NothingTwice(D)
        /\ \A i \in DOMAIN o.done : i \in DOMAIN D /\ D[i] = o.done[i]
        /\ \A i \in DOMAIN D : D[i].call <= o.call /\ drivers[D[i].by] # "starting"
        /\ o.batch[o.call] = "act" => \E i \in DOMAIN D : D[i].call = o.call
  BY <1>1, DidInOrder
<1>4. CASE Fail(c) BY <1>1, <1>4, CallerFails
<1>5. CASE Reachable /\ Answered(c, D)
  <2> DEFINE r == [o EXCEPT !.at = "call", !.call = @ + 1, !.done = D]
  <2>1. CASE o.call = Len(o.batch)
    <3>1. Fail(c) BY <1>5, <2>1 DEF Answered, Fail
    <3>2. QED BY <1>1, <3>1, CallerFails
  <2>2. CASE o.call # Len(o.batch)
    <3>1. requests' = [requests EXCEPT ![c] = r] BY <1>5, <2>2 DEF Answered
    <3>2. PICK m : m = o.call + 1 OBVIOUS
    <3>3. m \in Nat \ {0} /\ r = [o EXCEPT !.at = "call", !.call = m, !.done = D] BY <1>2, <3>2
    <3> HIDE DEF D, r
    <3>4. r \in Calls /\ r.at = "call" /\ r.batch = o.batch /\ r.call = m /\ r.done = D
      BY <1>2, <1>3, <1>5, <3>3 DEF Calls, Places
    <3>5. NothingLeftOut(r)
      <4> SUFFICES ASSUME NEW k \in 1 .. m - 1, o.batch[k] = "act" PROVE \E i \in DOMAIN D : D[i].call = k
        BY <3>4 DEF NothingLeftOut
      <4>1. CASE k = o.call BY <1>3, <1>5, <4>1
      <4>2. CASE k # o.call
        <5>1. k \in 1 .. o.call - 1 BY <1>2, <3>2, <4>2
        <5>2. PICK i \in DOMAIN o.done : o.done[i].call = k BY <1>2, <5>1 DEF NothingLeftOut
        <5>3. QED BY <1>3, <1>5, <5>2
      <4>3. QED BY <4>1, <4>2
    <3>6. \A i \in DOMAIN D : D[i].call < m
      <4>1. D \in Seq(DoneActs) BY <1>3, <1>5
      <4>2. \A i \in DOMAIN D : D[i] \in DoneActs BY <4>1, ElementOfSeq, LenProperties
      <4>3. QED BY <1>2, <1>3, <1>5, <3>2, <4>2 DEF DoneActs
    <3>7. \A i \in DOMAIN D : D[i].call <= m
      <4>1. D \in Seq(DoneActs) BY <1>3, <1>5
      <4>2. \A i \in DOMAIN D : D[i] \in DoneActs BY <4>1, ElementOfSeq, LenProperties
      <4>3. QED BY <3>3, <3>6, <4>2 DEF DoneActs
    <3>8. InItsTurn(r) BY <3>4, <3>6, <3>7 DEF InItsTurn
    <3>9. NothingTwice(r.done) /\ \A i \in DOMAIN r.done : drivers[r.done[i].by] # "starting"
      BY <1>3, <1>5, <3>4
    <3>10. QED BY <1>1, <3>1, <3>4, <3>5, <3>8, <3>9, CallerMoves
  <2>3. QED BY <2>1, <2>2
<1>6. ASSUME NEW done, done = o.done \/ (Reachable /\ done = D), Unanswered(c, done)
      PROVE  DesktopInvariant'
  <2> DEFINE place == IF o.at = "call" THEN "start" ELSE "failing"
             r == [o EXCEPT !.at = place, !.done = done]
  <2>1. requests' = [requests EXCEPT ![c] = r] BY <1>6 DEF Unanswered
  <2>2. /\ done \in Seq(DoneActs) /\ NothingTwice(done)
        /\ \A i \in DOMAIN o.done : i \in DOMAIN done /\ done[i] = o.done[i]
        /\ \A i \in DOMAIN done : done[i].call <= o.call /\ drivers[done[i].by] # "starting"
    <3>1. CASE done = o.done BY <1>2, <3>1 DEF InItsTurn
    <3>2. CASE Reachable /\ done = D BY <1>3, <3>2
    <3>3. QED BY <1>6, <3>1, <3>2
  <2> HIDE DEF r
  <2>3. /\ r \in Calls /\ r.at \in {"start", "failing"} /\ r.batch = o.batch /\ r.call = o.call
        /\ r.done = done
    BY <1>2, <2>2 DEF Calls, Places, r
  <2>4. NothingLeftOut(r)
    <3> SUFFICES ASSUME NEW k \in 1 .. o.call - 1, o.batch[k] = "act" PROVE \E i \in DOMAIN done : done[i].call = k
      BY <2>3 DEF NothingLeftOut
    <3>1. PICK i \in DOMAIN o.done : o.done[i].call = k BY <1>2 DEF NothingLeftOut
    <3>2. QED BY <2>2, <3>1
  <2>5. InItsTurn(r) BY <2>2, <2>3 DEF InItsTurn
  <2>6. QED BY <1>1, <2>1, <2>2, <2>3, <2>4, <2>5, CallerMoves
<1>7. QED BY <1>4, <1>5, <1>6 DEF Invoke

(* A request begins with its first call. *)
LEMMA RequestStep ==
  ASSUME DesktopInvariant, NEW c \in Callers, Request(c)
  PROVE  DesktopInvariant'
<1> DEFINE o == requests[c]
<1>1. o.at = "idle" /\ UNCHANGED driverVars BY DEF Request, HostRequest, AgentRequest
<1>2. PICK batch \in {<<"read">>} \cup Batches : requests' = [requests EXCEPT ![c].at = "call", ![c].batch = batch]
  BY DEF Request, HostRequest, AgentRequest
<1>3. o \in Calls /\ o.call = 1 /\ o.done = <<>>
  BY <1>1, OneCaller DEF InItsTurn
<1> DEFINE r == [o EXCEPT !.at = "call", !.batch = batch]
<1>4. requests' = [requests EXCEPT ![c] = r] BY <1>2
<1> HIDE DEF r
<1>5. r \in Calls /\ r.at = "call" /\ r.call = 1 /\ r.done = <<>> BY <1>3 DEF Calls, Places, r
<1>6. DOMAIN r.done = {} BY <1>5
<1>7. NothingTwice(r.done) /\ NothingLeftOut(r) /\ InItsTurn(r)
  BY <1>5, <1>6 DEF NothingTwice, NothingLeftOut, InItsTurn
<1>8. QED BY <1>1, <1>4, <1>5, <1>6, <1>7, CallerMoves

(* guestd puts a Driver in the place of what had the path, or does not. *)
LEMMA StartStep ==
  ASSUME DesktopInvariant, NEW c \in Callers, Start(c)
  PROVE  DesktopInvariant'
<1> DEFINE o == requests[c]
<1>0. o \in Calls /\ socket' = 0 /\ CallsTypeOK BY OneCaller DEF Start, DesktopInvariant
<1>1. CASE Fail(c) /\ UNCHANGED <<drivers, server>>
  <2>1. requests' \in [Callers -> Calls] /\ \A d \in Callers : requests'[d] \in {requests[d], Quiet}
    BY <1>0, <1>1, QuietIsInOrder DEF Fail, CallsTypeOK
  <2>2. QED BY <1>0, <1>1, <2>1, DriversMove DEF CallsTypeOK
<1>2. CASE /\ Spare # {} /\ server' = Fresh
           /\ drivers' = [drivers EXCEPT ![server'] = "starting"] /\ Go(c, "wait")
  <2> DEFINE r == [o EXCEPT !.at = "wait"]
  <2>1. server' \in Spare BY <1>2 DEF Fresh
  <2>2. server' \in DriverIds /\ server' \notin Done BY <2>1 DEF Spare
  <2>3. requests' = [requests EXCEPT ![c] = r] BY <1>2 DEF Go
  <2> HIDE DEF r
  <2>4. r \in Calls /\ r.at = "wait" /\ r.batch = o.batch /\ r.call = o.call /\ r.done = o.done
    BY <1>0 DEF Calls, Places, r
  <2>5. /\ requests' \in [Callers -> Calls]
        /\ \A d \in Callers : requests'[d] = IF d = c THEN r ELSE requests[d]
    BY <1>0, <2>3, <2>4 DEF CallsTypeOK
  <2>6. CallsTypeOK' BY <1>0, <1>2, <2>2, <2>5 DEF CallsTypeOK
  <2>7. \A d \in Callers : requests'[d].done = requests[d].done BY <2>4, <2>5
  <2>8. NothingTwice(r.done) /\ NothingLeftOut(r) BY <2>4, OneCaller DEF NothingLeftOut
  <2>9. \A d \in Callers : NothingTwice(requests'[d].done) /\ NothingLeftOut(requests'[d])
    BY <2>5, <2>8, OneCaller
  <2>10. ActionsAreDoneInOrder' BY <2>9 DEF ActionsAreDoneInOrder, NothingTwice, NothingLeftOut
  <2>11. ASSUME NEW d \in Callers PROVE InItsTurn(requests[d])'
    <3>1. \A i \in DOMAIN requests[d].done : requests[d].done[i].by # socket'
      BY <1>0, OneCaller, DesktopAssumption
    <3>2. InItsTurn(requests[d]) BY OneCaller
    <3>3. /\ requests'[d].done = requests[d].done /\ requests'[d].call = requests[d].call
          /\ requests'[d].at = requests[d].at \/ requests'[d].at = "wait"
      BY <2>4, <2>5
    <3>4. QED BY <3>1, <3>2, <3>3 DEF InItsTurn
  <2>12. Done' = Done BY <2>7 DEF Done
  <2>13. \A d \in Done : d \in DriverIds /\ drivers[d] # "starting" BY DoneByEntries, OneCaller
  <2>14. \A d \in Done' : drivers'[d] # "starting"
    BY <1>0, <1>2, <2>2, <2>12, <2>13 DEF CallsTypeOK
  <2>15. QED BY <2>6, <2>10, <2>11, <2>14 DEF DesktopInvariant
<1>3. QED BY <1>1, <1>2 DEF Start

(* Every step of the guest keeps what was done in its order. *)
THEOREM DesktopInvariantHolds == DesktopSpec => []DesktopInvariant
<1>1. DesktopInit => DesktopInvariant
  <2> SUFFICES ASSUME DesktopInit PROVE DesktopInvariant OBVIOUS
  <2>1. CallsTypeOK BY QuietIsInOrder DEF DesktopInit, CallsTypeOK
  <2>2. \A c \in Callers : requests[c] = Quiet BY DEF DesktopInit
  <2>3. Done = {} BY <2>2, QuietIsInOrder DEF Done
  <2>4. QED BY <2>1, <2>2, <2>3, QuietIsInOrder DEF DesktopInvariant, ActionsAreDoneInOrder
<1>2. ASSUME DesktopInvariant, [DesktopNext]_desktopVars PROVE DesktopInvariant'
  <2>0. CallsTypeOK BY <1>2 DEF DesktopInvariant
  <2>l. ASSUME Launch, UNCHANGED requests PROVE DesktopInvariant'
    <3>1. server' \in Spare /\ drivers' = [drivers EXCEPT ![server'] = "starting"] /\ socket' = socket
      BY <2>l DEF Launch, Fresh
    <3>2. server' \in DriverIds /\ server' \notin Done BY <3>1 DEF Spare
    <3>3. QED BY <1>2, <2>0, <2>l, <3>1, <3>2, DriversMove DEF CallsTypeOK
  <2>h. /\ Hangup \in [Callers -> Calls] /\ \A c \in Callers : Hangup[c] \in {requests[c], Quiet}
    BY <2>0, QuietIsInOrder DEF Hangup, CallsTypeOK
  <2>u. UNCHANGED <<driverVars, requests>> => DesktopInvariant'
    BY <1>2, <2>0, DriversMove DEF CallsTypeOK, driverVars
  <2>g. ASSUME NEW next, LetGo(next) PROVE DesktopInvariant'
    <3>1. drivers' \in [DriverIds -> {"none", "starting", "serving"}]
          /\ \A d \in DriverIds : drivers'[d] = "starting" => drivers[d] = "starting"
      BY <2>0, <2>g DEF LetGo, CallsTypeOK
    <3>2. (socket' = socket \/ socket' = 0) /\ requests' = Hangup /\ server' = server
      BY <2>g DEF LetGo
    <3>3. requests' \in [Callers -> Calls] /\ \A c \in Callers : requests'[c] \in {requests[c], Quiet}
      BY <2>h, <3>2
    <3>4. server' \in DriverIds \cup {0} BY <2>0, <3>2 DEF CallsTypeOK
    <3>5. QED BY <1>2, <3>1, <3>2, <3>3, <3>4, DriversMove
  <2>1. CASE UNCHANGED desktopVars BY <2>u, <2>1 DEF desktopVars, driverVars
  <2>2. ASSUME NEW c \in Callers, Request(c) \/ Unsupported(c) \/ Steps(c) PROVE DesktopInvariant'
    <3>1. CASE Request(c) BY <1>2, <3>1, RequestStep
    <3>2. CASE Unsupported(c) \/ Raise(c) BY <1>2, <3>2, CallerFails DEF Unsupported, Raise
    <3>3. CASE Invoke(c) BY <1>2, <3>3, InvokeStep
    <3>4. CASE TryStart(c) BY <1>2, <3>4, CallerFails, CallerGoes DEF TryStart, Places
    <3>5. CASE Start(c) BY <1>2, <3>5, StartStep
    <3>6. CASE Wait(c) BY <1>2, <3>6, CallerFails, CallerGoes DEF Wait, Places
    <3>7. QED BY <2>2, <3>1, <3>2, <3>3, <3>4, <3>5, <3>6 DEF Steps
  <2>3. ASSUME NEW d \in DriverIds, Bind(d) PROVE DesktopInvariant'
    <3>1. /\ drivers' \in [DriverIds -> {"none", "starting", "serving"}]
          /\ \A b \in DriverIds : drivers'[b] = "starting" => drivers[b] = "starting"
      BY <2>0, <2>3 DEF Bind, CallsTypeOK
    <3>2. drivers[d] = "starting" /\ (socket' = socket \/ socket' = d) /\ UNCHANGED <<server, requests>>
      BY <2>3 DEF Bind
    <3>3. QED BY <1>2, <2>0, <3>1, <3>2, DriversMove DEF CallsTypeOK
  <2>4. ASSUME NEW d \in DriverIds, Dies(d) PROVE DesktopInvariant'
    <3>1. /\ drivers' \in [DriverIds -> {"none", "starting", "serving"}]
          /\ \A b \in DriverIds : drivers'[b] = "starting" => drivers[b] = "starting"
      BY <2>0, <2>4 DEF Dies, CallsTypeOK
    <3>2. (socket' = socket \/ socket' = 0) /\ UNCHANGED <<server, requests>>
      BY <2>4 DEF Dies
    <3>3. QED BY <1>2, <2>0, <3>1, <3>2, DriversMove DEF CallsTypeOK
  <2>5. CASE SignIn \/ GiveUp \/ ProbeDesktop
    BY <2>u, <2>5 DEF SignIn, GiveUp, ProbeDesktop, driverVars
  <2>6. CASE SignOut
    <3>1. /\ drivers' = [d \in DriverIds |-> "none"] /\ (socket' = socket \/ socket' = 0)
          /\ (requests' = requests \/ requests' = Hangup) /\ server' = server
      BY <2>6 DEF SignOut
    <3>2. /\ drivers' \in [DriverIds -> {"none", "starting", "serving"}]
          /\ \A d \in DriverIds : drivers'[d] # "starting"
      BY <3>1
    <3>3. requests' \in [Callers -> Calls] /\ \A c \in Callers : requests'[c] \in {requests[c], Quiet}
      BY <2>0, <2>h, <3>1 DEF CallsTypeOK
    <3>4. QED BY <1>2, <2>0, <3>1, <3>2, <3>3, DriversMove DEF CallsTypeOK
  <2>7. CASE KeepingUp
    <3>1. CASE TakeToken \/ StartGuestd \/ Watch \/ Reap
      BY <2>u, <3>1 DEF TakeToken, StartGuestd, Watch, Reap
    <3>2. CASE StartDriver BY <2>l, <3>2 DEF StartDriver
    <3>3. CASE StartFails BY <2>g, <3>3 DEF StartFails
    <3>4. QED BY <2>7, <3>1, <3>2, <3>3 DEF KeepingUp
  <2>8. CASE GuestdDies
    <3>1. requests' = Hangup /\ UNCHANGED <<drivers, socket, server>>
      BY <2>8 DEF GuestdDies, driverVars
    <3>2. QED BY <1>2, <2>0, <2>h, <3>1, DriversMove DEF CallsTypeOK
  <2>9. CASE Stop BY <2>g, <2>9 DEF Stop
  <2>10. CASE OpenDriver BY <2>l, <2>10 DEF OpenDriver
  <2>11. QED
    BY <1>2, <2>1, <2>2, <2>3, <2>4, <2>5, <2>6, <2>7, <2>8, <2>9, <2>10 DEF DesktopNext
<1>3. QED BY <1>1, <1>2, PTL DEF DesktopSpec

(* Whatever dies, is started again or signs out, the actions of a request   *)
(* are done in their order, and none by the same Driver twice.              *)
THEOREM ActionsAreDoneInOrderHolds == DesktopSpec => []ActionsAreDoneInOrder
<1>1. DesktopInvariant => ActionsAreDoneInOrder BY DEF DesktopInvariant
<1>2. QED BY <1>1, DesktopInvariantHolds, PTL

-----------------------------------------------------------------------------
(* The channel between Host and guest (GuestChannel)                      *)

ChannelSpec == ChannelInit /\ [][ChannelNext]_channelVars

OpKinds   == {"plain", "tree", "read", "exec", "timed_exec"}
BodyKinds == {"file", "block", "pad", "end", "abort"}
Tokens    == [id : CallIds, kind : OpKinds \cup BodyKinds \cup {"ack"}, seq : Nat]
Messages  == [id : CallIds, kind : {"ok", "err", "event"}, seq : Nat, whole : BOOLEAN, files : Nat]
CallStates == [id : CallIds \cup {0}, op : OpKinds \cup {"none"}, sent : Nat, bad : BOOLEAN,
               seen : Nat, sink : BOOLEAN, at : {"idle", "sending", "receiving"}]
Guests    == [at : {"serve", "tree", "output", "ended"}, id : CallIds \cup {0},
              op : OpKinds \cup {"none"}, need : 0 .. Size, failed : BOOLEAN,
              files : Nat, whole : BOOLEAN, seq : Nat, awaiting : BOOLEAN]
Settlements == [how : {"none", "ok", "failed", "sink_failed", "abandoned", "unreachable"},
                op : OpKinds \cup {"none"}, seen : Nat, reply : Seq(Messages)]

ChannelTypeOK ==
  /\ wire \in Seq(Tokens) /\ buffer \in Seq(Tokens) /\ replies \in Seq(Messages)
  /\ caller \in CallStates /\ guest \in Guests /\ lastAck \in CallIds \cup {0}
  /\ settled \in [CallIds -> Settlements]

(* What the Host has sent and the guest has not used, in this order. *)
Unread == buffer \o wire

(* The calls made so far are 1 .. m, and the last is the one that may be open. *)
CallsUpTo(m) ==
  /\ \A c \in CallIds : /\ settled[c].op # "none" <=> c <= m
                        /\ settled[c].how = "ok" => c <= m
  /\ caller.id \in {0, m} /\ (caller.id = 0 <=> caller = Idle)
  /\ \A i \in 1 .. Len(Unread) : Unread[i].id <= m
  /\ \A i \in 1 .. Len(replies) : replies[i].id <= m
  /\ guest.id <= m

CallsAreInOrder == \E m \in 0 .. MaxCall : CallsUpTo(m)

(* Tokens come in the order of their calls, each call's request first. *)
TokensAreInOrder == \A i, j \in 1 .. Len(Unread) : i < j =>
  IF Unread[j].kind \in OpKinds THEN Unread[i].id < Unread[j].id ELSE Unread[i].id <= Unread[j].id

(* An unread request is for the operation its call asked for. *)
RequestsAreCalls == \A i \in 1 .. Len(Unread) :
  Unread[i].kind \in OpKinds => settled[Unread[i].id].op = Unread[i].kind

AtWork == guest.at \in {"tree", "output"}

(* The request the guest works on is older than any it has not read. *)
GuestIsInOrder == AtWork =>
  /\ guest.id \in CallIds
  /\ guest.op = settled[guest.id].op /\ (guest.at = "tree" <=> guest.op = "tree")
  /\ (guest.at = "output" => guest.op \in Streams /\ guest.whole)
  /\ \A i \in 1 .. Len(Unread) :
       IF Unread[i].kind \in OpKinds THEN guest.id < Unread[i].id ELSE guest.id <= Unread[i].id

(* A request the guest has not read was not answered. *)
UnreadIsUnanswered == \A i \in 1 .. Len(Unread) : Unread[i].kind \in OpKinds =>
  /\ \A j \in 1 .. Len(replies) : replies[j].id < Unread[i].id
  /\ Unread[i].id = caller.id => caller.seen = 0

-----------------------------------------------------------------------------
(* The body of a tree whose file entries and blocks all arrived: a run of   *)
(* tokens, the j-th unread one being the (j + o)-th of the body, whose      *)
(* beginning the guest has used, unless it has lost the framing.            *)
Total == Files * (Size + 1)
InBody(c, p) ==
  /\ guest.at = "tree"
  /\ \/ guest.id < c
     \/ guest.id = c /\ guest.whole /\ guest.files * (Size + 1) - guest.need = p

(* The first k unread tokens belong to the body of call c, from place 1 + o. *)
Run(c, k, o) ==
  /\ \A j \in 1 .. k : /\ j + o >= 1 => Unread[j] = Token(c, BodyToken(j + o, FALSE))
                       /\ j + o = 0 => Unread[j] = Token(c, "tree")
  /\ o >= 0 => InBody(c, o)

(* What the call in progress has sent, and what an end has before it. *)
SentIsARun == caller.at = "sending" /\ ~caller.bad =>
  caller.sent <= Total /\ Run(caller.id, Len(Unread), caller.sent - Len(Unread))

EndsAreRuns == \A k \in 1 .. Len(Unread) :
  Unread[k].kind = "end" => Run(Unread[k].id, k, Total + 1 - k)

StreamIsFramed ==
  /\ TokensAreInOrder /\ RequestsAreCalls /\ GuestIsInOrder /\ UnreadIsUnanswered
  /\ SentIsARun /\ EndsAreRuns

-----------------------------------------------------------------------------
EventOf(c, n, i) == replies[i].id = c /\ replies[i].kind = "event" /\ replies[i].seq = n

(* The events of a call come one by one, and its reply after the last. *)
EventsAreInOrder == \A i \in 1 .. Len(replies) :
  LET r == replies[i]
  IN  /\ r.kind = "event" =>
           /\ \A j \in 1 .. Len(replies) : EventOf(r.id, r.seq, j) => i = j
           /\ r.id = caller.id => \/ r.seq = caller.seen + 1
                                  \/ r.seq > caller.seen + 1 /\ \E j \in 1 .. i - 1 : EventOf(r.id, r.seq - 1, j)
      /\ r.kind = "ok" =>
           /\ \A j \in 1 .. Len(replies) : replies[j].kind = "event" /\ replies[j].id = r.id => replies[j].seq <= r.seq
           /\ r.id = caller.id /\ settled[r.id].op \in Streams =>
                r.seq = caller.seen \/ \E j \in 1 .. i - 1 : EventOf(r.id, r.seq, j)

(* Nothing newer than the guest's own count was said for the request at work. *)
GuestIsAhead ==
  /\ AtWork => \A i \in 1 .. Len(replies) : replies[i].id = guest.id =>
       guest.at = "output" /\ replies[i].kind = "event" /\ replies[i].seq <= guest.seq
  /\ guest.at = "output" /\ guest.id = caller.id =>
       guest.seq = caller.seen \/ \E i \in 1 .. Len(replies) : EventOf(guest.id, guest.seq, i)

(* A reply on its way says "ok" only for a request that was read whole. *)
RepliesAreWhole == \A i \in 1 .. Len(replies) : replies[i].kind = "ok" =>
  replies[i].whole /\ (settled[replies[i].id].op = "tree" => replies[i].files = Files)

ChannelInvariant ==
  /\ ChannelTypeOK /\ CallsAreInOrder /\ (guest.at # "ended" => StreamIsFramed)
  /\ EventsAreInOrder /\ GuestIsAhead /\ RepliesAreWhole /\ AnswersAreTheirOwn

-----------------------------------------------------------------------------
(* The body of a tree, arithmetically.                                      *)
LEMMA WholeFiles ==
  ASSUME NEW T \in Nat \ {0}, NEW f \in Nat, NEW n \in Nat, n < T
  PROVE  (f * T + n) % T = n
<1> DEFINE x == f * T + n
           q == x \div T
           r == x % T
<1>1. x \in Nat /\ f * T \in Nat OBVIOUS
<1>2. q \in Int /\ r \in 0 .. T - 1 /\ x = T * q + r BY <1>1
<1>3. q = f
  <2>1. CASE q >= f + 1
    <3>1. T * q >= T * (f + 1) BY <1>2, <2>1
    <3>2. T * (f + 1) = f * T + T OBVIOUS
    <3>3. QED BY <1>1, <1>2, <3>1, <3>2
  <2>2. CASE q <= f - 1
    <3>1. T * q <= T * (f - 1) BY <1>2, <2>2
    <3>2. T * (f - 1) = f * T - T OBVIOUS
    <3>3. QED BY <1>1, <1>2, <3>1, <3>2
  <2>3. QED BY <1>2, <2>1, <2>2
<1>4. QED BY <1>1, <1>2, <1>3

(* What a body holds at its next place: the end after the last file, a file entry
   where no block is owed, and a block otherwise. *)
LEMMA BodyIsAt ==
  ASSUME NEW f \in Nat, NEW need \in 0 .. Size, NEW p \in Nat, p = f * (Size + 1) - need
  PROVE  /\ need = 0 => /\ BodyToken(p + 1, FALSE) = IF f = Files THEN "end" ELSE "file"
                        /\ p = Total <=> f = Files
         /\ need > 0 => BodyToken(p + 1, FALSE) = "block"
<1> DEFINE T == Size + 1
<1>1. Size \in Nat /\ Files \in Nat /\ T \in Nat \ {0} /\ Size < T /\ need \in Nat
  BY ChannelAssumption
<1>2. p = f * T - need /\ Total = Files * T BY DEF Total
<1>3. Total \in Nat /\ Total % T = 0
  <2>1. (Files * T + 0) % T = 0 BY <1>1, WholeFiles
  <2>2. Total \in Nat /\ Files * T + 0 = Total BY <1>1, <1>2
  <2>3. QED BY <2>1, <2>2
<1>4. BodyToken(p + 1, FALSE) = IF p + 1 = Total + 1 THEN "end"
                                ELSE IF (p + 1 - 1) % T = 0 THEN "file" ELSE "block"
  BY DEF BodyToken, Total
<1> HIDE DEF T
<1>5. BodyToken(p + 1, FALSE) = IF p = Total THEN "end" ELSE IF p % T = 0 THEN "file" ELSE "block"
  <2>1. p + 1 - 1 = p OBVIOUS
  <2>2. (p + 1 - 1) % T = p % T BY <2>1, Zenon
  <2>3. p + 1 = Total + 1 <=> p = Total BY <1>3
  <2> DEFINE m == p % T
  <2>4. BodyToken(p + 1, FALSE) = IF p + 1 = Total + 1 THEN "end" ELSE IF m = 0 THEN "file" ELSE "block"
    BY <1>4, <2>2
  <2> HIDE DEF m
  <2>5. BodyToken(p + 1, FALSE) = IF p = Total THEN "end" ELSE IF m = 0 THEN "file" ELSE "block"
    BY <2>3, <2>4
  <2>6. QED BY <2>5 DEF m
<1>6. CASE need = 0
  <2>1. (f * T + 0) % T = 0 /\ f * T + 0 = p
    <3>1. 0 \in Nat /\ 0 < T BY <1>1
    <3>2. (f * T + 0) % T = 0 BY <1>1, <3>1, WholeFiles
    <3>3. f * T \in Nat BY <1>1
    <3>4. QED BY <1>2, <1>6, <3>2, <3>3
  <2>2. p = Total <=> f = Files
    <3>1. CASE f < Files
      <4>1. f * T + T <= Files * T
        <5>1. (f + 1) * T <= Files * T BY <1>1, <3>1
        <5>2. (f + 1) * T = f * T + T BY <1>1
        <5>3. QED BY <5>1, <5>2
      <4>2. QED BY <1>1, <1>2, <1>3, <1>6, <3>1, <4>1
    <3>2. CASE f > Files
      <4>1. Files * T + T <= f * T
        <5>1. (Files + 1) * T <= f * T BY <1>1, <3>2
        <5>2. (Files + 1) * T = Files * T + T BY <1>1
        <5>3. QED BY <5>1, <5>2
      <4>2. QED BY <1>1, <1>2, <1>3, <1>6, <3>2, <4>1
    <3>3. CASE f = Files BY <1>2, <1>6, <3>3, <2>1, <1>3
    <3>4. QED BY <1>1, <3>1, <3>2, <3>3
  <2>3. p % T = 0 BY <2>1
  <2>5. BodyToken(p + 1, FALSE) = IF f = Files THEN "end" ELSE "file"
    <3>1. CASE f = Files BY <1>5, <2>2, <3>1
    <3>2. CASE f # Files BY <1>5, <2>2, <2>3, <3>2
    <3>3. QED BY <3>1, <3>2
  <2>6. ~(need > 0) BY <1>6
  <2>7. QED BY <2>2, <2>5, <2>6, Zenon
<1>7. CASE need > 0
  <2>1. f # 0
    <3>1. f = 0 => f * T = 0 BY <1>1
    <3>2. QED BY <1>1, <1>2, <1>7, <3>1
  <2>2. PICK g \in Nat : g = f - 1 BY <2>1
  <2>3. g * T + (T - need) = p
    <3>1. f * T = g * T + T
      <4>1. f = g + 1 BY <2>2
      <4>2. (g + 1) * T = g * T + T BY <1>1
      <4>3. QED BY <4>1, <4>2
    <3>2. g * T \in Nat BY <1>1
    <3>3. QED BY <1>1, <1>2, <3>1, <3>2
  <2>4. T - need \in Nat /\ T - need < T /\ T - need # 0 BY <1>1, <1>7 DEF T
  <2>5. p % T = T - need BY <1>1, <2>3, <2>4, WholeFiles
  <2>6. p # Total BY <1>3, <2>4, <2>5
  <2>7. p % T # 0 BY <2>4, <2>5
  <2>8. BodyToken(p + 1, FALSE) = "block" BY <1>5, <2>6, <2>7
  <2>9. need # 0 BY <1>7
  <2>10. QED BY <2>8, <2>9, Zenon
<1>8. QED BY <1>1, <1>6, <1>7

-----------------------------------------------------------------------------
(* What is unread, as sequences.                                            *)
Removed(a) ==
  /\ a \in 1 .. Len(Unread) /\ Len(Unread') = Len(Unread) - 1
  /\ \A i \in 1 .. Len(Unread) - 1 : Unread'[i] = IF i < a THEN Unread[i] ELSE Unread[i + 1]

Added(t) ==
  /\ Len(Unread') = Len(Unread) + 1 /\ Unread'[Len(Unread) + 1] = t
  /\ \A i \in 1 .. Len(Unread) : Unread'[i] = Unread[i]

(* Where a token of two sequences one after the other is. *)
LEMMA UnreadIsAt ==
  ASSUME NEW b \in Seq(Tokens), NEW w \in Seq(Tokens)
  PROVE  /\ b \o w \in Seq(Tokens) /\ Len(b \o w) = Len(b) + Len(w) /\ Len(b) \in Nat /\ Len(w) \in Nat
         /\ \A i \in 1 .. Len(b) + Len(w) : (b \o w)[i] = IF i <= Len(b) THEN b[i] ELSE w[i - Len(b)]
BY ConcatProperties

(* A token the Host writes comes after all the guest has not read. *)
LEMMA TokenAdded ==
  ASSUME ChannelTypeOK, NEW t \in Tokens, wire' = Append(wire, t), buffer' = buffer
  PROVE  wire' \in Seq(Tokens) /\ Added(t)
<1>1. wire \in Seq(Tokens) /\ buffer \in Seq(Tokens) BY DEF ChannelTypeOK
<1>2. /\ wire' \in Seq(Tokens) /\ Len(wire') = Len(wire) + 1 /\ wire'[Len(wire) + 1] = t
      /\ \A i \in 1 .. Len(wire) : wire'[i] = wire[i]
  BY <1>1, AppendProperties
<1>3. /\ Len(Unread) = Len(buffer) + Len(wire) /\ Len(buffer) \in Nat /\ Len(wire) \in Nat
      /\ \A i \in 1 .. Len(buffer) + Len(wire) : Unread[i] = IF i <= Len(buffer) THEN buffer[i] ELSE wire[i - Len(buffer)]
  BY <1>1, UnreadIsAt DEF Unread
<1>4. /\ Len(Unread') = Len(buffer) + Len(wire')
      /\ \A i \in 1 .. Len(buffer) + Len(wire') : Unread'[i] = IF i <= Len(buffer) THEN buffer[i] ELSE wire'[i - Len(buffer)]
  BY <1>1, <1>2, UnreadIsAt DEF Unread
<1>5. Unread'[Len(Unread) + 1] = t
  <2>1. Len(Unread) + 1 \in 1 .. Len(buffer) + Len(wire') /\ ~(Len(Unread) + 1 <= Len(buffer))
        /\ Len(Unread) + 1 - Len(buffer) = Len(wire) + 1
    BY <1>2, <1>3
  <2>2. QED BY <1>2, <1>4, <2>1
<1>6. ASSUME NEW i \in 1 .. Len(Unread) PROVE Unread'[i] = Unread[i]
  <2>1. i \in 1 .. Len(buffer) + Len(wire) /\ i \in 1 .. Len(buffer) + Len(wire') BY <1>2, <1>3
  <2>2. CASE i <= Len(buffer) BY <1>3, <1>4, <2>1, <2>2
  <2>3. CASE ~(i <= Len(buffer))
    <3>1. i - Len(buffer) \in 1 .. Len(wire) BY <1>3, <2>1, <2>3
    <3>2. QED BY <1>2, <1>3, <1>4, <2>1, <2>3, <3>1
  <2>4. QED BY <2>2, <2>3
<1>7. QED BY <1>2, <1>3, <1>4, <1>5, <1>6 DEF Added

(* The guest uses the first token it has not read. *)
LEMMA TokenUsed ==
  ASSUME ChannelTypeOK, buffer # <<>>, buffer' = Tail(buffer), wire' = wire
  PROVE  buffer' \in Seq(Tokens) /\ Removed(1) /\ Unread[1] = Head(buffer)
<1>1. wire \in Seq(Tokens) /\ buffer \in Seq(Tokens) BY DEF ChannelTypeOK
<1>2. /\ buffer' \in Seq(Tokens) /\ Len(buffer') = Len(buffer) - 1 /\ Len(buffer) > 0
      /\ Head(buffer) = buffer[1]
      /\ \A i \in 1 .. Len(buffer) - 1 : buffer'[i] = buffer[i + 1]
  BY <1>1, EmptySeq, HeadTailProperties
<1>3. /\ Len(Unread) = Len(buffer) + Len(wire) /\ Len(buffer) \in Nat /\ Len(wire) \in Nat
      /\ \A i \in 1 .. Len(buffer) + Len(wire) : Unread[i] = IF i <= Len(buffer) THEN buffer[i] ELSE wire[i - Len(buffer)]
  BY <1>1, UnreadIsAt DEF Unread
<1>4. /\ Len(Unread') = Len(buffer') + Len(wire)
      /\ \A i \in 1 .. Len(buffer') + Len(wire) : Unread'[i] = IF i <= Len(buffer') THEN buffer'[i] ELSE wire[i - Len(buffer')]
  BY <1>1, <1>2, UnreadIsAt DEF Unread
<1>5. ASSUME NEW i \in 1 .. Len(Unread) - 1 PROVE Unread'[i] = Unread[i + 1]
  <2>1. i \in 1 .. Len(buffer') + Len(wire) /\ i + 1 \in 1 .. Len(buffer) + Len(wire)
    BY <1>2, <1>3
  <2>2. CASE i <= Len(buffer')
    <3>1. i \in 1 .. Len(buffer) - 1 /\ i + 1 <= Len(buffer) BY <1>2, <1>3, <2>2
    <3>2. QED BY <1>2, <1>3, <1>4, <2>1, <2>2, <3>1
  <2>3. CASE ~(i <= Len(buffer'))
    <3>1. ~(i + 1 <= Len(buffer)) /\ i + 1 - Len(buffer) = i - Len(buffer') BY <1>2, <1>3, <2>3
    <3>2. QED BY <1>3, <1>4, <2>1, <2>3, <3>1
  <2>4. QED BY <2>2, <2>3
<1>6. Unread[1] = buffer[1] /\ 1 \in 1 .. Len(Unread) BY <1>2, <1>3
<1>7. Len(Unread') = Len(Unread) - 1 BY <1>2, <1>3, <1>4
<1>8. QED BY <1>2, <1>5, <1>6, <1>7 DEF Removed

(* _stream_acknowledged_process reads the socket itself: it takes the token behind
   what the line reader has buffered. *)
LEMMA AckOvertakes ==
  ASSUME ChannelTypeOK, wire # <<>>, wire' = Tail(wire), buffer' = buffer
  PROVE  /\ wire' \in Seq(Tokens) /\ Removed(Len(buffer) + 1)
         /\ Unread[Len(buffer) + 1] = Head(wire)
<1>1. wire \in Seq(Tokens) /\ buffer \in Seq(Tokens) BY DEF ChannelTypeOK
<1>2. /\ wire' \in Seq(Tokens) /\ Len(wire') = Len(wire) - 1 /\ Len(wire) > 0
      /\ Head(wire) = wire[1]
      /\ \A i \in 1 .. Len(wire) - 1 : wire'[i] = wire[i + 1]
  BY <1>1, EmptySeq, HeadTailProperties
<1>3. /\ Len(Unread) = Len(buffer) + Len(wire) /\ Len(buffer) \in Nat /\ Len(wire) \in Nat
      /\ \A i \in 1 .. Len(buffer) + Len(wire) : Unread[i] = IF i <= Len(buffer) THEN buffer[i] ELSE wire[i - Len(buffer)]
  BY <1>1, UnreadIsAt DEF Unread
<1>4. /\ Len(Unread') = Len(buffer) + Len(wire')
      /\ \A i \in 1 .. Len(buffer) + Len(wire') : Unread'[i] = IF i <= Len(buffer) THEN buffer[i] ELSE wire'[i - Len(buffer)]
  BY <1>1, <1>2, UnreadIsAt DEF Unread
<1>5. ASSUME NEW i \in 1 .. Len(Unread) - 1
      PROVE  Unread'[i] = IF i < Len(buffer) + 1 THEN Unread[i] ELSE Unread[i + 1]
  <2>1. /\ i \in 1 .. Len(buffer) + Len(wire') /\ i + 1 \in 1 .. Len(buffer) + Len(wire)
        /\ i \in 1 .. Len(buffer) + Len(wire)
    BY <1>2, <1>3
  <2>2. CASE i <= Len(buffer)
    <3>1. i < Len(buffer) + 1 BY <1>3, <2>2
    <3>2. QED BY <1>3, <1>4, <2>1, <2>2, <3>1
  <2>3. CASE ~(i <= Len(buffer))
    <3>1. /\ ~(i + 1 <= Len(buffer)) /\ i + 1 - Len(buffer) = i - Len(buffer) + 1
          /\ i - Len(buffer) \in 1 .. Len(wire) - 1 /\ ~(i < Len(buffer) + 1)
      BY <1>2, <1>3, <2>1, <2>3
    <3>2. wire'[i - Len(buffer)] = wire[i - Len(buffer) + 1] BY <1>2, <3>1
    <3>3. QED BY <1>3, <1>4, <2>1, <2>3, <3>1, <3>2
  <2>4. QED BY <2>2, <2>3
<1>6. /\ Len(buffer) + 1 \in 1 .. Len(Unread)
      /\ Unread[Len(buffer) + 1] = wire[1]
  BY <1>2, <1>3
<1>7. Len(Unread') = Len(Unread) - 1 BY <1>2, <1>3, <1>4
<1>8. QED BY <1>2, <1>5, <1>6, <1>7 DEF Removed

(* What arrives is put into the buffer, and stays as unread as it was. *)
LEMMA FillMovesTokens ==
  ASSUME ChannelTypeOK, Fill
  PROVE  wire' \in Seq(Tokens) /\ buffer' \in Seq(Tokens) /\ Unread' = Unread
<1>1. wire \in Seq(Tokens) /\ Len(wire) \in Nat /\ buffer = <<>> BY DEF ChannelTypeOK, Fill
<1>2. PICK n \in 1 .. Len(wire) : buffer' = SubSeq(wire, 1, n) /\ wire' = SubSeq(wire, n + 1, Len(wire))
  BY DEF Fill
<1>3. \A i \in 1 .. Len(wire) : wire[i] \in Tokens BY <1>1, ElementOfSeq
<1>4. /\ buffer' \in Seq(Tokens) /\ Len(buffer') = n
      /\ \A i \in 1 .. n : buffer'[i] = wire[i]
  BY <1>1, <1>2, <1>3, SubSeqProperties
<1>5. /\ wire' \in Seq(Tokens) /\ Len(wire') = Len(wire) - n
      /\ \A i \in 1 .. Len(wire) - n : wire'[i] = wire[n + i]
  BY <1>1, <1>2, <1>3, SubSeqProperties
<1>6. Unread = wire BY <1>1, ConcatEmptySeq DEF Unread
<1>7. /\ Unread' \in Seq(Tokens) /\ Len(Unread') = Len(wire)
      /\ \A i \in 1 .. Len(wire) : Unread'[i] = IF i <= n THEN buffer'[i] ELSE wire'[i - n]
  <2>1. Unread' = buffer' \o wire' BY DEF Unread
  <2>2. /\ buffer' \o wire' \in Seq(Tokens)
        /\ Len(buffer' \o wire') = Len(buffer') + Len(wire')
        /\ \A i \in 1 .. Len(buffer') + Len(wire') :
             (buffer' \o wire')[i] = IF i <= Len(buffer') THEN buffer'[i] ELSE wire'[i - Len(buffer')]
    BY <1>4, <1>5, UnreadIsAt
  <2>3. Len(buffer') = n /\ Len(buffer') + Len(wire') = Len(wire) BY <1>1, <1>4, <1>5
  <2>4. QED BY <2>1, <2>2, <2>3
<1>8. ASSUME NEW i \in 1 .. Len(wire) PROVE Unread'[i] = wire[i]
  <2>1. CASE i <= n BY <1>4, <1>7, <2>1
  <2>2. CASE ~(i <= n)
    <3>1. i - n \in 1 .. Len(wire) - n /\ n + (i - n) = i BY <1>1, <2>2
    <3>2. wire'[i - n] = wire[n + (i - n)] BY <1>5, <3>1
    <3>3. QED BY <1>7, <2>2, <3>1, <3>2
  <2>3. QED BY <2>1, <2>2
<1>9. Unread' = wire BY <1>1, <1>7, <1>8, SeqEqual
<1>10. QED BY <1>4, <1>5, <1>6, <1>9

-----------------------------------------------------------------------------
(* How the order and the framing of the stream survive a step.              *)
LEMMA BodyIsBody ==
  ASSUME NEW p \in Nat, NEW bad \in BOOLEAN
  PROVE  /\ BodyToken(p, bad) \in BodyKinds
         /\ bad => BodyToken(p, bad) \in {"abort", "pad"}
         /\ ~bad => (BodyToken(p, bad) = "end" <=> p = Total + 1) /\ BodyToken(p, bad) \notin {"abort", "pad"}
<1>1. CASE bad
  <2>1. BodyToken(p, bad) \in {"abort", "pad"} BY <1>1 DEF BodyToken
  <2>2. QED BY <1>1, <2>1 DEF BodyKinds
<1>2. CASE ~bad
  <2>1. CASE p = Total + 1 BY <1>2, <2>1 DEF BodyToken, BodyKinds, Total
  <2>2. CASE p # Total + 1
    <3>1. BodyToken(p, bad) \in {"file", "block"} BY <1>2, <2>2 DEF BodyToken, Total
    <3>2. QED BY <1>2, <2>2, <3>1 DEF BodyKinds
  <2>3. QED BY <2>1, <2>2
<1>3. QED BY <1>1, <1>2

(* A run of body tokens stays one when a token is added behind it. *)
LEMMA RunGrows ==
  ASSUME NEW t, Added(t), guest' = guest, NEW c, NEW k \in Int, k <= Len(Unread), NEW o \in Int,
         Run(c, k, o)
  PROVE  Run(c, k, o)'
<1>1. \A j \in 1 .. k : Unread'[j] = Unread[j]
  <2>1. \A j \in 1 .. k : j \in 1 .. Len(Unread) OBVIOUS
  <2>2. QED BY <2>1 DEF Added
<1>2. QED BY <1>1 DEF Run, InBody

(* Tokens stay in the order of their calls when one of the newest call is added. *)
LEMMA OrderGrows ==
  ASSUME NEW t, Added(t), Len(Unread) \in Nat, NEW m, NEW n \in Nat, t.id = n,
         \A i \in 1 .. Len(Unread) : Unread[i].id \in Nat /\ (IF t.kind \in OpKinds THEN Unread[i].id < n ELSE Unread[i].id <= n),
         TokensAreInOrder
  PROVE  TokensAreInOrder'
<1>1. /\ Len(Unread') = Len(Unread) + 1 /\ Unread'[Len(Unread) + 1] = t
      /\ \A i \in 1 .. Len(Unread) : Unread'[i] = Unread[i]
  BY DEF Added
<1>2. ASSUME NEW i \in 1 .. Len(Unread'), NEW j \in 1 .. Len(Unread'), i < j
      PROVE  IF Unread'[j].kind \in OpKinds THEN Unread'[i].id < Unread'[j].id
                                            ELSE Unread'[i].id <= Unread'[j].id
  <2>1. i \in 1 .. Len(Unread) /\ Unread'[i] = Unread[i] BY <1>1, <1>2
  <2>2. CASE j = Len(Unread) + 1 BY <1>1, <2>1, <2>2
  <2>3. CASE j \in 1 .. Len(Unread) BY <1>1, <1>2, <2>1, <2>3 DEF TokensAreInOrder
  <2>4. QED BY <1>1, <2>2, <2>3
<1>3. QED BY <1>2 DEF TokensAreInOrder

(* The place a token had before another was removed. *)
Before(a, i) == IF i < a THEN i ELSE i + 1

(* The unread tokens but the removed one keep their order, each at its new place. *)
LEMMA RemovedPlaces ==
  ASSUME NEW a, Removed(a), Len(Unread) \in Nat
  PROVE  /\ a \in 1 .. Len(Unread) /\ Len(Unread') = Len(Unread) - 1
         /\ \A i \in 1 .. Len(Unread') :
              /\ Before(a, i) \in 1 .. Len(Unread) /\ Before(a, i) # a
              /\ Unread'[i] = Unread[Before(a, i)]
         /\ \A i, j \in 1 .. Len(Unread') : i < j => Before(a, i) < Before(a, j)
         /\ a = 1 => \A i \in 1 .. Len(Unread') : 1 < Before(a, i)
<1>1. /\ a \in 1 .. Len(Unread) /\ Len(Unread') = Len(Unread) - 1
      /\ \A i \in 1 .. Len(Unread) - 1 : Unread'[i] = IF i < a THEN Unread[i] ELSE Unread[i + 1]
  BY DEF Removed
<1>2. \A i \in 1 .. Len(Unread') : Before(a, i) \in 1 .. Len(Unread) /\ Before(a, i) # a
  BY <1>1 DEF Before
<1>3. \A i \in 1 .. Len(Unread') : Unread'[i] = Unread[Before(a, i)] BY <1>1 DEF Before
<1>4. \A i, j \in 1 .. Len(Unread') : i < j => Before(a, i) < Before(a, j) BY <1>1 DEF Before
<1>5. a = 1 => \A i \in 1 .. Len(Unread') : 1 < Before(a, i) BY <1>1 DEF Before
<1>6. QED BY <1>1, <1>2, <1>3, <1>4, <1>5

(* A token that is read leaves runs as they were, if the guest is then where *)
(* it should be in the body it is in.                                        *)
LEMMA RunShrinks ==
  ASSUME Len(Unread) \in Nat, NEW a, Removed(a), NEW c \in CallIds,
         NEW k \in 1 .. Len(Unread), NEW o \in Int, Run(c, k, o),
         a = 1 \/ (guest.at = "output" /\ Unread[a].kind = "ack"),
         o >= -1 /\ a = 1 => InBody(c, o + 1)'
  PROVE  IF a <= k THEN Run(c, k - 1, o + 1)' ELSE Run(c, k, o)'
<1>1. /\ a \in 1 .. Len(Unread) /\ Len(Unread') = Len(Unread) - 1
      /\ \A i \in 1 .. Len(Unread) - 1 : Unread'[i] = IF i < a THEN Unread[i] ELSE Unread[i + 1]
  BY DEF Removed
<1>2. \A j \in 1 .. k : /\ j + o >= 1 => Unread[j] = Token(c, BodyToken(j + o, FALSE))
                        /\ j + o = 0 => Unread[j] = Token(c, "tree")
  BY DEF Run
<1>3. CASE a > k
  <2>1. o < 0 BY <1>1, <1>3 DEF Run, InBody
  <2>2. \A j \in 1 .. k : Unread'[j] = Unread[j] BY <1>1, <1>3
  <2>3. \A j \in 1 .. k : /\ j + o >= 1 => Unread'[j] = Token(c, BodyToken(j + o, FALSE))
                          /\ j + o = 0 => Unread'[j] = Token(c, "tree")
    BY <1>2, <2>2
  <2>4. o >= 0 => InBody(c, o)' BY <2>1
  <2>5. Run(c, k, o)' BY <2>3, <2>4 DEF Run, InBody, Token
  <2>6. ~(a <= k) BY <1>1, <1>3
  <2>7. QED BY <2>5, <2>6
<1>4. CASE a <= k
  <2>0. a \in 1 .. k /\ a \in Nat BY <1>1, <1>4
  <2>1. a # 1 => a + o < 0
    <3>1. a # 1 => Unread[a].kind = "ack" OBVIOUS
    <3>2. a + o >= 1 => Unread[a].kind \in BodyKinds
      <4>1. a + o >= 1 => a + o \in Nat BY <1>1
      <4>2. a + o >= 1 => Unread[a] = Token(c, BodyToken(a + o, FALSE)) BY <1>2, <2>0, Zenon
      <4>3. a + o >= 1 => BodyToken(a + o, FALSE) \in BodyKinds BY <4>1, BodyIsBody
      <4>4. \A x : Token(c, x).kind = x BY DEF Token
      <4>5. QED BY <4>2, <4>3, <4>4
    <3>3. a + o = 0 => Unread[a].kind = "tree"
      <4>1. a + o = 0 => Unread[a] = Token(c, "tree") BY <1>2, <2>0, Zenon
      <4>2. QED BY <4>1 DEF Token
    <3>4. QED BY <1>1, <3>1, <3>2, <3>3 DEF BodyKinds
  <2>2. o + 1 >= 0 => a = 1 BY <1>1, <2>1
  <2>3. o + 1 >= 0 => InBody(c, o + 1)' BY <2>2
  <2>4. ASSUME NEW j \in 1 .. k - 1
        PROVE  /\ j + (o + 1) >= 1 => Unread'[j] = Token(c, BodyToken(j + (o + 1), FALSE))
               /\ j + (o + 1) = 0 => Unread'[j] = Token(c, "tree")
    <3>1. CASE j < a
      <4>1. a # 1 BY <3>1
      <4>2. ~(j + (o + 1) >= 1) /\ j + (o + 1) # 0 BY <1>1, <2>1, <3>1, <4>1
      <4>3. QED BY <4>2, Zenon
    <3>2. CASE ~(j < a)
      <4>1. Unread'[j] = Unread[j + 1] /\ j + 1 \in 1 .. k BY <1>1, <3>2
      <4>2. j + (o + 1) = (j + 1) + o OBVIOUS
      <4>3. /\ (j + 1) + o >= 1 => Unread[j + 1] = Token(c, BodyToken((j + 1) + o, FALSE))
            /\ (j + 1) + o = 0 => Unread[j + 1] = Token(c, "tree")
        BY <1>2, <4>1
      <4>4. QED BY <4>1, <4>2, <4>3
    <3>3. QED BY <3>1, <3>2
  <2>5. Run(c, k - 1, o + 1)' BY <2>3, <2>4 DEF Run, InBody, Token
  <2>6. QED BY <1>4, <2>5
<1>5. QED BY <1>1, <1>3, <1>4

(* What the type invariant says of single tokens and messages, and of the numbers. *)
LEMMA ChannelTypes ==
  ASSUME ChannelTypeOK
  PROVE  /\ Unread \in Seq(Tokens) /\ Len(Unread) \in Nat /\ Len(replies) \in Nat
         /\ \A i \in 1 .. Len(Unread) : Unread[i] \in Tokens /\ Unread[i].id \in CallIds /\ Unread[i].id \in Nat
         /\ \A i \in 1 .. Len(replies) : replies[i] \in Messages /\ replies[i].id \in CallIds /\ replies[i].id \in Nat /\ replies[i].seq \in Nat
         /\ caller.id \in Nat /\ caller.sent \in Nat /\ caller.seen \in Nat /\ guest.id \in Nat /\ guest.seq \in Nat
         /\ Total \in Nat
<1>1. /\ wire \in Seq(Tokens) /\ buffer \in Seq(Tokens) /\ replies \in Seq(Messages)
      /\ caller \in CallStates /\ guest \in Guests
  BY DEF ChannelTypeOK
<1>2. Unread \in Seq(Tokens) BY <1>1, UnreadIsAt DEF Unread
<1>3. Len(Unread) \in Nat /\ \A i \in 1 .. Len(Unread) : Unread[i] \in Tokens
  BY <1>2, ElementOfSeq
<1>4. Len(replies) \in Nat /\ \A i \in 1 .. Len(replies) : replies[i] \in Messages
  BY <1>1, ElementOfSeq
<1>5. \A t \in Tokens : t.id \in CallIds /\ t.id \in Nat BY DEF Tokens, CallIds
<1>6. \A m \in Messages : m.id \in CallIds /\ m.id \in Nat /\ m.seq \in Nat
  BY DEF Messages, CallIds
<1>7. caller.id \in Nat /\ caller.sent \in Nat /\ caller.seen \in Nat
  BY <1>1 DEF CallStates, CallIds
<1>8. guest.id \in Nat /\ guest.seq \in Nat BY <1>1 DEF Guests, CallIds
<1>9. Total \in Nat
  <2>1. Files \in Nat /\ Size \in Nat BY ChannelAssumption
  <2>2. QED BY <2>1 DEF Total
<1>10. QED BY <1>2, <1>3, <1>4, <1>5, <1>6, <1>7, <1>8, <1>9

(* What is left in order once the guest has used a token.                   *)
LEMMA ReadingKeepsTheFraming ==
  ASSUME ChannelTypeOK, CallsAreInOrder, StreamIsFramed, NEW a, Removed(a), UNCHANGED <<caller, settled>>,
         a = 1 \/ (guest.at = "output" /\ Unread[a].kind = "ack"),
         \A j \in 1 .. Len(replies') :
           \/ \E i \in 1 .. Len(replies) : replies'[j].id = replies[i].id
           \/ AtWork /\ replies'[j].id = guest.id
           \/ a = 1 /\ replies'[j].id = Unread[1].id,
         \A c \in CallIds, o \in Int :
           /\ o >= -1 /\ o < Total /\ a = 1
           /\ o >= 0 => InBody(c, o)
           /\ Unread[1] = Token(c, IF o = -1 THEN "tree" ELSE BodyToken(o + 1, FALSE))
           => InBody(c, o + 1)',
         GuestIsInOrder'
  PROVE  StreamIsFramed'
<1>1. /\ Len(Unread) \in Nat /\ Total \in Nat /\ Len(replies) \in Nat /\ caller.sent \in Nat
      /\ \A i \in 1 .. Len(Unread) : Unread[i] \in Tokens /\ Unread[i].id \in CallIds /\ Unread[i].id \in Nat
  BY ChannelTypes
<1>2. /\ a \in 1 .. Len(Unread) /\ Len(Unread') = Len(Unread) - 1
      /\ \A i \in 1 .. Len(Unread') :
           /\ Before(a, i) \in 1 .. Len(Unread) /\ Before(a, i) # a
           /\ Unread'[i] = Unread[Before(a, i)]
      /\ \A i, j \in 1 .. Len(Unread') : i < j => Before(a, i) < Before(a, j)
      /\ a = 1 => \A i \in 1 .. Len(Unread') : 1 < Before(a, i)
  BY <1>1, RemovedPlaces
<1>3. TokensAreInOrder /\ RequestsAreCalls /\ GuestIsInOrder /\ UnreadIsUnanswered
      /\ SentIsARun /\ EndsAreRuns
  BY DEF StreamIsFramed
<1>4. TokensAreInOrder' BY <1>2, <1>3 DEF TokensAreInOrder
<1>5. RequestsAreCalls' BY <1>2, <1>3 DEF RequestsAreCalls
<1>6. UnreadIsUnanswered'
  <2>1. ASSUME NEW i \in 1 .. Len(Unread'), Unread'[i].kind \in OpKinds,
               NEW j \in 1 .. Len(replies')
        PROVE  replies'[j].id < Unread'[i].id
    <3> DEFINE b == Before(a, i)
    <3>1. b \in 1 .. Len(Unread) /\ Unread'[i] = Unread[b] /\ (a = 1 => 1 < b) BY <1>2
    <3> HIDE DEF b
    <3>2. \A x \in 1 .. Len(replies) : replies[x].id < Unread[b].id
      BY <1>3, <2>1, <3>1 DEF UnreadIsUnanswered
    <3>3. AtWork => guest.id < Unread[b].id BY <1>3, <2>1, <3>1 DEF GuestIsInOrder
    <3>4. a = 1 => Unread[1].id < Unread[b].id
      BY <1>1, <1>2, <1>3, <2>1, <3>1 DEF TokensAreInOrder
    <3>5. QED BY <3>1, <3>2, <3>3, <3>4
  <2>2. ASSUME NEW i \in 1 .. Len(Unread'), Unread'[i].kind \in OpKinds, Unread'[i].id = caller.id
        PROVE  caller.seen = 0
    BY <1>2, <1>3, <2>2 DEF UnreadIsUnanswered
  <2>3. QED BY <2>1, <2>2 DEF UnreadIsUnanswered
<1>7. ASSUME NEW c \in CallIds, NEW k \in 1 .. Len(Unread), NEW o \in Int, Run(c, k, o),
             a = 1 => 1 + o <= Total
      PROVE  IF a <= k THEN Run(c, k - 1, o + 1)' ELSE Run(c, k, o)'
  <2>1. o >= -1 /\ a = 1 => InBody(c, o + 1)'
    <3>1. ASSUME o >= -1, a = 1 PROVE InBody(c, o + 1)'
      <4>1. o >= 0 => InBody(c, o) BY <1>7 DEF Run
      <4>2. 1 \in 1 .. k /\ (o >= 0 => 1 + o >= 1) /\ (o = -1 => 1 + o = 0) BY <1>1
      <4>3. /\ 1 + o >= 1 => Unread[1] = Token(c, BodyToken(1 + o, FALSE))
            /\ 1 + o = 0 => Unread[1] = Token(c, "tree")
        BY <1>7, <4>2, Zenon DEF Run
      <4>4. /\ o >= 0 => Unread[1] = Token(c, BodyToken(1 + o, FALSE))
            /\ o = -1 => Unread[1] = Token(c, "tree")
        BY <4>2, <4>3, Zenon
      <4>5. 1 + o = o + 1 /\ o < Total /\ (o = -1 \/ o >= 0) BY <1>1, <1>7, <3>1
      <4>6. Unread[1] = Token(c, IF o = -1 THEN "tree" ELSE BodyToken(o + 1, FALSE))
        <5>1. CASE o = -1 BY <4>4, <5>1
        <5>2. CASE o # -1
          <6>1. o >= 0 BY <4>5, <5>2
          <6>2. Unread[1] = Token(c, BodyToken(o + 1, FALSE)) BY <4>4, <4>5, <6>1, Zenon
          <6>3. QED BY <5>2, <6>2
        <5>3. QED BY <5>1, <5>2
      <4>7. QED BY <3>1, <4>1, <4>5, <4>6
    <3>2. QED BY <3>1
  <2>2. QED BY <1>1, <1>7, <2>1, RunShrinks
<1>8. SentIsARun'
  <2>1. ASSUME caller.at = "sending", ~caller.bad
        PROVE  /\ caller.sent <= Total
               /\ \E k \in Int, o \in Int, c \in CallIds :
                    /\ k = Len(Unread') /\ o = caller.sent - Len(Unread') /\ c = caller.id
                    /\ Run(c, k, o)'
    <3>1. caller.sent <= Total /\ Run(caller.id, Len(Unread), caller.sent - Len(Unread))
      BY <1>3, <2>1 DEF SentIsARun
    <3>2. caller.id \in CallIds
      <4>1. caller # Idle BY <2>1 DEF Idle
      <4>2. QED BY <4>1 DEF ChannelTypeOK, CallStates, CallsAreInOrder, CallsUpTo
    <3>3. PICK k \in Nat, o \in Int, c \in CallIds, b \in Nat : k = Len(Unread) /\ o = caller.sent - Len(Unread) /\ c = caller.id /\ b = caller.sent
      BY <1>1, <3>2
    <3>4. Run(c, k, o) /\ k \in 1 .. Len(Unread) /\ a <= k BY <1>1, <1>2, <3>1, <3>3
    <3>5. Run(c, k - 1, o + 1)'
      <4>1. 1 + o <= Total BY <1>1, <3>1, <3>3, <3>4
      <4>2. IF a <= k THEN Run(c, k - 1, o + 1)' ELSE Run(c, k, o)' BY <1>7, <3>4, <4>1
      <4>3. QED BY <3>4, <4>2, Zenon
    <3>6. o + 1 = caller.sent - Len(Unread') /\ k - 1 = Len(Unread')
      <4>1. Len(Unread') = k - 1 BY <1>2, <3>3
      <4>2. o = b - k BY <3>3, Zenon
      <4>3. o + 1 = b - (k - 1) BY <4>2
      <4>4. QED BY <3>3, <4>1, <4>3, Zenon
    <3>7. PICK e \in Int, f \in Int : e = k - 1 /\ f = o + 1
      <4>1. k - 1 \in Int /\ o + 1 \in Int BY <3>3
      <4>2. QED BY <4>1, Zenon
    <3>8. e = Len(Unread') /\ f = caller.sent - Len(Unread') /\ c = caller.id /\ Run(c, e, f)'
      BY <3>3, <3>5, <3>6, <3>7, Zenon
    <3>9. QED BY <3>1, <3>8, Zenon
  <2>2. QED BY <2>1 DEF SentIsARun, Run, InBody
<1>9. EndsAreRuns'
  <2>1. ASSUME NEW i \in 1 .. Len(Unread'), Unread'[i].kind = "end"
        PROVE  \E c \in CallIds, o \in Int :
                 c = Unread'[i].id /\ o = Total + 1 - i /\ Run(c, i, o)'
    <3>1. PICK k \in 1 .. Len(Unread), c \in CallIds : k = Before(a, i) /\ k # a /\ c = Unread[k].id
      BY <1>1, <1>2
    <3>2. PICK o \in Int : o = Total + 1 - k BY <1>1
    <3>3. Unread'[i] = Unread[k] /\ c = Unread'[i].id BY <1>2, <3>1
    <3>4. Run(c, k, o) BY <1>3, <2>1, <3>1, <3>2, <3>3 DEF EndsAreRuns
    <3>5. a = 1 => 1 + o <= Total BY <1>1, <1>2, <3>1, <3>2
    <3>6. IF a <= k THEN Run(c, k - 1, o + 1)' ELSE Run(c, k, o)' BY <1>7, <3>4, <3>5
    <3>7. IF a <= k THEN k - 1 = i /\ o + 1 = Total + 1 - i ELSE k = i /\ o = Total + 1 - i
      <4>1. CASE i < a BY <1>1, <1>2, <3>1, <3>2, <4>1 DEF Before
      <4>2. CASE ~(i < a)
        <5>1. k = i + 1 BY <3>1, <4>2 DEF Before
        <5>2. QED BY <1>1, <1>2, <3>2, <4>2, <5>1
      <4>3. QED BY <4>1, <4>2
    <3>8. PICK n \in Int : n = Total + 1 - i BY <1>1
    <3>9. Run(c, i, n)'
      <4>1. CASE a <= k BY <3>6, <3>7, <3>8, <4>1
      <4>2. CASE ~(a <= k) BY <3>6, <3>7, <3>8, <4>2
      <4>3. QED BY <4>1, <4>2
    <3>10. QED BY <3>3, <3>8, <3>9
  <2>2. QED BY <2>1 DEF EndsAreRuns, Run, InBody, Total
<1>10. QED BY <1>4, <1>5, <1>6, <1>8, <1>9 DEF StreamIsFramed

-----------------------------------------------------------------------------
(* What an answer adds to the replies.                                      *)
LEMMA AnswersKeepTheReplies ==
  ASSUME ChannelTypeOK, EventsAreInOrder, RepliesAreWhole,
         NEW m \in Messages, replies' = Append(replies, m), UNCHANGED <<caller, settled>>,
         m.kind = "event" =>
           /\ \A i \in 1 .. Len(replies) : replies[i].id = m.id =>
                replies[i].kind = "event" /\ replies[i].seq < m.seq
           /\ m.id = caller.id =>
                \/ m.seq = caller.seen + 1
                \/ m.seq > caller.seen + 1 /\ \E j \in 1 .. Len(replies) : EventOf(m.id, m.seq - 1, j),
         m.kind = "ok" =>
           /\ m.whole /\ (settled[m.id].op = "tree" => m.files = Files)
           /\ \A j \in 1 .. Len(replies) :
                replies[j].kind = "event" /\ replies[j].id = m.id => replies[j].seq <= m.seq
           /\ m.id = caller.id /\ settled[m.id].op \in Streams =>
                m.seq = caller.seen \/ \E j \in 1 .. Len(replies) : EventOf(m.id, m.seq, j)
  PROVE  EventsAreInOrder' /\ RepliesAreWhole'
<1> DEFINE n == Len(replies)
<1>1. /\ n \in Nat /\ replies \in Seq(Messages) /\ m.seq \in Nat
      /\ \A i \in 1 .. n : replies[i].seq \in Nat
  <2>1. n \in Nat /\ \A i \in 1 .. n : replies[i].seq \in Nat BY ChannelTypes
  <2>2. replies \in Seq(Messages) BY DEF ChannelTypeOK
  <2>3. QED BY <2>1, <2>2 DEF Messages
<1>2. /\ Len(replies') = n + 1 /\ replies'[n + 1] = m
      /\ \A i \in 1 .. n : replies'[i] = replies[i]
  BY <1>1, AppendProperties
<1> HIDE DEF n
<1>3. \A i \in 1 .. n + 1 : i = n + 1 \/ i \in 1 .. n BY <1>1
<1>4. RepliesAreWhole'
  <2>1. ASSUME NEW i \in 1 .. n + 1, replies'[i].kind = "ok"
        PROVE  replies'[i].whole /\ (settled[replies'[i].id].op = "tree" => replies'[i].files = Files)
    <3>1. CASE i = n + 1 BY <1>2, <2>1, <3>1
    <3>2. CASE i \in 1 .. n BY <1>2, <2>1, <3>2 DEF RepliesAreWhole, n
    <3>3. QED BY <1>3, <3>1, <3>2
  <2>2. QED BY <1>2, <2>1 DEF RepliesAreWhole
<1>7. ASSUME NEW i \in 1 .. n + 1, replies'[i].kind = "event"
      PROVE  /\ \A j \in 1 .. n + 1 : (replies'[j].id = replies'[i].id /\ replies'[j].kind = "event"
                                       /\ replies'[j].seq = replies'[i].seq) => i = j
             /\ replies'[i].id = caller.id =>
                  \/ replies'[i].seq = caller.seen + 1
                  \/ /\ replies'[i].seq > caller.seen + 1
                     /\ \E j \in 1 .. i - 1 : replies'[j].id = replies'[i].id /\ replies'[j].kind = "event"
                                              /\ replies'[j].seq = replies'[i].seq - 1
  <2>1. CASE i = n + 1
    <3>1. replies'[i] = m /\ m.kind = "event" BY <1>2, <1>7, <2>1
    <3>2. \A j \in 1 .. n + 1 : (replies'[j].id = m.id /\ replies'[j].kind = "event"
                                 /\ replies'[j].seq = m.seq) => i = j
      BY <1>1, <1>2, <1>3, <2>1, <3>1 DEF n
    <3>3. m.id = caller.id =>
            \/ m.seq = caller.seen + 1
            \/ m.seq > caller.seen + 1 /\ \E j \in 1 .. n : replies'[j].id = m.id /\ replies'[j].kind = "event"
                                                            /\ replies'[j].seq = m.seq - 1
      BY <1>2, <3>1 DEF n, EventOf
    <3>4. i - 1 = n BY <1>1, <2>1
    <3>5. QED BY <3>1, <3>2, <3>3, <3>4
  <2>2. CASE i \in 1 .. n
    <3>1. replies'[i] = replies[i] /\ replies[i].kind = "event" BY <1>2, <1>7, <2>2
    <3>2. /\ \A j \in 1 .. n : (replies[j].id = replies[i].id /\ replies[j].kind = "event"
                                /\ replies[j].seq = replies[i].seq) => i = j
          /\ replies[i].id = caller.id =>
               \/ replies[i].seq = caller.seen + 1
               \/ /\ replies[i].seq > caller.seen + 1
                  /\ \E j \in 1 .. i - 1 : replies[j].id = replies[i].id /\ replies[j].kind = "event"
                                           /\ replies[j].seq = replies[i].seq - 1
      BY <2>2, <3>1 DEF EventsAreInOrder, EventOf, n
    <3>3. \A j \in 1 .. i - 1 : j \in 1 .. n BY <1>1, <2>2
    <3>4. ~(m.id = replies[i].id /\ m.kind = "event" /\ m.seq = replies[i].seq)
      BY <1>1, <2>2 DEF n
    <3>5. \A j \in 1 .. n + 1 : (replies'[j].id = replies'[i].id /\ replies'[j].kind = "event"
                                 /\ replies'[j].seq = replies'[i].seq) => i = j
      BY <1>2, <1>3, <3>1, <3>2, <3>4
    <3>6. \A j \in 1 .. i - 1 : replies'[j] = replies[j] BY <1>2, <3>3
    <3>7. replies'[i].id = caller.id =>
            \/ replies'[i].seq = caller.seen + 1
            \/ /\ replies'[i].seq > caller.seen + 1
               /\ \E j \in 1 .. i - 1 : replies'[j].id = replies'[i].id /\ replies'[j].kind = "event"
                                        /\ replies'[j].seq = replies'[i].seq - 1
      BY <3>1, <3>2, <3>6
    <3>8. QED BY <3>5, <3>7, Zenon
  <2>3. QED BY <1>3, <2>1, <2>2
<1>8. ASSUME NEW i \in 1 .. n + 1, replies'[i].kind = "ok"
      PROVE  /\ \A j \in 1 .. n + 1 : replies'[j].kind = "event" /\ replies'[j].id = replies'[i].id
                                      => replies'[j].seq <= replies'[i].seq
             /\ replies'[i].id = caller.id /\ settled[replies'[i].id].op \in Streams =>
                  \/ replies'[i].seq = caller.seen
                  \/ \E j \in 1 .. i - 1 : replies'[j].id = replies'[i].id /\ replies'[j].kind = "event"
                                           /\ replies'[j].seq = replies'[i].seq
  <2>1. CASE i = n + 1
    <3>1. replies'[i] = m /\ m.kind = "ok" BY <1>2, <1>8, <2>1
    <3>2. \A j \in 1 .. n + 1 : replies'[j].kind = "event" /\ replies'[j].id = m.id => replies'[j].seq <= m.seq
      BY <1>1, <1>2, <1>3, <3>1 DEF n
    <3>3. m.id = caller.id /\ settled[m.id].op \in Streams =>
            m.seq = caller.seen \/ \E j \in 1 .. n : replies'[j].id = m.id /\ replies'[j].kind = "event"
                                                     /\ replies'[j].seq = m.seq
      BY <1>2, <3>1 DEF n, EventOf
    <3>4. i - 1 = n BY <1>1, <2>1
    <3>5. \A j \in 1 .. n + 1 : replies'[j].kind = "event" /\ replies'[j].id = replies'[i].id
                                => replies'[j].seq <= replies'[i].seq
      BY <3>1, <3>2, Zenon
    <3>6. replies'[i].id = caller.id /\ settled[replies'[i].id].op \in Streams =>
            \/ replies'[i].seq = caller.seen
            \/ \E j \in 1 .. i - 1 : replies'[j].id = replies'[i].id /\ replies'[j].kind = "event"
                                     /\ replies'[j].seq = replies'[i].seq
      BY <3>1, <3>3, <3>4, Zenon
    <3>7. QED BY <3>5, <3>6, Zenon
  <2>2. CASE i \in 1 .. n
    <3>1. replies'[i] = replies[i] /\ replies[i].kind = "ok" BY <1>2, <1>8, <2>2
    <3>2. /\ \A j \in 1 .. n : replies[j].kind = "event" /\ replies[j].id = replies[i].id
                               => replies[j].seq <= replies[i].seq
          /\ replies[i].id = caller.id /\ settled[replies[i].id].op \in Streams =>
               \/ replies[i].seq = caller.seen
               \/ \E j \in 1 .. i - 1 : replies[j].id = replies[i].id /\ replies[j].kind = "event"
                                        /\ replies[j].seq = replies[i].seq
      BY <2>2, <3>1 DEF EventsAreInOrder, EventOf, n
    <3>3. \A j \in 1 .. i - 1 : j \in 1 .. n BY <1>1, <2>2
    <3>4. ~(m.id = replies[i].id /\ m.kind = "event") BY <2>2, <3>1 DEF n
    <3>5. \A j \in 1 .. n + 1 : replies'[j].kind = "event" /\ replies'[j].id = replies'[i].id
                                => replies'[j].seq <= replies'[i].seq
      BY <1>2, <1>3, <3>1, <3>2, <3>4
    <3>6. \A j \in 1 .. i - 1 : replies'[j] = replies[j] BY <1>2, <3>3
    <3>7. replies'[i].id = caller.id /\ settled[replies'[i].id].op \in Streams =>
            \/ replies'[i].seq = caller.seen
            \/ \E j \in 1 .. i - 1 : replies'[j].id = replies'[i].id /\ replies'[j].kind = "event"
                                     /\ replies'[j].seq = replies'[i].seq
      BY <3>1, <3>2, <3>6
    <3>8. QED BY <3>5, <3>7, Zenon
  <2>3. QED BY <1>3, <2>1, <2>2
<1>9. EventsAreInOrder'
  <2>1. Len(replies') = n + 1 BY <1>2
  <2>2. QED BY <1>7, <1>8, <2>1 DEF EventsAreInOrder, EventOf
<1>10. QED BY <1>4, <1>9

-----------------------------------------------------------------------------
(* What the guest does: the calls stay as they are.                         *)
LEMMA GuestKeepsTheCalls ==
  ASSUME ChannelTypeOK, CallsAreInOrder, UNCHANGED <<caller, settled>>,
         \A i \in 1 .. Len(Unread') : \E j \in 1 .. Len(Unread) : Unread'[i] = Unread[j],
         \A i \in 1 .. Len(replies') :
           \/ \E j \in 1 .. Len(replies) : replies'[i].id = replies[j].id
           \/ \E j \in 1 .. Len(Unread) : replies'[i].id = Unread[j].id
           \/ replies'[i].id = guest.id,
         \/ guest'.id \in {0, guest.id}
         \/ \E j \in 1 .. Len(Unread) : guest'.id = Unread[j].id
  PROVE  CallsAreInOrder'
<1>1. PICK m \in 0 .. MaxCall : CallsUpTo(m) BY DEF CallsAreInOrder
<1>2. \A i \in 1 .. Len(Unread') : Unread'[i].id <= m BY <1>1 DEF CallsUpTo
<1>3. \A i \in 1 .. Len(replies') : replies'[i].id <= m BY <1>1 DEF CallsUpTo
<1>4. guest'.id <= m BY <1>1 DEF CallsUpTo
<1>5. CallsUpTo(m)' BY <1>1, <1>2, <1>3, <1>4 DEF CallsUpTo, Idle
<1>6. QED BY <1>5 DEF CallsAreInOrder

(* What the guest does leaves the calls that were settled as they are. *)
LEMMA GuestKeepsTheAnswers ==
  ASSUME AnswersAreTheirOwn, UNCHANGED settled
  PROVE  AnswersAreTheirOwn'
BY DEF AnswersAreTheirOwn

(* A message of the guest at work is a message. *)
LEMMA ReplyIsMessage ==
  ASSUME ChannelTypeOK, guest.id \in CallIds, NEW k \in {"ok", "err", "event"}
  PROVE  /\ Reply(k) \in Messages /\ Reply(k).id = guest.id /\ Reply(k).kind = k
         /\ Reply(k).seq = guest.seq /\ Reply(k).whole = guest.whole /\ Reply(k).files = guest.files
BY DEF ChannelTypeOK, Guests, Messages, Reply

(* The answer to a request that starts nothing is a message of that request. *)
LEMMA RefusalIsMessage ==
  ASSUME NEW i \in CallIds, NEW k \in {"ok", "err"}
  PROVE  LET m == [Refusal(i) EXCEPT !.kind = k]
         IN  /\ m \in Messages /\ m.id = i /\ m.kind = k /\ m.seq = 0 /\ m.whole = TRUE /\ m.files = 0
BY DEF Messages, Refusal

(* The session ends: what is left unread is never used. *)
LEMMA DesyncKeeps ==
  ASSUME ChannelInvariant, AtWork, Desync, UNCHANGED <<caller, lastAck, settled>>,
         wire' \in Seq(Tokens), buffer' \in Seq(Tokens),
         \A i \in 1 .. Len(Unread') : \E j \in 1 .. Len(Unread) : Unread'[i] = Unread[j]
  PROVE  ChannelInvariant'
<1> DEFINE m == Reply("err")
<1>1. /\ ChannelTypeOK /\ CallsAreInOrder /\ GuestIsInOrder
      /\ EventsAreInOrder /\ GuestIsAhead /\ RepliesAreWhole /\ AnswersAreTheirOwn
  BY DEF ChannelInvariant, StreamIsFramed, AtWork
<1>2. m \in Messages /\ m.id = guest.id /\ m.kind = "err"
  BY <1>1, ReplyIsMessage DEF GuestIsInOrder
<1> HIDE DEF m
<1>3. replies' = Append(replies, m) /\ guest' = [guest EXCEPT !.at = "ended"] BY DEF Desync, m
<1>4. /\ guest \in Guests /\ replies \in Seq(Messages) /\ Len(replies) \in Nat
  BY <1>1, ChannelTypes DEF ChannelTypeOK
<1>5. guest' \in Guests /\ guest'.at = "ended" /\ guest'.id = guest.id BY <1>3, <1>4 DEF Guests
<1>6. /\ replies' \in Seq(Messages) /\ Len(replies') = Len(replies) + 1 /\ replies'[Len(replies) + 1] = m
      /\ \A i \in 1 .. Len(replies) : replies'[i] = replies[i]
  BY <1>2, <1>3, <1>4, AppendProperties
<1>7. ChannelTypeOK' BY <1>1, <1>5, <1>6 DEF ChannelTypeOK
<1>8. CallsAreInOrder'
  <2>1. \A i \in 1 .. Len(replies') :
          \/ \E j \in 1 .. Len(replies) : replies'[i].id = replies[j].id
          \/ replies'[i].id = guest.id
    <3>1. TAKE i \in 1 .. Len(replies')
    <3>2. CASE i = Len(replies) + 1 BY <1>2, <1>6, <3>2
    <3>3. CASE i \in 1 .. Len(replies) BY <1>6, <3>3
    <3>4. i = Len(replies) + 1 \/ i \in 1 .. Len(replies) BY <1>4, <1>6, <3>1
    <3>5. QED BY <3>2, <3>3, <3>4
  <2>2. QED BY <1>1, <1>5, <2>1, GuestKeepsTheCalls
<1>9. EventsAreInOrder' /\ RepliesAreWhole' BY <1>1, <1>2, <1>3, AnswersKeepTheReplies
<1>10. GuestIsAhead' BY <1>5 DEF GuestIsAhead, AtWork
<1>11. AnswersAreTheirOwn' BY <1>1, GuestKeepsTheAnswers
<1>12. QED BY <1>5, <1>7, <1>8, <1>9, <1>10, <1>11 DEF ChannelInvariant

(* A token that is removed leaves tokens that were there. *)
LEMMA RemovedLeaves ==
  ASSUME NEW a, Removed(a), Len(Unread) \in Nat
  PROVE  \A i \in 1 .. Len(Unread') : \E j \in 1 .. Len(Unread) : Unread'[i] = Unread[j]
BY RemovedPlaces

(* A reply of the guest that is no event, and what it must say if it says ok. *)
Answers(m) ==
  /\ m \in Messages /\ m.kind # "event"
  /\ m.kind = "ok" =>
       /\ m.whole /\ (settled[m.id].op = "tree" => m.files = Files)
       /\ \A j \in 1 .. Len(replies) :
            replies[j].kind = "event" /\ replies[j].id = m.id => replies[j].seq <= m.seq
       /\ m.id = caller.id /\ settled[m.id].op \in Streams =>
            m.seq = caller.seen \/ \E j \in 1 .. Len(replies) : EventOf(m.id, m.seq, j)

(* An answer that ends a request, behind all replies, leaves them in order and whole. *)
LEMMA AnswerKeepsTheReplies ==
  ASSUME ChannelTypeOK, EventsAreInOrder, RepliesAreWhole, UNCHANGED <<caller, settled>>,
         NEW m, Answers(m), replies' = Append(replies, m)
  PROVE  /\ EventsAreInOrder' /\ RepliesAreWhole'
         /\ \A i \in 1 .. Len(replies') :
              replies'[i].id = m.id \/ \E j \in 1 .. Len(replies) : replies'[i].id = replies[j].id
<1>1. /\ m \in Messages /\ m.kind # "event"
      /\ m.kind = "ok" =>
           /\ m.whole /\ (settled[m.id].op = "tree" => m.files = Files)
           /\ \A j \in 1 .. Len(replies) :
                replies[j].kind = "event" /\ replies[j].id = m.id => replies[j].seq <= m.seq
           /\ m.id = caller.id /\ settled[m.id].op \in Streams =>
                m.seq = caller.seen \/ \E j \in 1 .. Len(replies) : EventOf(m.id, m.seq, j)
  BY DEF Answers
<1>2. EventsAreInOrder' /\ RepliesAreWhole' BY <1>1, AnswersKeepTheReplies
<1>3. replies \in Seq(Messages) /\ Len(replies) \in Nat BY ChannelTypes DEF ChannelTypeOK
<1>4. /\ Len(replies') = Len(replies) + 1 /\ replies'[Len(replies) + 1] = m
      /\ \A i \in 1 .. Len(replies) : replies'[i] = replies[i]
  BY <1>1, <1>3, AppendProperties
<1>5. QED BY <1>2, <1>3, <1>4

(* The guest uses the token at a, and answers or does not. *)
LEMMA UsingKeeps ==
  ASSUME ChannelInvariant, guest.at # "ended", ChannelTypeOK', UNCHANGED <<caller, settled>>,
         NEW a, Removed(a), a = 1 \/ (guest.at = "output" /\ Unread[a].kind = "ack"),
         \/ replies' = replies
         \/ \E m \in Messages :
              /\ replies' = Append(replies, m) /\ Answers(m)
              /\ (a = 1 /\ m.id = Unread[1].id) \/ (AtWork /\ m.id = guest.id),
         guest'.id \in {0, guest.id, Unread[a].id},
         \A c \in CallIds, o \in Int :
           /\ o >= -1 /\ o < Total /\ a = 1
           /\ o >= 0 => InBody(c, o)
           /\ Unread[1] = Token(c, IF o = -1 THEN "tree" ELSE BodyToken(o + 1, FALSE))
           => InBody(c, o + 1)',
         GuestIsInOrder', GuestIsAhead'
  PROVE  ChannelInvariant'
<1>1. /\ ChannelTypeOK /\ CallsAreInOrder /\ StreamIsFramed
      /\ EventsAreInOrder /\ GuestIsAhead /\ RepliesAreWhole /\ AnswersAreTheirOwn
  BY DEF ChannelInvariant
<1>2. /\ EventsAreInOrder' /\ RepliesAreWhole'
      /\ \A j \in 1 .. Len(replies') :
           \/ \E i \in 1 .. Len(replies) : replies'[j].id = replies[i].id
           \/ AtWork /\ replies'[j].id = guest.id
           \/ a = 1 /\ replies'[j].id = Unread[1].id
  <2>1. CASE replies' = replies BY <1>1, <2>1 DEF EventsAreInOrder, RepliesAreWhole, EventOf
  <2>2. CASE \E m \in Messages :
               /\ replies' = Append(replies, m) /\ Answers(m)
               /\ (a = 1 /\ m.id = Unread[1].id) \/ (AtWork /\ m.id = guest.id)
    <3>1. PICK m \in Messages :
            /\ replies' = Append(replies, m) /\ Answers(m)
            /\ (a = 1 /\ m.id = Unread[1].id) \/ (AtWork /\ m.id = guest.id)
      BY <2>2
    <3>2. QED BY <1>1, <3>1, AnswerKeepsTheReplies
  <2>3. QED BY <2>1, <2>2
<1>3. StreamIsFramed' BY <1>1, <1>2, ReadingKeepsTheFraming
<1>4. Len(Unread) \in Nat /\ a \in 1 .. Len(Unread) BY <1>1, ChannelTypes DEF Removed
<1>5. \A i \in 1 .. Len(Unread') : \E j \in 1 .. Len(Unread) : Unread'[i] = Unread[j]
  BY <1>4, RemovedLeaves
<1>6. CallsAreInOrder'
  <2>1. a = 1 => 1 \in 1 .. Len(Unread) BY <1>4
  <2>2. \A i \in 1 .. Len(replies') :
          \/ \E j \in 1 .. Len(replies) : replies'[i].id = replies[j].id
          \/ \E j \in 1 .. Len(Unread) : replies'[i].id = Unread[j].id
          \/ replies'[i].id = guest.id
    BY <1>2, <2>1
  <2>3. \/ guest'.id \in {0, guest.id}
        \/ \E j \in 1 .. Len(Unread) : guest'.id = Unread[j].id
    BY <1>4
  <2>4. QED BY <1>1, <1>5, <2>2, <2>3, GuestKeepsTheCalls
<1>7. AnswersAreTheirOwn' BY <1>1, GuestKeepsTheAnswers
<1>8. QED BY <1>2, <1>3, <1>6, <1>7 DEF ChannelInvariant

(* Nothing of a body is read while the guest is elsewhere, nor by a token    *)
(* that is no part of a body.                                                *)
LEMMA NoBodyIsRead ==
  ASSUME guest.at # "tree", Unread[1].kind # "tree"
  PROVE  \A c \in CallIds, o \in Int :
           /\ o >= -1 /\ o < Total /\ 1 = 1
           /\ o >= 0 => InBody(c, o)
           /\ Unread[1] = Token(c, IF o = -1 THEN "tree" ELSE BodyToken(o + 1, FALSE))
           => InBody(c, o + 1)'
<1>1. ASSUME NEW c \in CallIds, NEW o \in Int, o >= -1, o >= 0 => InBody(c, o),
             Unread[1] = Token(c, IF o = -1 THEN "tree" ELSE BodyToken(o + 1, FALSE))
      PROVE  FALSE
  <2>1. ~(o >= 0) BY <1>1 DEF InBody
  <2>2. o = -1 BY <1>1, <2>1
  <2>3. Unread[1] = Token(c, "tree") BY <1>1, <2>2
  <2>4. QED BY <2>3 DEF Token
<1>2. QED BY <1>1

(* The first token the guest has not used.                                  *)
LEMMA FirstToken ==
  ASSUME ChannelInvariant, guest.at # "ended", buffer # <<>>, buffer' = Tail(buffer), wire' = wire
  PROVE  /\ ChannelTypeOK /\ Len(Unread) \in Nat
         /\ wire' \in Seq(Tokens) /\ buffer' \in Seq(Tokens)
         /\ Removed(1) /\ Unread[1] = Head(buffer) /\ 1 \in 1 .. Len(Unread)
         /\ Head(buffer) \in Tokens /\ Head(buffer).id \in CallIds
         /\ Head(buffer).kind \in OpKinds =>
              /\ settled[Head(buffer).id].op = Head(buffer).kind
              /\ \A j \in 1 .. Len(replies) : replies[j].id < Head(buffer).id
              /\ Head(buffer).id = caller.id => caller.seen = 0
<1>1. ChannelTypeOK /\ StreamIsFramed BY DEF ChannelInvariant
<1>2. Len(Unread) \in Nat /\ \A i \in 1 .. Len(Unread) : Unread[i] \in Tokens /\ Unread[i].id \in CallIds
  BY <1>1, ChannelTypes
<1>3. buffer' \in Seq(Tokens) /\ Removed(1) /\ Unread[1] = Head(buffer) BY <1>1, TokenUsed
<1>4. 1 \in 1 .. Len(Unread) BY <1>3 DEF Removed
<1>5. wire' \in Seq(Tokens) BY <1>1 DEF ChannelTypeOK
<1>6. RequestsAreCalls /\ UnreadIsUnanswered BY <1>1 DEF StreamIsFramed
<1>7. QED BY <1>1, <1>2, <1>3, <1>4, <1>5, <1>6 DEF RequestsAreCalls, UnreadIsUnanswered

(* The next request, or whatever stands where one should: what the guest    *)
(* does of it if it starts no work.                                         *)
LEMMA AnsweringKeeps ==
  ASSUME ChannelInvariant, guest.at = "serve", buffer # <<>>, buffer' = Tail(buffer),
         UNCHANGED <<caller, wire, settled, guest>>, lastAck' \in CallIds \cup {0},
         Head(buffer).kind # "tree",
         \/ replies' = replies
         \/ \E k \in {"ok", "err"} :
              /\ replies' = Append(replies, [Refusal(Head(buffer).id) EXCEPT !.kind = k])
              /\ k = "ok" => Head(buffer).kind = "plain"
  PROVE  ChannelInvariant'
<1> DEFINE t == Head(buffer)
<1>1. /\ ChannelTypeOK /\ Len(Unread) \in Nat /\ wire' \in Seq(Tokens) /\ buffer' \in Seq(Tokens)
      /\ Removed(1) /\ Unread[1] = t /\ t.id \in CallIds
      /\ t.kind \in OpKinds =>
           /\ settled[t.id].op = t.kind
           /\ \A j \in 1 .. Len(replies) : replies[j].id < t.id
  BY FirstToken
<1>2. ASSUME NEW k \in {"ok", "err"}, k = "ok" => t.kind = "plain"
      PROVE  /\ Answers([Refusal(t.id) EXCEPT !.kind = k])
             /\ [Refusal(t.id) EXCEPT !.kind = k] \in Messages
             /\ [Refusal(t.id) EXCEPT !.kind = k].id = Unread[1].id
  <2> DEFINE m == [Refusal(t.id) EXCEPT !.kind = k]
  <2>0. t.id \in CallIds BY <1>1
  <2>1. m \in Messages /\ m.id = t.id /\ m.kind = k /\ m.whole = TRUE BY <2>0, RefusalIsMessage
  <2> HIDE DEF m
  <2>2. m.kind = "ok" => settled[m.id].op = "plain" /\ \A j \in 1 .. Len(replies) : replies[j].id < m.id
    BY <1>1, <1>2, <2>1 DEF OpKinds
  <2>3. \A j \in 1 .. Len(replies) : replies[j].id \in Nat BY <1>1, ChannelTypes
  <2>4. m.kind = "ok" =>
          /\ m.whole /\ (settled[m.id].op = "tree" => m.files = Files)
          /\ \A j \in 1 .. Len(replies) :
               replies[j].kind = "event" /\ replies[j].id = m.id => replies[j].seq <= m.seq
          /\ m.id = caller.id /\ settled[m.id].op \in Streams =>
               m.seq = caller.seen \/ \E j \in 1 .. Len(replies) : EventOf(m.id, m.seq, j)
    BY <2>1, <2>2, <2>3 DEF Streams
  <2>5. Answers(m) BY <2>1, <2>4 DEF Answers
  <2>6. QED BY <1>1, <2>1, <2>5 DEF m
<1> HIDE DEF t
<1>3. \/ replies' = replies
      \/ \E m \in Messages :
           /\ replies' = Append(replies, m) /\ Answers(m)
           /\ (1 = 1 /\ m.id = Unread[1].id) \/ (AtWork /\ m.id = guest.id)
  BY <1>2 DEF t
<1>4. replies' \in Seq(Messages)
  <2>1. replies \in Seq(Messages) BY <1>1 DEF ChannelTypeOK
  <2>2. QED BY <1>3, <2>1, AppendProperties
<1>5. ChannelTypeOK' BY <1>1, <1>4 DEF ChannelTypeOK
<1>6. GuestIsInOrder' /\ GuestIsAhead' BY DEF GuestIsInOrder, GuestIsAhead, AtWork
<1>7. \A c \in CallIds, o \in Int :
        /\ o >= -1 /\ o < Total /\ 1 = 1
        /\ o >= 0 => InBody(c, o)
        /\ Unread[1] = Token(c, IF o = -1 THEN "tree" ELSE BodyToken(o + 1, FALSE))
        => InBody(c, o + 1)'
  BY <1>1, NoBodyIsRead DEF t
<1>8. guest'.id \in {0, guest.id, Unread[1].id} OBVIOUS
<1>9. QED BY <1>1, <1>3, <1>5, <1>6, <1>7, <1>8, UsingKeeps

(* A request that the guest starts to work on.                              *)
LEMMA StartingKeeps ==
  ASSUME ChannelInvariant, guest.at = "serve", buffer # <<>>, buffer' = Tail(buffer),
         UNCHANGED <<caller, wire, settled, replies>>, lastAck' \in CallIds \cup {0},
         NEW w \in {"tree", "output"}, NEW f \in BOOLEAN,
         guest' = [Begun(Head(buffer)) EXCEPT !.at = w, !.failed = f],
         IF w = "tree" THEN Head(buffer).kind = "tree" ELSE Head(buffer).kind \in Streams
  PROVE  ChannelInvariant'
<1> DEFINE t == Head(buffer)
<1>1. /\ ChannelTypeOK /\ Len(Unread) \in Nat /\ wire' \in Seq(Tokens) /\ buffer' \in Seq(Tokens)
      /\ Removed(1) /\ Unread[1] = t /\ t.id \in CallIds /\ t \in Tokens
      /\ t.kind \in OpKinds =>
           /\ settled[t.id].op = t.kind
           /\ \A j \in 1 .. Len(replies) : replies[j].id < t.id
           /\ t.id = caller.id => caller.seen = 0
  BY FirstToken
<1>2. t.kind \in OpKinds /\ (w = "tree" <=> t.kind = "tree") /\ (w = "output" => t.kind \in Streams)
  BY DEF OpKinds, Streams
<1> HIDE DEF t
<1>3. /\ guest'.at = w /\ guest'.id = t.id /\ guest'.op = t.kind /\ guest'.need = 0
      /\ guest'.files = 0 /\ guest'.whole = TRUE /\ guest'.seq = 0
  BY DEF Begun, NoRequest, t
<1>4. guest' \in Guests
  <2>1. 0 \in 0 .. Size BY ChannelAssumption
  <2>2. QED BY <1>1, <1>2, <2>1 DEF Begun, NoRequest, Guests, t
<1>5. ChannelTypeOK' BY <1>1, <1>4 DEF ChannelTypeOK
<1>6. /\ \A i \in 1 .. Len(replies) : replies[i].id \in Nat
      /\ \A i \in 1 .. Len(Unread) : Unread[i].id \in Nat
  BY <1>1, ChannelTypes
<1>7. TokensAreInOrder BY DEF ChannelInvariant, StreamIsFramed
<1>8. \A i \in 1 .. Len(Unread') :
        Before(1, i) \in 1 .. Len(Unread) /\ 1 < Before(1, i) /\ Unread'[i] = Unread[Before(1, i)]
  BY <1>1, RemovedPlaces
<1>9. \A i \in 1 .. Len(Unread') :
        IF Unread'[i].kind \in OpKinds THEN guest'.id < Unread'[i].id ELSE guest'.id <= Unread'[i].id
  <2>1. 1 \in 1 .. Len(Unread) BY <1>1 DEF Removed
  <2>2. QED BY <1>1, <1>3, <1>7, <1>8, <2>1 DEF TokensAreInOrder
<1>10. GuestIsInOrder' BY <1>1, <1>2, <1>3, <1>9 DEF GuestIsInOrder, AtWork
<1>11. GuestIsAhead' BY <1>1, <1>2, <1>3, <1>6 DEF GuestIsAhead, AtWork
<1>12. ASSUME NEW c \in CallIds, NEW o \in Int, o >= -1, o < Total, o >= 0 => InBody(c, o),
              Unread[1] = Token(c, IF o = -1 THEN "tree" ELSE BodyToken(o + 1, FALSE))
       PROVE  InBody(c, o + 1)'
  <2>1. ~(o >= 0) BY <1>12 DEF InBody
  <2>2. o = -1 /\ o + 1 = 0 BY <1>12, <2>1
  <2>3. Unread[1] = Token(c, "tree") BY <1>12, <2>2
  <2>4. t.id = c /\ t.kind = "tree" BY <1>1, <2>3 DEF Token
  <2>5. 0 * (Size + 1) - 0 = 0 BY ChannelAssumption
  <2>6. PICK z : z = o + 1 OBVIOUS
  <2>7. InBody(c, z)' BY <1>2, <1>3, <2>2, <2>4, <2>5, <2>6 DEF InBody
  <2>8. QED BY <2>6, <2>7
<1>13. guest'.id \in {0, guest.id, Unread[1].id} BY <1>1, <1>3
<1>14. QED BY <1>1, <1>5, <1>10, <1>11, <1>12, <1>13, UsingKeeps

(* A refusal is an error. *)
LEMMA RefusalIsErr ==
  ASSUME NEW i \in CallIds
  PROVE  Refusal(i) = [Refusal(i) EXCEPT !.kind = "err"]
<1>1. Refusal(i) \in Messages /\ Refusal(i).kind = "err" BY DEF Messages, Refusal
<1>2. \A m \in Messages : m.kind = "err" => m = [m EXCEPT !.kind = "err"] BY DEF Messages
<1>3. QED BY <1>1, <1>2

(* serve_stream reads a line and starts what it asks for, refuses it, or loses step. *)
LEMMA DispatchKeeps ==
  ASSUME ChannelInvariant, Dispatch
  PROVE  ChannelInvariant'
<1> DEFINE t == Head(buffer)
<1>1. /\ guest.at = "serve" /\ buffer # <<>> /\ buffer' = Tail(buffer)
      /\ UNCHANGED <<caller, wire, settled>>
  BY DEF Dispatch
<1>2. t \in Tokens /\ t.id \in CallIds /\ lastAck \in CallIds \cup {0} /\ guest.at # "ended"
  BY <1>1, FirstToken DEF ChannelTypeOK
<1>3. CASE t.kind = "plain"
  <2>1. AnswerPlain(t) BY <1>3 DEF Dispatch, Streams
  <2>2. QED BY <1>1, <1>2, <1>3, <2>1, AnsweringKeeps DEF AnswerPlain
<1>4. CASE t.kind = "tree"
  <2>1. StartTree(t) BY <1>4 DEF Dispatch, Streams
  <2>2. PICK f \in BOOLEAN : guest' = [Begun(t) EXCEPT !.at = "tree", !.failed = f]
    BY <2>1 DEF StartTree
  <2>3. UNCHANGED <<replies, lastAck>> BY <2>1 DEF StartTree
  <2>4. QED BY <1>1, <1>2, <1>4, <2>2, <2>3, StartingKeeps
<1>5. CASE t.kind \in Streams
  <2>1. StartStream(t) BY <1>5 DEF Dispatch, Streams
  <2>2. lastAck' \in CallIds \cup {0} BY <1>2, <2>1 DEF StartStream
  <2>3. CASE guest' = [Begun(t) EXCEPT !.at = "output"] /\ UNCHANGED replies
    <3>1. guest' = [Begun(t) EXCEPT !.at = "output", !.failed = FALSE]
      <4>1. Begun(t) \in Guests /\ Begun(t).failed = FALSE
        <5>1. 0 \in 0 .. Size BY ChannelAssumption
        <5>2. QED BY <1>2, <1>5, <5>1 DEF Begun, NoRequest, Guests, OpKinds, Streams
      <4>2. \A g \in Guests : g.failed = FALSE =>
              [g EXCEPT !.at = "output"] = [g EXCEPT !.at = "output", !.failed = FALSE]
        BY DEF Guests
      <4>3. QED BY <2>3, <4>1, <4>2
    <3>2. QED BY <1>1, <1>5, <2>2, <2>3, <3>1, StartingKeeps
  <2>4. CASE replies' = Append(replies, Refusal(t.id)) /\ UNCHANGED guest
    <3>1. Refusal(t.id) = [Refusal(t.id) EXCEPT !.kind = "err"] BY <1>2, RefusalIsErr
    <3>2. t.kind # "tree" BY <1>5 DEF Streams
    <3>3. QED BY <1>1, <2>2, <2>4, <3>1, <3>2, AnsweringKeeps
  <2>5. QED BY <2>1, <2>3, <2>4 DEF StartStream
<1>6. CASE t.kind \notin OpKinds
  <2>1. UNCHANGED <<guest, lastAck>> /\ (replies' = replies \/ replies' = Append(replies, Refusal(t.id)))
    <3>1. t.kind # "plain" /\ t.kind # "tree" /\ t.kind \notin Streams
      BY <1>6 DEF OpKinds, Streams
    <3>2. CASE t.kind = "ack" /\ t.id = lastAck BY <3>1, <3>2 DEF Dispatch
    <3>3. CASE ~(t.kind = "ack" /\ t.id = lastAck) BY <3>1, <3>3 DEF Dispatch
    <3>4. QED BY <3>2, <3>3
  <2>2. Refusal(t.id) = [Refusal(t.id) EXCEPT !.kind = "err"] BY <1>2, RefusalIsErr
  <2>3. t.kind # "tree" BY <1>6 DEF OpKinds
  <2>4. QED BY <1>1, <1>2, <2>1, <2>2, <2>3, AnsweringKeeps
<1>7. QED BY <1>3, <1>4, <1>5, <1>6 DEF OpKinds, Streams

-----------------------------------------------------------------------------
(* The body of a tree is read.                                              *)
LEMMA TreeGuest ==
  ASSUME ChannelInvariant, guest.at = "tree"
  PROVE  /\ guest \in Guests /\ guest.id \in CallIds /\ guest.op = "tree" /\ settled[guest.id].op = "tree"
         /\ guest.need \in 0 .. Size /\ guest.files \in Nat /\ guest.whole \in BOOLEAN
         /\ Total \in Nat /\ Size \in Nat
         /\ \A i \in 1 .. Len(replies) : replies[i].id # guest.id
<1>1. ChannelTypeOK /\ GuestIsInOrder /\ GuestIsAhead BY DEF ChannelInvariant, StreamIsFramed
<1>2. guest \in Guests /\ Total \in Nat BY <1>1, ChannelTypes DEF ChannelTypeOK
<1>3. guest.id \in CallIds /\ guest.op = "tree" /\ settled[guest.id].op = "tree"
  BY <1>1 DEF GuestIsInOrder, AtWork
<1>4. \A i \in 1 .. Len(replies) : replies[i].id # guest.id BY <1>1 DEF GuestIsAhead, AtWork
<1>5. guest.need \in 0 .. Size /\ guest.files \in Nat /\ guest.whole \in BOOLEAN
  BY <1>2 DEF Guests
<1>6. QED BY <1>2, <1>3, <1>4, <1>5, ChannelAssumption

(* The guest goes on with the body, and where in it.                        *)
LEMMA BodyGoesOn ==
  ASSUME ChannelInvariant, guest.at = "tree", buffer # <<>>, buffer' = Tail(buffer),
         UNCHANGED <<caller, wire, lastAck, settled, replies>>,
         guest' \in Guests, guest'.at = "tree", guest'.id = guest.id, guest'.op = guest.op,
         ASSUME NEW p \in Nat, p < Total, guest.whole, guest.files * (Size + 1) - guest.need = p,
                Head(buffer) = Token(guest.id, BodyToken(p + 1, FALSE))
         PROVE  guest'.whole /\ guest'.files * (Size + 1) - guest'.need = p + 1
  PROVE  ChannelInvariant'
<1>1. /\ ChannelTypeOK /\ wire' \in Seq(Tokens) /\ buffer' \in Seq(Tokens) /\ Len(Unread) \in Nat
      /\ Removed(1) /\ Unread[1] = Head(buffer)
  BY FirstToken
<1>2. /\ guest.id \in CallIds /\ Total \in Nat /\ settled[guest.id].op = guest.op /\ guest.op = "tree"
      /\ \A i \in 1 .. Len(replies) : replies[i].id # guest.id
  BY TreeGuest
<1>3. ChannelTypeOK' BY <1>1 DEF ChannelTypeOK
<1>4. GuestIsAhead' BY <1>2 DEF GuestIsAhead, AtWork
<1>5. GuestIsInOrder'
  <2>1. GuestIsInOrder BY DEF ChannelInvariant, StreamIsFramed
  <2>2. \A i \in 1 .. Len(Unread') :
          Before(1, i) \in 1 .. Len(Unread) /\ Unread'[i] = Unread[Before(1, i)]
    BY <1>1, RemovedPlaces
  <2>3. \A i \in 1 .. Len(Unread') :
          IF Unread'[i].kind \in OpKinds THEN guest.id < Unread'[i].id ELSE guest.id <= Unread'[i].id
    BY <2>1, <2>2 DEF GuestIsInOrder, AtWork
  <2>4. QED BY <1>2, <2>3 DEF GuestIsInOrder, AtWork
<1>6. ASSUME NEW c \in CallIds, NEW o \in Int, o >= -1, o < Total, o >= 0 => InBody(c, o),
             Unread[1] = Token(c, IF o = -1 THEN "tree" ELSE BodyToken(o + 1, FALSE))
      PROVE  InBody(c, o + 1)'
  <2>1. PICK z \in Int : z = o + 1 OBVIOUS
  <2>2. CASE guest.id < c BY <2>1, <2>2 DEF InBody
  <2>3. CASE ~(guest.id < c)
    <3>1. Unread[1].id = c BY <1>6 DEF Token
    <3>2. guest.id <= c
      <4>1. 1 \in 1 .. Len(Unread) BY <1>1 DEF Removed
      <4>2. GuestIsInOrder BY DEF ChannelInvariant, StreamIsFramed
      <4>3. guest.id \in Nat /\ Unread[1].id \in Nat BY <1>1, <4>1, ChannelTypes
      <4>4. QED BY <3>1, <4>1, <4>2, <4>3 DEF GuestIsInOrder, AtWork
    <3>3. guest.id = c /\ c \in Nat BY <1>2, <2>3, <3>2 DEF CallIds
    <3>4. o # -1
      <4>1. o = -1 => Unread[1].kind = "tree" BY <1>6 DEF Token
      <4>2. 1 \in 1 .. Len(Unread) BY <1>1 DEF Removed
      <4>3. GuestIsInOrder BY DEF ChannelInvariant, StreamIsFramed
      <4>4. Unread[1].kind \in OpKinds => guest.id < c
        BY <3>1, <4>2, <4>3 DEF GuestIsInOrder, AtWork
      <4>5. QED BY <2>3, <4>1, <4>4 DEF OpKinds
    <3>5. o \in Nat /\ InBody(c, o) BY <1>6, <3>4
    <3>6. guest.whole /\ guest.files * (Size + 1) - guest.need = o
      BY <2>3, <3>5 DEF InBody
    <3>7. Head(buffer) = Token(guest.id, BodyToken(o + 1, FALSE)) BY <1>1, <1>6, <3>3, <3>4
    <3>8. guest'.whole /\ guest'.files * (Size + 1) - guest'.need = o + 1
      BY <1>6, <3>5, <3>6, <3>7
    <3>9. InBody(c, z)' BY <2>1, <3>3, <3>8 DEF InBody
    <3>10. QED BY <2>1, <3>9
  <2>4. QED BY <2>2, <2>3
<1>7. guest'.id \in {0, guest.id, Unread[1].id} OBVIOUS
<1>8. QED BY <1>1, <1>3, <1>4, <1>5, <1>6, <1>7, UsingKeeps

(* The body ends.                                                           *)
LEMMA BodyIsOver ==
  ASSUME ChannelInvariant, guest.at = "tree", buffer # <<>>, buffer' = Tail(buffer),
         UNCHANGED <<caller, wire, lastAck, settled>>,
         Head(buffer).id = guest.id, Head(buffer).kind \in {"end", "abort"},
         NEW k \in {"ok", "err"}, Return(Reply(k)),
         k = "ok" => Head(buffer).kind = "end" /\ guest.need = 0
  PROVE  ChannelInvariant'
<1> DEFINE m == Reply(k)
<1>1. /\ ChannelTypeOK /\ wire' \in Seq(Tokens) /\ buffer' \in Seq(Tokens) /\ Len(Unread) \in Nat
      /\ Removed(1) /\ Unread[1] = Head(buffer) /\ 1 \in 1 .. Len(Unread)
  BY FirstToken
<1>2. /\ guest.id \in CallIds /\ Total \in Nat /\ settled[guest.id].op = "tree"
      /\ guest.files \in Nat /\ guest.need \in 0 .. Size
      /\ \A i \in 1 .. Len(replies) : replies[i].id # guest.id
  BY TreeGuest
<1>3. m \in Messages /\ m.id = guest.id /\ m.kind = k /\ m.whole = guest.whole /\ m.files = guest.files
  BY <1>1, <1>2, ReplyIsMessage
<1> HIDE DEF m
<1>4. replies' = Append(replies, m) /\ guest' = NoRequest BY DEF Return, m
<1>5. guest'.at = "serve" /\ guest'.id = 0 /\ guest' \in Guests
  <2>1. 0 \in 0 .. Size BY ChannelAssumption
  <2>2. QED BY <1>4, <2>1 DEF NoRequest, Guests
<1>6. replies' \in Seq(Messages) BY <1>1, <1>3, <1>4, AppendProperties DEF ChannelTypeOK
<1>7. ChannelTypeOK' BY <1>1, <1>5, <1>6 DEF ChannelTypeOK
<1>8. GuestIsInOrder' /\ GuestIsAhead' BY <1>5 DEF GuestIsInOrder, GuestIsAhead, AtWork
<1>9. k = "ok" => guest.whole /\ guest.files = Files
  <2>1. ASSUME k = "ok" PROVE guest.whole /\ guest.files = Files
    <3>1. Unread[1].kind = "end" /\ Unread[1].id = guest.id /\ guest.need = 0 BY <1>1, <2>1
    <3>2. EndsAreRuns BY DEF ChannelInvariant, StreamIsFramed
    <3>3. PICK z \in Int : z = Total + 1 - 1 BY <1>2
    <3>4. Run(guest.id, 1, z) BY <1>1, <3>1, <3>2, <3>3 DEF EndsAreRuns
    <3>5. z = Total /\ z >= 0 BY <1>2, <3>3
    <3>6. InBody(guest.id, z) BY <3>4, <3>5 DEF Run
    <3>7. ~(guest.id < guest.id) BY <1>2 DEF CallIds
    <3>8. guest.whole /\ guest.files * (Size + 1) - guest.need = z BY <3>6, <3>7 DEF InBody
    <3>9. z \in Nat BY <3>5
    <3>10. guest.files = Files BY <1>2, <3>1, <3>5, <3>8, <3>9, BodyIsAt
    <3>11. QED BY <3>8, <3>10
  <2>2. QED BY <2>1
<1>10. Answers(m)
  <2>1. m.kind # "event" BY <1>3
  <2>2. m.kind = "ok" => m.whole /\ (settled[m.id].op = "tree" => m.files = Files) BY <1>3, <1>9
  <2>3. \A j \in 1 .. Len(replies) : replies[j].id # m.id BY <1>2, <1>3
  <2>4. settled[m.id].op \notin Streams BY <1>2, <1>3 DEF Streams
  <2>5. QED BY <1>3, <2>1, <2>2, <2>3, <2>4 DEF Answers
<1>11. ASSUME NEW c \in CallIds, NEW o \in Int, o >= -1, o < Total, o >= 0 => InBody(c, o),
              Unread[1] = Token(c, IF o = -1 THEN "tree" ELSE BodyToken(o + 1, FALSE))
       PROVE  FALSE
  <2>1. Unread[1].kind \in {"end", "abort"} BY <1>1
  <2>2. Unread[1].kind = IF o = -1 THEN "tree" ELSE BodyToken(o + 1, FALSE) BY <1>11 DEF Token
  <2>3. o # -1 BY <2>1, <2>2
  <2>4. PICK z \in Nat : z = o + 1 BY <1>11, <2>3
  <2>5. BodyToken(z, FALSE) \in {"end", "abort"} BY <2>1, <2>2, <2>3, <2>4
  <2>6. z = Total + 1 BY <2>5, BodyIsBody
  <2>7. QED BY <1>2, <1>11, <2>4, <2>6
<1>12. /\ replies' = Append(replies, m) /\ Answers(m)
       /\ (1 = 1 /\ m.id = Unread[1].id) \/ (AtWork /\ m.id = guest.id)
  BY <1>1, <1>3, <1>4, <1>10
<1>13. guest'.id \in {0, guest.id, Unread[1].id} BY <1>5
<1>14. QED BY <1>1, <1>3, <1>7, <1>8, <1>11, <1>12, <1>13, UsingKeeps

(* op_put_tree reads an entry of the tree, its end, or what is none. *)
LEMMA ReadFrameKeeps ==
  ASSUME ChannelInvariant, ReadFrame
  PROVE  ChannelInvariant'
<1> DEFINE t == Head(buffer)
<1>1. /\ guest.at = "tree" /\ guest.need = 0 /\ buffer # <<>> /\ buffer' = Tail(buffer)
      /\ UNCHANGED <<caller, wire, lastAck, settled>>
  BY DEF ReadFrame
<1>2. /\ guest \in Guests /\ guest.files \in Nat /\ Size \in Nat /\ Total \in Nat /\ guest.id \in CallIds
  BY <1>1, TreeGuest
<1>3. /\ wire' \in Seq(Tokens) /\ buffer' \in Seq(Tokens) /\ Len(Unread) \in Nat /\ Removed(1)
  BY <1>1, FirstToken
<1>4. CASE IsFrame(t) /\ t.kind = "file"
  <2>1. PICK bad \in {guest.failed, TRUE} :
          guest' = [guest EXCEPT !.need = Size, !.failed = bad, !.files = guest.files + 1]
    BY <1>4 DEF ReadFrame
  <2>2. UNCHANGED replies BY <1>4 DEF ReadFrame
  <2> DEFINE n == guest.files + 1
  <2>3. n \in Nat /\ n = guest.files + 1 BY <1>2
  <2>4. bad \in BOOLEAN BY <1>2 DEF Guests
  <2>5. guest' = [guest EXCEPT !.need = Size, !.failed = bad, !.files = n] BY <2>1
  <2> HIDE DEF n
  <2>6. Size \in 0 .. Size BY <1>2
  <2>7. /\ guest' \in Guests /\ guest'.at = guest.at /\ guest'.id = guest.id /\ guest'.op = guest.op
        /\ guest'.need = Size /\ guest'.files = n /\ guest'.whole = guest.whole
    BY <1>2, <2>3, <2>4, <2>5, <2>6 DEF Guests
  <2>8. ASSUME NEW p \in Nat, guest.whole, guest.files * (Size + 1) - guest.need = p
        PROVE  guest'.whole /\ guest'.files * (Size + 1) - guest'.need = p + 1
    <3>1. n * (Size + 1) = guest.files * (Size + 1) + (Size + 1) BY <1>2, <2>3
    <3>2. guest.files * (Size + 1) \in Nat BY <1>2
    <3>3. guest.files * (Size + 1) = p BY <1>1, <2>8, <3>2
    <3>4. n * (Size + 1) - Size = p + 1 BY <1>2, <3>1, <3>3
    <3>5. QED BY <2>7, <2>8, <3>4
  <2>9. QED BY <1>1, <2>2, <2>7, <2>8, BodyGoesOn
<1>5. CASE IsFrame(t) /\ t.kind = "end"
  <2>1. Return(Reply(IF guest.failed THEN "err" ELSE "ok")) BY <1>5 DEF ReadFrame
  <2>2. t.id = guest.id BY <1>5 DEF IsFrame
  <2>3. CASE guest.failed
    <3>1. Return(Reply("err")) BY <2>1, <2>3
    <3>2. QED BY <1>1, <1>5, <2>2, <3>1, BodyIsOver
  <2>4. CASE ~guest.failed
    <3>1. Return(Reply("ok")) BY <2>1, <2>4
    <3>2. QED BY <1>1, <1>5, <2>2, <3>1, BodyIsOver
  <2>5. QED BY <2>3, <2>4
<1>6. CASE IsFrame(t) /\ t.kind = "abort"
  <2>1. Return(Reply("err")) BY <1>6 DEF ReadFrame
  <2>2. t.id = guest.id BY <1>6 DEF IsFrame
  <2>3. QED BY <1>1, <1>6, <2>1, <2>2, BodyIsOver
<1>7. CASE ~IsFrame(t)
  <2>1. Desync BY <1>7 DEF ReadFrame
  <2>2. QED BY <1>1, <1>3, <2>1, DesyncKeeps, RemovedLeaves DEF AtWork
<1>8. QED BY <1>4, <1>5, <1>6, <1>7 DEF IsFrame

(* _copy reads a block of a file, or what comes instead of it. *)
LEMMA ReadBlockKeeps ==
  ASSUME ChannelInvariant, ReadBlock
  PROVE  ChannelInvariant'
<1> DEFINE t == Head(buffer)
<1>1. /\ guest.at = "tree" /\ guest.need > 0 /\ buffer # <<>> /\ buffer' = Tail(buffer)
      /\ UNCHANGED <<caller, wire, lastAck, settled>>
  BY DEF ReadBlock
<1>2. /\ guest \in Guests /\ guest.files \in Nat /\ guest.need \in 0 .. Size /\ guest.whole \in BOOLEAN
      /\ Size \in Nat /\ Total \in Nat /\ guest.id \in CallIds
  BY <1>1, TreeGuest
<1>3. /\ wire' \in Seq(Tokens) /\ buffer' \in Seq(Tokens) /\ Len(Unread) \in Nat /\ Removed(1)
  BY <1>1, FirstToken
<1>4. ASSUME NEW p \in Nat, guest.files * (Size + 1) - guest.need = p,
             t = Token(guest.id, BodyToken(p + 1, FALSE))
      PROVE  t.kind = "block" /\ t.id = guest.id
  <2>1. PICK f \in Nat, d \in 0 .. Size : f = guest.files /\ d = guest.need BY <1>2
  <2>2. p = f * (Size + 1) - d BY <1>4, <2>1, Zenon
  <2>3. d > 0 BY <1>1, <2>1
  <2>4. d > 0 => BodyToken(p + 1, FALSE) = "block" BY <2>2, BodyIsAt, Zenon
  <2>5. BodyToken(p + 1, FALSE) = "block" BY <2>3, <2>4
  <2>6. t = Token(guest.id, "block") BY <1>4, <2>5, Zenon
  <2>7. QED BY <2>6 DEF Token
<1> HIDE DEF t
<1>5. CASE t.kind \in {"block", "pad"}
  <2> DEFINE n == guest.need - 1
             w == guest.whole /\ t.kind = "block" /\ t.id = guest.id
  <2>1. guest' = [guest EXCEPT !.need = n, !.whole = w] /\ UNCHANGED replies
    BY <1>5 DEF ReadBlock, t
  <2>2. n \in 0 .. Size /\ w \in BOOLEAN /\ n = guest.need - 1 BY <1>1, <1>2
  <2>3. w <=> (guest.whole /\ t.kind = "block" /\ t.id = guest.id) OBVIOUS
  <2> HIDE DEF n, w
  <2>4. /\ guest' \in Guests /\ guest'.at = guest.at /\ guest'.id = guest.id /\ guest'.op = guest.op
        /\ guest'.need = n /\ guest'.files = guest.files /\ guest'.whole = w
    BY <1>2, <2>1, <2>2 DEF Guests
  <2>5. ASSUME NEW p \in Nat, guest.whole, guest.files * (Size + 1) - guest.need = p,
               t = Token(guest.id, BodyToken(p + 1, FALSE))
        PROVE  guest'.whole /\ guest'.files * (Size + 1) - guest'.need = p + 1
    <3>1. w BY <1>4, <2>3, <2>5
    <3>2. guest.files * (Size + 1) \in Nat BY <1>2
    <3>3. guest.files * (Size + 1) - n = p + 1 BY <1>2, <2>2, <2>5, <3>2
    <3>4. QED BY <2>4, <3>1, <3>3
  <2>6. QED BY <1>1, <2>1, <2>4, <2>5, BodyGoesOn DEF t
<1>6. CASE t.kind \notin {"block", "pad"}
  <2>1. \/ (\E n \in {0, guest.need} : guest' = [guest EXCEPT !.need = n, !.whole = FALSE]) /\ UNCHANGED replies
        \/ Desync
    BY <1>6 DEF ReadBlock, t
  <2>2. CASE (\E n \in {0, guest.need} : guest' = [guest EXCEPT !.need = n, !.whole = FALSE]) /\ UNCHANGED replies
    <3>1. PICK n \in {0, guest.need} : guest' = [guest EXCEPT !.need = n, !.whole = FALSE]
      BY <2>2
    <3>2. n \in 0 .. Size BY <1>2
    <3>3. guest' \in Guests /\ guest'.at = guest.at /\ guest'.id = guest.id /\ guest'.op = guest.op
      BY <1>2, <3>1, <3>2 DEF Guests
    <3>4. ASSUME NEW p \in Nat, guest.files * (Size + 1) - guest.need = p,
                 t = Token(guest.id, BodyToken(p + 1, FALSE))
          PROVE  FALSE
      BY <1>4, <1>6, <3>4
    <3>5. QED BY <1>1, <2>2, <3>3, <3>4, BodyGoesOn DEF t
  <2>3. CASE Desync BY <1>1, <1>3, <2>3, DesyncKeeps, RemovedLeaves DEF AtWork
  <2>4. QED BY <2>1, <2>2, <2>3
<1>7. QED BY <1>5, <1>6

-----------------------------------------------------------------------------
(* A command's output, or a file's.                                         *)
LEMMA OutputGuest ==
  ASSUME ChannelInvariant, guest.at = "output"
  PROVE  /\ guest \in Guests /\ guest.id \in CallIds /\ guest.seq \in Nat /\ guest.whole
         /\ guest.op \in Streams /\ settled[guest.id].op = guest.op
         /\ \A i \in 1 .. Len(replies) : replies[i].id = guest.id =>
              replies[i].kind = "event" /\ replies[i].seq <= guest.seq
         /\ guest.id = caller.id =>
              guest.seq = caller.seen \/ \E i \in 1 .. Len(replies) : EventOf(guest.id, guest.seq, i)
         /\ \A i \in 1 .. Len(Unread) :
              IF Unread[i].kind \in OpKinds THEN guest.id < Unread[i].id ELSE guest.id <= Unread[i].id
<1>1. ChannelTypeOK /\ GuestIsInOrder /\ GuestIsAhead BY DEF ChannelInvariant, StreamIsFramed
<1>2. guest \in Guests /\ guest.seq \in Nat BY <1>1, ChannelTypes DEF ChannelTypeOK
<1>3. QED BY <1>1, <1>2 DEF GuestIsInOrder, GuestIsAhead, AtWork

(* The guest's output does not touch what is unread.                        *)
LEMMA WorkKeepsTheFraming ==
  ASSUME ChannelInvariant, guest.at = "output", UNCHANGED <<caller, settled>>, Unread' = Unread,
         guest'.at \in {"serve", "output"}, GuestIsInOrder',
         \A j \in 1 .. Len(replies') :
           replies'[j].id = guest.id \/ \E i \in 1 .. Len(replies) : replies'[j].id = replies[i].id
  PROVE  StreamIsFramed'
<1>1. /\ TokensAreInOrder /\ RequestsAreCalls /\ GuestIsInOrder /\ UnreadIsUnanswered
      /\ SentIsARun /\ EndsAreRuns
  BY DEF ChannelInvariant, StreamIsFramed
<1>2. \A c, o : ~InBody(c, o) BY DEF InBody
<1>3. ASSUME NEW c, NEW k, NEW o, Run(c, k, o) PROVE Run(c, k, o)'
  <2>1. ~(o >= 0) BY <1>2, <1>3 DEF Run
  <2>2. QED BY <1>3, <2>1 DEF Run, Token, BodyToken
<1>4. TokensAreInOrder' /\ RequestsAreCalls' BY <1>1 DEF TokensAreInOrder, RequestsAreCalls
<1>5. \A i \in 1 .. Len(Unread) : Unread[i].kind \in OpKinds => guest.id < Unread[i].id
  BY OutputGuest
<1>6. UnreadIsUnanswered' BY <1>1, <1>5 DEF UnreadIsUnanswered
<1>7. SentIsARun' BY <1>1, <1>3 DEF SentIsARun, Total
<1>8. EndsAreRuns' BY <1>1, <1>3 DEF EndsAreRuns, Total
<1>9. QED BY <1>4, <1>6, <1>7, <1>8 DEF StreamIsFramed

(* The process of a stream writes its next event and waits for it, if that is
   acknowledged. *)
LEMMA EmitKeeps ==
  ASSUME ChannelInvariant, Emit
  PROVE  ChannelInvariant'
<1> DEFINE n == guest.seq + 1
           m == [Reply("event") EXCEPT !.seq = n]
           a == Acked(guest.op)
<1>1. /\ guest.at = "output" /\ replies' = Append(replies, m)
      /\ guest' = [guest EXCEPT !.seq = n, !.awaiting = a]
      /\ UNCHANGED <<caller, wire, buffer, lastAck, settled>>
  BY DEF Emit, Reply
<1>2. /\ ChannelTypeOK /\ CallsAreInOrder /\ StreamIsFramed /\ GuestIsInOrder
      /\ EventsAreInOrder /\ GuestIsAhead /\ RepliesAreWhole /\ AnswersAreTheirOwn
  BY <1>1 DEF ChannelInvariant, StreamIsFramed
<1>3. /\ guest \in Guests /\ guest.id \in CallIds /\ guest.seq \in Nat /\ guest.whole
      /\ guest.op \in Streams /\ settled[guest.id].op = guest.op
      /\ \A i \in 1 .. Len(replies) : replies[i].id = guest.id =>
           replies[i].kind = "event" /\ replies[i].seq <= guest.seq
      /\ guest.id = caller.id =>
           guest.seq = caller.seen \/ \E i \in 1 .. Len(replies) : EventOf(guest.id, guest.seq, i)
      /\ \A i \in 1 .. Len(Unread) :
           IF Unread[i].kind \in OpKinds THEN guest.id < Unread[i].id ELSE guest.id <= Unread[i].id
  BY <1>1, OutputGuest
<1>4. n \in Nat /\ n = guest.seq + 1 /\ n - 1 = guest.seq /\ a \in BOOLEAN
  BY <1>3, ChannelAssumption DEF Acked
<1> HIDE DEF n, a
<1>5. m \in Messages /\ m.id = guest.id /\ m.kind = "event" /\ m.seq = n
  <2>1. Reply("event") \in Messages /\ Reply("event").id = guest.id /\ Reply("event").kind = "event"
    BY <1>2, <1>3, ReplyIsMessage
  <2>2. QED BY <1>4, <2>1 DEF Messages
<1> HIDE DEF m
<1>6. /\ guest' \in Guests /\ guest'.at = "output" /\ guest'.id = guest.id /\ guest'.op = guest.op
      /\ guest'.whole = guest.whole /\ guest'.seq = n
  BY <1>1, <1>3, <1>4 DEF Guests
<1>7. Len(replies) \in Nat /\ replies \in Seq(Messages) /\ caller.seen \in Nat
      /\ \A i \in 1 .. Len(replies) : replies[i].seq \in Nat
  BY <1>2, ChannelTypes DEF ChannelTypeOK
<1>8. /\ replies' \in Seq(Messages) /\ Len(replies') = Len(replies) + 1 /\ replies'[Len(replies) + 1] = m
      /\ \A i \in 1 .. Len(replies) : replies'[i] = replies[i]
  BY <1>1, <1>5, <1>7, AppendProperties
<1>9. ChannelTypeOK' BY <1>1, <1>2, <1>6, <1>8 DEF ChannelTypeOK
<1>10. Unread' = Unread BY <1>1 DEF Unread
<1>11. \A j \in 1 .. Len(replies') :
         replies'[j].id = guest.id \/ \E i \in 1 .. Len(replies) : replies'[j].id = replies[i].id
  BY <1>5, <1>7, <1>8
<1>12. CallsAreInOrder' BY <1>1, <1>2, <1>6, <1>10, <1>11, GuestKeepsTheCalls
<1>13. GuestIsInOrder' BY <1>1, <1>2, <1>6, <1>10 DEF GuestIsInOrder, AtWork
<1>14. StreamIsFramed' BY <1>1, <1>6, <1>10, <1>11, <1>13, WorkKeepsTheFraming
<1>15. /\ \A i \in 1 .. Len(replies) : replies[i].id = m.id =>
            replies[i].kind = "event" /\ replies[i].seq < m.seq
       /\ m.id = caller.id =>
            \/ m.seq = caller.seen + 1
            \/ m.seq > caller.seen + 1 /\ \E j \in 1 .. Len(replies) : EventOf(m.id, m.seq - 1, j)
  <2>1. \A i \in 1 .. Len(replies) : replies[i].id = m.id =>
          replies[i].kind = "event" /\ replies[i].seq < m.seq
    BY <1>3, <1>4, <1>5, <1>7
  <2>2. ASSUME m.id = caller.id, guest.seq # caller.seen
        PROVE  m.seq > caller.seen + 1 /\ \E j \in 1 .. Len(replies) : EventOf(m.id, m.seq - 1, j)
    <3>1. PICK i \in 1 .. Len(replies) : EventOf(guest.id, guest.seq, i) BY <1>3, <1>5, <2>2
    <3>2. replies[i].kind = "event" /\ replies[i].id = caller.id /\ replies[i].seq = guest.seq
      BY <1>5, <2>2, <3>1 DEF EventOf
    <3>3. guest.seq >= caller.seen + 1 BY <1>2, <1>7, <3>2 DEF EventsAreInOrder
    <3>4. m.seq - 1 = guest.seq BY <1>4, <1>5
    <3>5. QED BY <1>3, <1>4, <1>5, <1>7, <3>1, <3>3, <3>4
  <2>3. guest.seq = caller.seen => m.seq = caller.seen + 1 BY <1>4, <1>5
  <2>4. QED BY <2>1, <2>2, <2>3
<1>16. EventsAreInOrder' /\ RepliesAreWhole' BY <1>1, <1>2, <1>5, <1>15, AnswersKeepTheReplies
<1>17. GuestIsAhead'
  <2>1. ASSUME NEW i \in 1 .. Len(replies'), replies'[i].id = guest'.id
        PROVE  replies'[i].kind = "event" /\ replies'[i].seq <= guest'.seq
    <3>1. CASE i = Len(replies) + 1 BY <1>4, <1>5, <1>6, <1>8, <3>1
    <3>2. CASE i \in 1 .. Len(replies)
      <4>1. replies'[i] = replies[i] /\ guest'.id = guest.id /\ guest'.seq = guest.seq + 1
        BY <1>4, <1>6, <1>8, <3>2
      <4>2. replies[i].id = guest.id BY <2>1, <4>1
      <4>3. replies[i].kind = "event" /\ replies[i].seq <= guest.seq BY <1>3, <3>2, <4>2
      <4>4. replies[i].seq \in Nat BY <1>7, <3>2
      <4>5. QED BY <1>4, <4>1, <4>3, <4>4
    <3>3. QED BY <1>7, <1>8, <3>1, <3>2
  <2>2. Len(replies) + 1 \in 1 .. Len(replies') BY <1>7, <1>8
  <2>3. \E i \in 1 .. Len(replies') :
          replies'[i].id = guest'.id /\ replies'[i].kind = "event" /\ replies'[i].seq = guest'.seq
    BY <1>5, <1>6, <1>8, <2>2
  <2>4. QED BY <1>6, <2>1, <2>3 DEF GuestIsAhead, EventOf
<1>18. AnswersAreTheirOwn' BY <1>1, <1>2, GuestKeepsTheAnswers
<1>19. QED BY <1>9, <1>12, <1>14, <1>16, <1>17, <1>18 DEF ChannelInvariant

(* The process of a stream ends, and the request is answered. *)
LEMMA ExitKeeps ==
  ASSUME ChannelInvariant, Exit
  PROVE  ChannelInvariant'
<1>1. /\ guest.at = "output" /\ UNCHANGED <<caller, wire, buffer, lastAck, settled>>
  BY DEF Exit
<1>2. PICK k \in {"ok", "err"} : Return(Reply(k)) BY DEF Exit
<1> DEFINE m == Reply(k)
<1>3. /\ ChannelTypeOK /\ CallsAreInOrder /\ EventsAreInOrder /\ RepliesAreWhole /\ AnswersAreTheirOwn
  BY DEF ChannelInvariant
<1>4. /\ guest.id \in CallIds /\ guest.whole
      /\ guest.op \in Streams /\ settled[guest.id].op = guest.op
      /\ \A i \in 1 .. Len(replies) : replies[i].id = guest.id =>
           replies[i].kind = "event" /\ replies[i].seq <= guest.seq
      /\ guest.id = caller.id =>
           guest.seq = caller.seen \/ \E i \in 1 .. Len(replies) : EventOf(guest.id, guest.seq, i)
  BY <1>1, OutputGuest
<1>5. m \in Messages /\ m.id = guest.id /\ m.kind = k /\ m.whole = guest.whole /\ m.seq = guest.seq
  BY <1>3, <1>4, ReplyIsMessage
<1> HIDE DEF m
<1>6. replies' = Append(replies, m) /\ guest' = NoRequest BY <1>2 DEF Return, m
<1>7. guest'.at = "serve" /\ guest'.id = 0 /\ guest' \in Guests
  <2>1. 0 \in 0 .. Size BY ChannelAssumption
  <2>2. QED BY <1>6, <2>1 DEF NoRequest, Guests
<1>8. replies' \in Seq(Messages) BY <1>3, <1>5, <1>6, AppendProperties DEF ChannelTypeOK
<1>9. ChannelTypeOK' BY <1>1, <1>3, <1>7, <1>8 DEF ChannelTypeOK
<1>10. GuestIsInOrder' /\ GuestIsAhead' BY <1>7 DEF GuestIsInOrder, GuestIsAhead, AtWork
<1>11. Answers(m)
  <2>1. settled[m.id].op # "tree" BY <1>4, <1>5 DEF Streams
  <2>2. \A j \in 1 .. Len(replies) :
          replies[j].kind = "event" /\ replies[j].id = m.id => replies[j].seq <= m.seq
    BY <1>4, <1>5
  <2>3. m.id = caller.id => m.seq = caller.seen \/ \E j \in 1 .. Len(replies) : EventOf(m.id, m.seq, j)
    BY <1>4, <1>5
  <2>4. QED BY <1>4, <1>5, <2>1, <2>2, <2>3 DEF Answers
<1>12. /\ EventsAreInOrder' /\ RepliesAreWhole'
       /\ \A i \in 1 .. Len(replies') :
            replies'[i].id = guest.id \/ \E j \in 1 .. Len(replies) : replies'[i].id = replies[j].id
  BY <1>1, <1>3, <1>5, <1>6, <1>11, AnswerKeepsTheReplies
<1>13. Unread' = Unread BY <1>1 DEF Unread
<1>14. CallsAreInOrder' BY <1>1, <1>3, <1>7, <1>12, <1>13, GuestKeepsTheCalls
<1>15. StreamIsFramed' BY <1>1, <1>7, <1>10, <1>12, <1>13, WorkKeepsTheFraming
<1>16. AnswersAreTheirOwn' BY <1>1, <1>3, GuestKeepsTheAnswers
<1>17. QED BY <1>9, <1>10, <1>12, <1>14, <1>15, <1>16 DEF ChannelInvariant

(* The guest reads the acknowledgement it waits for, or something else. *)
LEMMA ReadAckKeeps ==
  ASSUME ChannelInvariant, ReadAck
  PROVE  ChannelInvariant'
<1>1. /\ guest.at = "output" /\ wire # <<>> /\ wire' = Tail(wire)
      /\ UNCHANGED <<caller, buffer, lastAck, settled>>
  BY DEF ReadAck
<1>2. ChannelTypeOK /\ GuestIsInOrder /\ GuestIsAhead
  BY <1>1 DEF ChannelInvariant, StreamIsFramed
<1>3. /\ wire' \in Seq(Tokens) /\ buffer' \in Seq(Tokens) /\ Removed(Len(buffer) + 1)
      /\ Unread[Len(buffer) + 1] = Head(wire)
  BY <1>1, <1>2, AckOvertakes DEF ChannelTypeOK
<1>4. PICK a : a = Len(buffer) + 1 OBVIOUS
<1>5. Removed(a) /\ Unread[a] = Head(wire) BY <1>3, <1>4
<1>6. Len(Unread) \in Nat BY <1>2, ChannelTypes
<1>7. CASE guest.awaiting /\ Head(wire) = Ack(guest.id, guest.seq)
  <2>1. guest' = [guest EXCEPT !.awaiting = FALSE] /\ replies' = replies BY <1>7 DEF ReadAck
  <2>2. Unread[a].kind = "ack" BY <1>5, <1>7 DEF Ack
  <2>3. guest \in Guests BY <1>2 DEF ChannelTypeOK
  <2>4. /\ guest' \in Guests /\ guest'.at = "output" /\ guest'.id = guest.id /\ guest'.op = guest.op
        /\ guest'.whole = guest.whole /\ guest'.seq = guest.seq
    BY <1>1, <2>1, <2>3 DEF Guests
  <2>5. ChannelTypeOK' BY <1>1, <1>2, <1>3, <2>1, <2>4 DEF ChannelTypeOK
  <2>6. GuestIsInOrder'
    <3>1. \A i \in 1 .. Len(Unread') : \E j \in 1 .. Len(Unread) : Unread'[i] = Unread[j]
      BY <1>5, <1>6, RemovedLeaves
    <3>2. \A i \in 1 .. Len(Unread') :
            IF Unread'[i].kind \in OpKinds THEN guest'.id < Unread'[i].id ELSE guest'.id <= Unread'[i].id
      BY <1>1, <1>2, <2>4, <3>1 DEF GuestIsInOrder, AtWork
    <3>3. QED BY <1>1, <1>2, <2>4, <3>2 DEF GuestIsInOrder, AtWork
  <2>7. GuestIsAhead' BY <1>1, <1>2, <2>1, <2>4 DEF GuestIsAhead, AtWork, EventOf
  <2>8. \A c \in CallIds, o \in Int :
          /\ o >= -1 /\ o < Total /\ a = 1
          /\ o >= 0 => InBody(c, o)
          /\ Unread[1] = Token(c, IF o = -1 THEN "tree" ELSE BodyToken(o + 1, FALSE))
          => InBody(c, o + 1)'
    <3>1. ASSUME a = 1
          PROVE  \A c \in CallIds, o \in Int :
                   /\ o >= -1 /\ o < Total /\ 1 = 1
                   /\ o >= 0 => InBody(c, o)
                   /\ Unread[1] = Token(c, IF o = -1 THEN "tree" ELSE BodyToken(o + 1, FALSE))
                   => InBody(c, o + 1)'
      <4>1. guest.at # "tree" /\ Unread[1].kind # "tree" BY <1>1, <2>2, <3>1
      <4>2. QED BY <4>1, NoBodyIsRead
    <3>2. QED BY <3>1
  <2>9. guest'.id \in {0, guest.id, Unread[a].id} BY <2>4
  <2>10. QED BY <1>1, <1>5, <2>1, <2>2, <2>5, <2>6, <2>7, <2>8, <2>9, UsingKeeps
<1>8. CASE ~(guest.awaiting /\ Head(wire) = Ack(guest.id, guest.seq))
  <2>1. Desync BY <1>8 DEF ReadAck
  <2>2. QED BY <1>1, <1>3, <1>5, <1>6, <2>1, DesyncKeeps, RemovedLeaves DEF AtWork
<1>9. QED BY <1>7, <1>8

(* The guest reads an acknowledgement in one piece with the line behind it. *)
LEMMA ReadTwoLinesKeeps ==
  ASSUME ChannelInvariant, ReadTwoLines
  PROVE  ChannelInvariant'
<1>1. /\ guest.at = "output" /\ Len(wire) > 1 /\ wire' = Tail(Tail(wire)) /\ Desync
      /\ UNCHANGED <<caller, buffer, lastAck, settled>>
  BY DEF ReadTwoLines
<1>2. wire \in Seq(Tokens) /\ buffer \in Seq(Tokens) BY DEF ChannelInvariant, ChannelTypeOK
<1>3. PICK q : q = Tail(wire) OBVIOUS
<1>4. /\ wire' \in Seq(Tokens) /\ Len(wire') = Len(wire) - 2
      /\ \A i \in 1 .. Len(wire) - 2 : wire'[i] = wire[i + 2]
  <2>1. wire # <<>> BY <1>1, <1>2, EmptySeq
  <2>2. /\ q \in Seq(Tokens) /\ Len(q) = Len(wire) - 1 /\ Len(wire) \in Nat
        /\ \A i \in 1 .. Len(wire) - 1 : q[i] = wire[i + 1]
    BY <1>2, <1>3, <2>1, HeadTailProperties
  <2>3. wire' = Tail(q) /\ Len(q) # 0
    <3>1. wire' = Tail(q) BY <1>1, <1>3, Zenon
    <3>2. Len(wire) > 1 BY <1>1, Zenon
    <3>3. QED BY <2>2, <3>1, <3>2
  <2>4. q # <<>> BY <2>2, <2>3, EmptySeq
  <2>5. /\ wire' \in Seq(Tokens) /\ Len(wire') = Len(q) - 1
        /\ \A i \in 1 .. Len(q) - 1 : wire'[i] = q[i + 1]
    BY <2>2, <2>3, <2>4, HeadTailProperties
  <2>6. QED BY <2>2, <2>5
<1>5. \A i \in 1 .. Len(Unread') : \E j \in 1 .. Len(Unread) : Unread'[i] = Unread[j]
  <2>1. /\ Len(Unread) = Len(buffer) + Len(wire) /\ Len(buffer) \in Nat /\ Len(wire) \in Nat
        /\ \A i \in 1 .. Len(buffer) + Len(wire) : Unread[i] = IF i <= Len(buffer) THEN buffer[i] ELSE wire[i - Len(buffer)]
    BY <1>2, UnreadIsAt DEF Unread
  <2>2. /\ Len(Unread') = Len(buffer) + Len(wire')
        /\ \A i \in 1 .. Len(buffer) + Len(wire') : Unread'[i] = IF i <= Len(buffer) THEN buffer[i] ELSE wire'[i - Len(buffer)]
    BY <1>1, <1>2, <1>4, UnreadIsAt DEF Unread
  <2>3. ASSUME NEW i \in 1 .. Len(Unread') PROVE \E j \in 1 .. Len(Unread) : Unread'[i] = Unread[j]
    <3>1. CASE i <= Len(buffer)
      <4>1. i \in 1 .. Len(Unread) /\ i \in 1 .. Len(buffer) + Len(wire) /\ i \in 1 .. Len(buffer) + Len(wire')
        BY <1>4, <2>1, <2>2, <3>1
      <4>2. Unread'[i] = Unread[i] BY <2>1, <2>2, <3>1, <4>1
      <4>3. QED BY <4>1, <4>2
    <3>2. CASE ~(i <= Len(buffer))
      <4>1. i - Len(buffer) \in 1 .. Len(wire) - 2 BY <1>4, <2>1, <2>2, <3>2
      <4>2. wire'[i - Len(buffer)] = wire[i - Len(buffer) + 2] BY <1>4, <4>1
      <4>3. /\ i + 2 \in 1 .. Len(Unread) /\ ~(i + 2 <= Len(buffer))
            /\ i + 2 - Len(buffer) = i - Len(buffer) + 2
        BY <1>4, <2>1, <2>2, <3>2
      <4>4. Unread'[i] = Unread[i + 2] BY <1>4, <2>1, <2>2, <3>2, <4>2, <4>3
      <4>5. QED BY <4>3, <4>4
    <3>3. QED BY <3>1, <3>2
  <2>4. QED BY <2>3
<1>6. QED BY <1>1, <1>2, <1>4, <1>5, DesyncKeeps DEF AtWork

(* What arrives at the guest was unread before and still is. *)
LEMMA FillKeeps ==
  ASSUME ChannelInvariant, Fill
  PROVE  ChannelInvariant'
<1>1. UNCHANGED <<caller, replies, guest, lastAck, settled>> BY DEF Fill
<1>2. ChannelTypeOK BY DEF ChannelInvariant
<1>3. wire' \in Seq(Tokens) /\ buffer' \in Seq(Tokens) /\ Unread' = Unread
  BY <1>2, FillMovesTokens
<1>4. ChannelTypeOK' BY <1>1, <1>2, <1>3 DEF ChannelTypeOK
<1>5. CallsAreInOrder' BY <1>1, <1>3 DEF ChannelInvariant, CallsAreInOrder, CallsUpTo, Idle
<1>6. ASSUME StreamIsFramed PROVE StreamIsFramed'
  <2>1. \A c, k, o : Run(c, k, o) => Run(c, k, o)'
    BY <1>1, <1>3 DEF Run, InBody, Token, BodyToken
  <2>2. QED BY <1>1, <1>3, <1>6, <2>1
        DEF StreamIsFramed, TokensAreInOrder, RequestsAreCalls, GuestIsInOrder, UnreadIsUnanswered,
            SentIsARun, EndsAreRuns, AtWork, Total
<1>7. /\ EventsAreInOrder' /\ GuestIsAhead' /\ RepliesAreWhole' /\ AnswersAreTheirOwn'
  BY <1>1 DEF ChannelInvariant, EventsAreInOrder, GuestIsAhead, RepliesAreWhole,
     AnswersAreTheirOwn, EventOf, AtWork
<1>8. QED BY <1>1, <1>4, <1>5, <1>6, <1>7 DEF ChannelInvariant

-----------------------------------------------------------------------------
(* The host.  A caller that is in its call is the latest of all.            *)
LEMMA CallerIsLast ==
  ASSUME ChannelInvariant, caller # Idle
  PROVE  /\ caller \in CallStates /\ caller.id \in CallIds /\ caller.id \in Nat
         /\ \A i \in 1 .. Len(Unread) : Unread[i].id <= caller.id
         /\ \A i \in 1 .. Len(replies) : replies[i].id <= caller.id
         /\ guest.id <= caller.id
         /\ CallsUpTo(caller.id)
<1>1. PICK m \in 0 .. MaxCall : CallsUpTo(m) BY DEF ChannelInvariant, CallsAreInOrder
<1>2. caller \in CallStates BY DEF ChannelInvariant, ChannelTypeOK
<1>3. caller.id \in CallIds /\ caller.id = m BY <1>1, <1>2 DEF CallsUpTo, CallStates
<1>4. QED BY <1>1, <1>2, <1>3 DEF CallsUpTo, CallIds

(* What the Host sends for the call that is open.                           *)
LEMMA SendingKeepsTheOrder ==
  ASSUME ChannelInvariant, caller # Idle, NEW t \in Tokens, t.id = caller.id, t.kind \notin OpKinds, Added(t),
         UNCHANGED <<guest, settled>>, caller'.id = caller.id,
         guest.at # "ended"
  PROVE  TokensAreInOrder' /\ RequestsAreCalls' /\ GuestIsInOrder'
<1>1. /\ Len(Unread) \in Nat /\ \A i \in 1 .. Len(Unread) : Unread[i].id \in Nat
      /\ TokensAreInOrder /\ RequestsAreCalls /\ GuestIsInOrder
  BY ChannelTypes DEF ChannelInvariant, StreamIsFramed
<1>2. /\ caller.id \in Nat /\ guest.id <= caller.id
      /\ \A i \in 1 .. Len(Unread) : Unread[i].id <= caller.id
  BY CallerIsLast
<1>3. TokensAreInOrder' BY <1>1, <1>2, OrderGrows
<1>4. /\ Len(Unread') = Len(Unread) + 1 /\ Unread'[Len(Unread) + 1] = t
      /\ \A i \in 1 .. Len(Unread) : Unread'[i] = Unread[i]
  BY DEF Added
<1>5. \A i \in 1 .. Len(Unread') : i = Len(Unread) + 1 \/ i \in 1 .. Len(Unread) BY <1>1, <1>4
<1>6. RequestsAreCalls' BY <1>1, <1>4, <1>5 DEF RequestsAreCalls
<1>7. GuestIsInOrder' BY <1>1, <1>2, <1>4, <1>5 DEF GuestIsInOrder, AtWork
<1>8. QED BY <1>3, <1>6, <1>7

(* A token of the open call is part of that call. *)
LEMMA SendingKeepsTheCalls ==
  ASSUME ChannelInvariant, caller # Idle, NEW t \in Tokens, t.id = caller.id, Added(t),
         UNCHANGED <<guest, settled>>, caller'.id = caller.id, caller' # Idle,
         \A i \in 1 .. Len(replies') : \E j \in 1 .. Len(replies) : replies'[i] = replies[j]
  PROVE  CallsAreInOrder'
<1>1. PICK m \in 0 .. MaxCall : CallsUpTo(m) BY DEF ChannelInvariant, CallsAreInOrder
<1>2. caller.id \in CallIds /\ caller.id = m
  <2>1. caller \in CallStates BY CallerIsLast
  <2>2. QED BY <1>1, <2>1 DEF CallsUpTo, CallStates
<1>3. Len(Unread) \in Nat BY ChannelTypes DEF ChannelInvariant
<1>4. \A i \in 1 .. Len(Unread') : Unread'[i].id <= m BY <1>1, <1>2, <1>3 DEF Added, CallsUpTo
<1>5. \A i \in 1 .. Len(replies') : replies'[i].id <= m BY <1>1 DEF CallsUpTo
<1>6. caller'.id # 0 BY <1>2 DEF CallIds
<1>7. CallsUpTo(m)' BY <1>1, <1>2, <1>4, <1>5, <1>6 DEF CallsUpTo, Idle
<1>8. QED BY <1>7 DEF CallsAreInOrder

(* _TreeBody sends the next token of the tree, or breaks off. *)
LEMMA SendBodyKeeps ==
  ASSUME ChannelInvariant, SendBody
  PROVE  ChannelInvariant'
<1>1. caller.at = "sending" /\ UNCHANGED <<buffer, replies, guest, lastAck, settled>>
  BY DEF SendBody
<1>2. ChannelTypeOK /\ caller # Idle BY <1>1 DEF ChannelInvariant, Idle
<1>3. /\ caller \in CallStates /\ caller.id \in CallIds /\ caller.sent \in Nat /\ Len(Unread) \in Nat
      /\ Total \in Nat
  BY <1>2, CallerIsLast, ChannelTypes
<1>4. PICK n \in Nat : n = caller.sent + 1 BY <1>3
<1>5. PICK bad \in BOOLEAN :
        /\ caller.bad => bad
        /\ wire' = Append(wire, Token(caller.id, BodyToken(caller.sent + 1, bad)))
        /\ caller' = [caller EXCEPT !.sent = caller.sent + 1, !.bad = bad,
                        !.at = IF BodyToken(caller.sent + 1, bad) \in {"end", "abort"} THEN "receiving" ELSE caller.at]
  <2>1. \A bad \in {caller.bad, caller.bad \/ caller.sent < Files * (Size + 1)} :
          bad \in BOOLEAN /\ (caller.bad => bad)
    <3>1. caller.bad \in BOOLEAN BY <1>3 DEF CallStates
    <3>2. QED BY <3>1
  <2>2. QED BY <2>1 DEF SendBody
<1> DEFINE kind == BodyToken(n, bad)
           at == IF kind \in {"end", "abort"} THEN "receiving" ELSE caller.at
           t == Token(caller.id, kind)
<1>6. wire' = Append(wire, t) /\ caller' = [caller EXCEPT !.sent = n, !.bad = bad, !.at = at]
  BY <1>4, <1>5, Zenon
<1>7. /\ kind \in BodyKinds
      /\ bad => kind \in {"abort", "pad"}
      /\ ~bad => (kind = "end" <=> n = Total + 1) /\ kind \notin {"abort", "pad"}
  BY BodyIsBody
<1>8. t.kind = kind /\ t.id = caller.id /\ t \in Tokens BY <1>3, <1>7 DEF Token, Tokens
<1>9. at \in {"idle", "sending", "receiving"} /\ (at = "sending" => kind \notin {"end", "abort"})
  BY <1>1
<1> HIDE DEF t, at
<1>10. t = Token(caller.id, BodyToken(n, bad)) BY DEF t
<1> HIDE DEF kind
<1>11. /\ caller' \in CallStates /\ caller'.sent = n /\ caller'.bad = bad /\ caller'.at = at
       /\ caller'.id = caller.id /\ caller'.seen = caller.seen /\ caller'.op = caller.op
  BY <1>3, <1>6, <1>9 DEF CallStates
<1>12. wire' \in Seq(Tokens) /\ Added(t) BY <1>1, <1>2, <1>6, <1>8, TokenAdded
<1>13. ChannelTypeOK' BY <1>1, <1>2, <1>11, <1>12 DEF ChannelTypeOK
<1>14. caller' # Idle
  <2>1. caller'.id # 0 BY <1>3, <1>11 DEF CallIds
  <2>2. QED BY <2>1 DEF Idle
<1>15. CallsAreInOrder' BY <1>1, <1>2, <1>8, <1>11, <1>12, <1>14, SendingKeepsTheCalls
<1>16. ASSUME guest.at # "ended" PROVE StreamIsFramed'
  <2>1. SentIsARun /\ EndsAreRuns /\ UnreadIsUnanswered
    BY <1>16 DEF ChannelInvariant, StreamIsFramed
  <2>2. t.kind \notin OpKinds BY <1>7, <1>8 DEF BodyKinds, OpKinds
  <2>3. TokensAreInOrder' /\ RequestsAreCalls' /\ GuestIsInOrder'
    BY <1>1, <1>2, <1>8, <1>11, <1>12, <1>16, <2>2, SendingKeepsTheOrder
  <2>4. /\ Len(Unread') = Len(Unread) + 1 /\ Unread'[Len(Unread) + 1] = t
        /\ \A i \in 1 .. Len(Unread) : Unread'[i] = Unread[i]
    BY <1>12 DEF Added
  <2>5. UnreadIsUnanswered' BY <1>1, <1>3, <1>11, <2>1, <2>2, <2>4 DEF UnreadIsUnanswered
  <2>6. PICK c \in CallIds, l \in Nat, s \in Nat : c = caller.id /\ l = Len(Unread) /\ s = caller.sent
    BY <1>3
  <2>7. ASSUME ~bad PROVE s <= Total /\ Run(c, l + 1, s - l)'
    <3>1. ~caller.bad BY <1>5, <2>7
    <3>2. s <= Total /\ Run(c, l, s - l) BY <1>1, <2>1, <2>6, <3>1 DEF SentIsARun
    <3>3. PICK o \in Int : o = s - l BY <2>6
    <3>4. Run(c, l, o) /\ l <= Len(Unread) BY <2>6, <3>2, <3>3
    <3>5. Run(c, l, o)' BY <1>1, <1>12, <3>4, RunGrows
    <3>6. l + 1 + o = n /\ n >= 1
      <4>1. n = s + 1 /\ n >= 1 BY <1>4, <2>6
      <4>2. l + 1 + (s - l) = s + 1 BY <2>6
      <4>3. QED BY <3>3, <4>1, <4>2
    <3>7. Unread'[l + 1] = Token(c, BodyToken(n, FALSE)) BY <1>10, <2>4, <2>6, <2>7
    <3>8. \A j \in 1 .. l + 1 : j = l + 1 \/ j \in 1 .. l BY <2>6
    <3>9. \A j \in 1 .. l + 1 : /\ j + o >= 1 => Unread'[j] = Token(c, BodyToken(j + o, FALSE))
                                /\ j + o = 0 => Unread'[j] = Token(c, "tree")
      <4>1. ASSUME NEW j \in 1 .. l
            PROVE  /\ j + o >= 1 => Unread'[j] = Token(c, BodyToken(j + o, FALSE))
                   /\ j + o = 0 => Unread'[j] = Token(c, "tree")
        BY <3>5 DEF Run, Token, BodyToken
      <4>2. ASSUME NEW j \in 1 .. l + 1, j = l + 1
            PROVE  /\ j + o >= 1 => Unread'[j] = Token(c, BodyToken(j + o, FALSE))
                   /\ j + o = 0 => Unread'[j] = Token(c, "tree")
        <5>1. j + o = n /\ ~(j + o = 0) BY <3>6, <4>2
        <5>2. QED BY <3>7, <4>2, <5>1, Zenon
      <4>3. QED BY <3>8, <4>1, <4>2
    <3>10. o >= 0 => InBody(c, o)' BY <3>5 DEF Run, InBody
    <3>11. Run(c, l + 1, o)' BY <3>9, <3>10 DEF Run, InBody, Token, BodyToken
    <3>12. QED BY <3>2, <3>3, <3>11
  <2>8. SentIsARun'
    <3>1. ASSUME caller'.at = "sending", ~caller'.bad
          PROVE  n <= Total /\ Run(c, l + 1, s - l)'
      <4>1. ~bad /\ kind # "end" BY <1>9, <1>11, <3>1
      <4>2. n # Total + 1 BY <1>7, <4>1
      <4>3. QED BY <1>3, <1>4, <2>6, <2>7, <4>1, <4>2
    <3>2. c = caller'.id /\ l + 1 = Len(Unread') /\ n = caller'.sent /\ s - l = n - (l + 1)
      BY <1>4, <1>11, <2>4, <2>6
    <3>3. PICK o \in Int, k \in Int : o = s - l /\ k = l + 1 BY <2>6
    <3>4. k = Len(Unread') /\ o = caller'.sent - Len(Unread')
      <4>1. o = n - k BY <3>2, <3>3
      <4>2. QED BY <3>2, <3>3, <4>1
    <3>5. (caller'.at = "sending" /\ ~caller'.bad) => n <= Total /\ Run(c, k, o)' BY <3>1, <3>3
    <3>6. QED BY <3>2, <3>4, <3>5 DEF SentIsARun, Run, InBody, Total
  <2>9. EndsAreRuns'
    <3>1. ASSUME NEW k \in 1 .. Len(Unread'), Unread'[k].kind = "end"
          PROVE  \E d \in CallIds, o \in Int : d = Unread'[k].id /\ o = Total + 1 - k /\ Run(d, k, o)'
      <4>1. CASE k \in 1 .. Len(Unread)
        <5>1. PICK d \in CallIds, o \in Int : d = Unread[k].id /\ o = Total + 1 - k
          BY <1>2, <1>3, <4>1, ChannelTypes
        <5>2. Run(d, k, o) BY <2>1, <2>4, <3>1, <4>1, <5>1 DEF EndsAreRuns
        <5>3. k <= Len(Unread) /\ k \in Int BY <4>1
        <5>4. Run(d, k, o)' BY <1>1, <1>12, <5>2, <5>3, RunGrows
        <5>5. QED BY <2>4, <4>1, <5>1, <5>4
      <4>2. CASE k = Len(Unread) + 1
        <5>1. kind = "end" /\ Unread'[k].id = c /\ k = l + 1 BY <1>8, <2>4, <2>6, <3>1, <4>2
        <5>2. ~bad /\ n = Total + 1 BY <1>7, <5>1
        <5>3. Run(c, l + 1, s - l)' BY <2>7, <5>2
        <5>4. PICK o \in Int : o = s - l BY <2>6
        <5>5. o = Total + 1 - k BY <1>3, <1>4, <2>6, <5>1, <5>2, <5>4
        <5>6. Run(c, k, o)' BY <5>1, <5>3, <5>4
        <5>7. QED BY <5>1, <5>5, <5>6
      <4>3. QED BY <1>3, <2>4, <3>1, <4>1, <4>2
    <3>2. QED BY <3>1 DEF EndsAreRuns, Run, InBody, Total
  <2>10. QED BY <2>3, <2>5, <2>8, <2>9 DEF StreamIsFramed
<1>17. EventsAreInOrder' /\ GuestIsAhead' /\ RepliesAreWhole' /\ AnswersAreTheirOwn'
  BY <1>1, <1>11 DEF ChannelInvariant, EventsAreInOrder, GuestIsAhead, RepliesAreWhole,
     AnswersAreTheirOwn, EventOf, AtWork
<1>18. QED BY <1>1, <1>13, <1>15, <1>16, <1>17 DEF ChannelInvariant

(* A new call.                                                              *)
LEMMA CallKeeps ==
  ASSUME ChannelInvariant, NEW op \in Ops, Call(op)
  PROVE  ChannelInvariant'
<1>1. PICK m \in 0 .. MaxCall : CallsUpTo(m) BY DEF ChannelInvariant, CallsAreInOrder
<1>2. CallsMade = {c \in CallIds : c <= m} BY <1>1 DEF CallsMade, CallsUpTo
<1>3. m + 1 = 1 + (IF CallsMade = {} THEN 0 ELSE CHOOSE x \in CallsMade : \A n \in CallsMade : n <= x)
  <2>1. CASE m = 0
    <3>1. CallsMade = {} BY <1>2, <2>1 DEF CallIds
    <3>2. QED BY <2>1, <3>1
  <2>2. CASE m # 0
    <3>1. m \in CallsMade /\ \A n \in CallsMade : n <= m BY <1>2, <2>2 DEF CallIds
    <3>2. \A x \in CallsMade : (\A n \in CallsMade : n <= x) => x = m BY <1>2, <3>1 DEF CallIds
    <3>3. (CHOOSE x \in CallsMade : \A n \in CallsMade : n <= x) = m BY <3>1, <3>2
    <3>4. CallsMade # {} BY <3>1
    <3> DEFINE last == IF CallsMade = {} THEN 0 ELSE CHOOSE x \in CallsMade : \A n \in CallsMade : n <= x
    <3>5. last = m BY <3>3, <3>4, Zenon
    <3>6. m \in Int BY ChannelAssumption
    <3> HIDE DEF last
    <3>7. m + 1 = 1 + last BY <3>5, <3>6
    <3>8. QED BY <3>7 DEF last
  <2>3. QED BY <2>1, <2>2
<1> DEFINE c == 1 + (IF CallsMade = {} THEN 0 ELSE CHOOSE x \in CallsMade : \A n \in CallsMade : n <= x)
           w == IF op = "tree" THEN "sending" ELSE "receiving"
<1>4. /\ caller = Idle /\ c \in CallIds
      /\ wire' = Append(wire, Token(c, op))
      /\ caller' = [Idle EXCEPT !.id = c, !.op = op, !.at = w]
      /\ settled' = [settled EXCEPT ![c] = [settled[c] EXCEPT !.op = op]]
      /\ UNCHANGED <<buffer, replies, guest, lastAck>>
  BY DEF Call
<1>5. c = m + 1 BY <1>3
<1>6. w \in {"sending", "receiving"} /\ (w = "sending" <=> op = "tree") OBVIOUS
<1> HIDE DEF c, w
<1>7. c \in 1 .. MaxCall /\ MaxCall \in Nat BY <1>4, ChannelAssumption DEF CallIds
<1>8. op \in OpKinds BY ChannelAssumption DEF OpKinds
<1>9. /\ caller' \in CallStates /\ caller'.id = c /\ caller'.op = op /\ caller'.at = w
      /\ caller'.sent = 0 /\ caller'.bad = FALSE /\ caller'.seen = 0
  BY <1>4, <1>6, <1>8 DEF Idle, CallStates
<1>10. caller.id = 0 BY <1>4 DEF Idle
<1>11. /\ ChannelTypeOK /\ CallsAreInOrder /\ EventsAreInOrder /\ GuestIsAhead /\ RepliesAreWhole
       /\ AnswersAreTheirOwn
  BY DEF ChannelInvariant
<1>12. /\ Len(Unread) \in Nat /\ Len(replies) \in Nat /\ Total \in Nat /\ guest.id \in Nat
       /\ \A i \in 1 .. Len(Unread) : Unread[i].id \in CallIds /\ Unread[i].id \in Nat
       /\ \A i \in 1 .. Len(replies) : replies[i].id \in CallIds /\ replies[i].id \in Nat
  BY <1>11, ChannelTypes
<1>13. /\ \A i \in 1 .. Len(Unread) : Unread[i].id < c
       /\ \A i \in 1 .. Len(replies) : replies[i].id < c
       /\ guest.id < c /\ settled[c].how # "ok"
  BY <1>1, <1>4, <1>5, <1>7, <1>12 DEF CallsUpTo
<1> DEFINE t == Token(c, op)
<1>14. t.kind = op /\ t.id = c /\ t \in Tokens BY <1>4, <1>8 DEF Token, Tokens
<1>15. t = Token(c, op) OBVIOUS
<1> HIDE DEF t
<1>16. wire' \in Seq(Tokens) /\ Added(t) BY <1>4, <1>11, <1>14, <1>15, TokenAdded
<1>17. /\ Len(Unread') = Len(Unread) + 1 /\ Unread'[Len(Unread) + 1] = t
       /\ \A i \in 1 .. Len(Unread) : Unread'[i] = Unread[i]
  BY <1>16 DEF Added
<1>18. \A i \in 1 .. Len(Unread') : i = Len(Unread) + 1 \/ i \in 1 .. Len(Unread)
  BY <1>12, <1>17
<1>19. settled \in [CallIds -> Settlements] BY <1>11 DEF ChannelTypeOK
<1>20. /\ settled' \in [CallIds -> Settlements]
       /\ \A d \in CallIds : d # c => settled'[d] = settled[d]
       /\ settled'[c].op = op /\ settled'[c].how = settled[c].how
  <2>1. settled[c] \in Settlements BY <1>4, <1>19
  <2>2. PICK e : e = [settled[c] EXCEPT !.op = op] OBVIOUS
  <2>3. e \in Settlements /\ e.op = op /\ e.how = settled[c].how
    BY <1>8, <2>1, <2>2 DEF Settlements
  <2>4. QED BY <1>4, <1>19, <2>2, <2>3
<1>21. ChannelTypeOK' BY <1>4, <1>9, <1>11, <1>16, <1>20 DEF ChannelTypeOK
<1>22. CallsAreInOrder'
  <2>1. PICK n \in 0 .. MaxCall : n = c BY <1>7
  <2>2. caller'.id # 0 /\ caller' # Idle
    <3>1. caller'.id # 0 BY <1>7, <1>9
    <3>2. QED BY <1>10, <1>4, <3>1
  <2>3. \A d \in CallIds : d <= n <=> d <= m \/ d = c BY <1>5, <2>1 DEF CallIds
  <2>4. \A d \in CallIds : /\ settled'[d].op # "none" <=> d <= n
                           /\ settled'[d].how = "ok" => d <= n
    <3>1. op # "none" BY <1>8 DEF OpKinds
    <3>2. QED BY <1>1, <1>20, <2>3, <3>1 DEF CallsUpTo
  <2>5. ASSUME NEW i \in 1 .. Len(Unread') PROVE Unread'[i].id <= n
    <3>1. CASE i = Len(Unread) + 1
      <4>1. Unread'[i] = t BY <1>17, <3>1
      <4>2. QED BY <1>7, <1>14, <2>1, <4>1
    <3>2. CASE i \in 1 .. Len(Unread)
      <4>1. Unread'[i] = Unread[i] BY <1>17, <3>2
      <4>2. Unread[i].id < c /\ Unread[i].id \in Nat BY <1>12, <1>13, <3>2
      <4>3. QED BY <1>7, <2>1, <4>1, <4>2
    <3>3. QED BY <1>18, <3>1, <3>2
  <2>6. \A i \in 1 .. Len(replies') : replies'[i].id <= n BY <1>4, <1>7, <1>12, <1>13, <2>1
  <2>7. guest'.id <= n BY <1>4, <1>7, <1>12, <1>13, <2>1
  <2>8. CallsUpTo(n)' BY <1>9, <2>1, <2>2, <2>4, <2>5, <2>6, <2>7 DEF CallsUpTo, Idle
  <2>9. QED BY <2>8 DEF CallsAreInOrder
<1>23. ASSUME guest.at # "ended" PROVE StreamIsFramed'
  <2>1. /\ TokensAreInOrder /\ RequestsAreCalls /\ GuestIsInOrder /\ UnreadIsUnanswered /\ EndsAreRuns
    BY <1>23 DEF ChannelInvariant, StreamIsFramed
  <2>2. TokensAreInOrder'
    <3>1. \A i \in 1 .. Len(Unread) : Unread[i].id \in Nat /\ (IF t.kind \in OpKinds THEN Unread[i].id < c ELSE Unread[i].id <= c)
      BY <1>8, <1>12, <1>13, <1>14
    <3>2. c \in Nat BY <1>7
    <3>3. QED BY <1>12, <1>14, <1>16, <2>1, <3>1, <3>2, OrderGrows
  <2>3. RequestsAreCalls'
    <3>1. ASSUME NEW i \in 1 .. Len(Unread'), Unread'[i].kind \in OpKinds
          PROVE  settled'[Unread'[i].id].op = Unread'[i].kind
      <4>1. CASE i = Len(Unread) + 1
        <5>1. Unread'[i] = t BY <1>17, <4>1
        <5>2. t.kind = op /\ t.id = c /\ settled'[c].op = op BY <1>14, <1>20
        <5>3. QED BY <5>1, <5>2
      <4>2. CASE i \in 1 .. Len(Unread)
        <5>1. Unread'[i] = Unread[i] BY <1>17, <4>2
        <5>2. settled[Unread[i].id].op = Unread[i].kind BY <2>1, <3>1, <4>2, <5>1 DEF RequestsAreCalls
        <5>3. Unread[i].id \in CallIds /\ Unread[i].id # c BY <1>7, <1>12, <1>13, <4>2
        <5>4. settled'[Unread[i].id] = settled[Unread[i].id] BY <1>20, <5>3
        <5>5. QED BY <5>1, <5>2, <5>4
      <4>3. QED BY <1>18, <4>1, <4>2
    <3>2. QED BY <3>1 DEF RequestsAreCalls
  <2>4. GuestIsInOrder'
    <3>1. SUFFICES ASSUME AtWork PROVE GuestIsInOrder' BY <1>4 DEF GuestIsInOrder, AtWork
    <3>2. guest' = guest /\ guest.id \in CallIds /\ settled'[guest.id] = settled[guest.id]
      BY <1>4, <1>12, <1>13, <1>20, <2>1, <3>1 DEF GuestIsInOrder
    <3>3. ASSUME NEW i \in 1 .. Len(Unread')
          PROVE  IF Unread'[i].kind \in OpKinds THEN guest.id < Unread'[i].id
                                                ELSE guest.id <= Unread'[i].id
      <4>1. CASE i = Len(Unread) + 1
        <5>1. Unread'[i].kind = op /\ Unread'[i].id = c BY <1>14, <1>17, <4>1
        <5>2. QED BY <1>8, <1>13, <5>1
      <4>2. CASE i \in 1 .. Len(Unread) BY <1>17, <2>1, <3>1, <4>2 DEF GuestIsInOrder
      <4>3. QED BY <1>18, <4>1, <4>2
    <3>4. QED BY <2>1, <3>1, <3>2, <3>3 DEF GuestIsInOrder, AtWork
  <2>5. UnreadIsUnanswered'
    BY <1>4, <1>9, <1>13, <1>14, <1>17, <1>18, <2>1 DEF UnreadIsUnanswered
  <2>6. SentIsARun'
    <3>1. ASSUME op = "tree"
          PROVE  \E o \in Int, k \in Nat, d \in CallIds :
                   o = -k /\ k = Len(Unread') /\ d = c /\ Run(d, k, o)'
      <4>1. PICK k \in Nat, d \in CallIds, o \in Int : k = Len(Unread') /\ d = c /\ o = -k /\ k >= 1
        BY <1>4, <1>12, <1>17
      <4>2. o < 0 BY <4>1
      <4>3. Unread'[k] = Token(d, "tree") BY <1>15, <1>17, <3>1, <4>1
      <4>4. \A j \in 1 .. k : ~(j + o >= 1) /\ (j + o = 0 => j = k) BY <4>1
      <4>5. \A j \in 1 .. k : /\ j + o >= 1 => Unread'[j] = Token(d, BodyToken(j + o, FALSE))
                              /\ j + o = 0 => Unread'[j] = Token(d, "tree")
        BY <4>3, <4>4, Zenon
      <4>6. ~(o >= 0) BY <4>2
      <4>7. Run(d, k, o)' BY <4>5, <4>6 DEF Run, InBody, Token, BodyToken
      <4>8. QED BY <4>1, <4>7
    <3>2. ASSUME caller'.at = "sending"
          PROVE  caller'.sent <= Total' /\ Run(caller.id, Len(Unread), caller.sent - Len(Unread))'
      <4>1. op = "tree" BY <1>6, <1>9, <3>2
      <4>2. PICK o \in Int, k \in Nat, d \in CallIds : o = -k /\ k = Len(Unread') /\ d = c /\ Run(d, k, o)'
        BY <3>1, <4>1
      <4>3. o = 0 - k /\ caller'.sent = 0 /\ caller'.id = d BY <1>9, <4>2
      <4>4. o = caller'.sent - Len(Unread') BY <4>2, <4>3
      <4>5. 0 <= Total /\ Total' = Total BY <1>12 DEF Total
      <4>6. QED BY <4>2, <4>3, <4>4, <4>5 DEF Run, InBody
    <3>3. QED BY <3>2 DEF SentIsARun, Run, InBody, Total
  <2>7. EndsAreRuns'
    <3>1. ASSUME NEW k \in 1 .. Len(Unread'), Unread'[k].kind = "end"
          PROVE  \E d \in CallIds, o \in Int : d = Unread'[k].id /\ o = Total + 1 - k /\ Run(d, k, o)'
      <4>1. k # Len(Unread) + 1 BY <1>8, <1>14, <1>17, <3>1 DEF OpKinds
      <4>2. k \in 1 .. Len(Unread) BY <1>18, <4>1
      <4>3. PICK d \in CallIds, o \in Int : d = Unread[k].id /\ o = Total + 1 - k BY <1>12, <4>2
      <4>4. Run(d, k, o) BY <1>17, <2>1, <3>1, <4>2, <4>3 DEF EndsAreRuns
      <4>5. k <= Len(Unread) /\ k \in Int BY <1>12, <4>2
      <4>6. Run(d, k, o)' BY <1>4, <1>16, <4>4, <4>5, RunGrows
      <4>7. QED BY <1>17, <4>2, <4>3, <4>6
    <3>2. QED BY <3>1 DEF EndsAreRuns, Run, InBody, Total
  <2>8. QED BY <2>2, <2>3, <2>4, <2>5, <2>6, <2>7 DEF StreamIsFramed
<1>24. \A i \in 1 .. Len(replies) : replies[i].id \in CallIds /\ replies[i].id # c
  <2>1. ASSUME NEW i \in 1 .. Len(replies) PROVE replies[i].id \in CallIds /\ replies[i].id # c
    <3>1. replies[i].id \in Nat /\ replies[i].id < c BY <1>12, <1>13
    <3>2. QED BY <1>7, <1>12, <3>1
  <2>2. QED BY <2>1
<1>25. EventsAreInOrder' BY <1>4, <1>9, <1>11, <1>20, <1>24 DEF EventsAreInOrder, EventOf
<1>26. GuestIsAhead'
  <2>1. guest.id # caller'.id BY <1>7, <1>9, <1>12, <1>13
  <2>2. QED BY <1>4, <1>11, <2>1 DEF GuestIsAhead, AtWork, EventOf
<1>27. RepliesAreWhole' BY <1>4, <1>11, <1>20, <1>24 DEF RepliesAreWhole
<1>28. AnswersAreTheirOwn'
  <2>1. ASSUME NEW d \in CallIds, settled'[d].how = "ok"
        PROVE  d # c /\ settled'[d] = settled[d]
    BY <1>4, <1>13, <1>20, <2>1
  <2>2. QED BY <1>11, <2>1 DEF AnswersAreTheirOwn
<1>29. QED BY <1>4, <1>21, <1>22, <1>23, <1>25, <1>26, <1>27, <1>28 DEF ChannelInvariant

-----------------------------------------------------------------------------
(* What the Host reads.                                                     *)
LEMMA ReplyTaken ==
  ASSUME ChannelTypeOK, replies # <<>>, replies' = Tail(replies)
  PROVE  /\ replies' \in Seq(Messages) /\ Len(replies) \in Nat /\ Len(replies') = Len(replies) - 1
         /\ 1 \in 1 .. Len(replies) /\ Head(replies) = replies[1] /\ Head(replies) \in Messages
         /\ \A i \in 1 .. Len(replies') : i + 1 \in 1 .. Len(replies) /\ replies'[i] = replies[i + 1]
<1>1. replies \in Seq(Messages) BY DEF ChannelTypeOK
<1>2. Len(replies) \in Nat /\ Len(replies) > 0 BY <1>1, EmptySeq
<1>3. /\ replies' \in Seq(Messages) /\ Len(replies') = Len(replies) - 1 /\ Head(replies) = replies[1]
      /\ \A i \in 1 .. Len(replies) - 1 : replies'[i] = replies[i + 1]
  BY <1>1, HeadTailProperties
<1>4. 1 \in 1 .. Len(replies) BY <1>2
<1>5. replies[1] \in Messages BY <1>1, <1>4, ElementOfSeq
<1>6. QED BY <1>2, <1>3, <1>4, <1>5

(* What the replies say of other calls than the one whose reply is taken.   *)
LEMMA TakingKeepsTheReplies ==
  ASSUME ChannelInvariant, replies # <<>>, replies' = Tail(replies),
         \A c \in CallIds : settled'[c].op = settled[c].op,
         caller'.id # Head(replies).id, caller'.id \in {0, caller.id}, caller'.seen = caller.seen \/ caller'.id = 0
  PROVE  EventsAreInOrder' /\ RepliesAreWhole'
<1>1. ChannelTypeOK /\ EventsAreInOrder /\ RepliesAreWhole BY DEF ChannelInvariant
<1>2. /\ Len(replies) \in Nat /\ Len(replies') = Len(replies) - 1
      /\ 1 \in 1 .. Len(replies) /\ Head(replies) = replies[1]
      /\ \A i \in 1 .. Len(replies') : i + 1 \in 1 .. Len(replies) /\ replies'[i] = replies[i + 1]
  BY <1>1, ReplyTaken
<1>3. \A i \in 1 .. Len(replies) : replies[i].id \in CallIds /\ replies[i].id # 0
  BY <1>1, ChannelTypes DEF CallIds
<1>4. RepliesAreWhole' BY <1>1, <1>2, <1>3 DEF RepliesAreWhole
<1>6. ASSUME NEW i \in 1 .. Len(replies'), replies'[i].kind = "event"
      PROVE  /\ \A j \in 1 .. Len(replies') : (replies'[j].id = replies'[i].id /\ replies'[j].kind = "event"
                                       /\ replies'[j].seq = replies'[i].seq) => i = j
             /\ replies'[i].id = caller'.id =>
                  \/ replies'[i].seq = caller'.seen + 1
                  \/ /\ replies'[i].seq > caller'.seen + 1
                     /\ \E j \in 1 .. i - 1 : replies'[j].id = replies'[i].id /\ replies'[j].kind = "event"
                                              /\ replies'[j].seq = replies'[i].seq - 1
  <2>1. PICK k \in 1 .. Len(replies), r \in Messages : k = i + 1 /\ r = replies[k] /\ replies'[i] = r
    BY <1>1, <1>2, ChannelTypes
  <2>2. r.kind = "event" BY <1>6, <2>1
  <2>3. \A j \in 1 .. Len(replies) : EventOf(r.id, r.seq, j) => k = j
    BY <1>1, <2>1, <2>2 DEF EventsAreInOrder
  <2>4. \A j \in 1 .. Len(replies') : (replies'[j].id = r.id /\ replies'[j].kind = "event" /\ replies'[j].seq = r.seq) => i = j
    <3>1. ASSUME NEW j \in 1 .. Len(replies'), replies'[j].id = r.id, replies'[j].kind = "event", replies'[j].seq = r.seq
          PROVE  i = j
      <4>1. j + 1 \in 1 .. Len(replies) /\ replies'[j] = replies[j + 1] BY <1>2
      <4>2. k = j + 1 BY <2>3, <3>1, <4>1 DEF EventOf
      <4>3. QED BY <1>2, <2>1, <4>2
    <3>2. QED BY <3>1
  <2>5. ASSUME r.id = caller'.id
        PROVE  \/ r.seq = caller'.seen + 1
               \/ /\ r.seq > caller'.seen + 1
                  /\ \E j \in 1 .. i - 1 : replies'[j].id = r.id /\ replies'[j].kind = "event"
                                           /\ replies'[j].seq = r.seq - 1
    <3>1. caller'.id = caller.id /\ caller'.seen = caller.seen BY <1>3, <2>1, <2>5
    <3>2. \/ r.seq = caller.seen + 1
          \/ r.seq > caller.seen + 1 /\ \E j \in 1 .. k - 1 : EventOf(r.id, r.seq - 1, j)
      BY <1>1, <2>1, <2>2, <2>5, <3>1 DEF EventsAreInOrder
    <3>3. ASSUME NEW j \in 1 .. k - 1, EventOf(r.id, r.seq - 1, j)
          PROVE  \E l \in 1 .. i - 1 : replies'[l].id = r.id /\ replies'[l].kind = "event"
                                       /\ replies'[l].seq = r.seq - 1
      <4>1. j # 1 BY <1>2, <2>5, <3>3 DEF EventOf
      <4>2. PICK l \in 1 .. i - 1 : j = l + 1 BY <1>2, <2>1, <4>1
      <4>3. l \in 1 .. Len(replies') BY <1>2
      <4>4. replies'[l] = replies[j] BY <1>2, <4>2, <4>3
      <4>5. QED BY <3>3, <4>2, <4>4 DEF EventOf
    <3>4. QED BY <3>1, <3>2, <3>3
  <2>6. QED BY <2>1, <2>4, <2>5
<1>7. ASSUME NEW i \in 1 .. Len(replies'), replies'[i].kind = "ok"
      PROVE  /\ \A j \in 1 .. Len(replies') : replies'[j].kind = "event" /\ replies'[j].id = replies'[i].id
                                      => replies'[j].seq <= replies'[i].seq
             /\ replies'[i].id = caller'.id /\ settled'[replies'[i].id].op \in Streams =>
                  \/ replies'[i].seq = caller'.seen
                  \/ \E j \in 1 .. i - 1 : replies'[j].id = replies'[i].id /\ replies'[j].kind = "event"
                                           /\ replies'[j].seq = replies'[i].seq
  <2>1. PICK k \in 1 .. Len(replies), r \in Messages : k = i + 1 /\ r = replies[k] /\ replies'[i] = r
    BY <1>1, <1>2, ChannelTypes
  <2>2. r.kind = "ok" /\ r.id \in CallIds BY <1>7, <2>1 DEF Messages
  <2>3. \A j \in 1 .. Len(replies') : replies'[j].kind = "event" /\ replies'[j].id = r.id => replies'[j].seq <= r.seq
    BY <1>1, <1>2, <2>1, <2>2 DEF EventsAreInOrder
  <2>4. ASSUME r.id = caller'.id, settled'[r.id].op \in Streams
        PROVE  \/ r.seq = caller'.seen
               \/ \E j \in 1 .. i - 1 : replies'[j].id = r.id /\ replies'[j].kind = "event"
                                        /\ replies'[j].seq = r.seq
    <3>1. caller'.id = caller.id /\ caller'.seen = caller.seen BY <1>3, <2>1, <2>4
    <3>2. r.seq = caller.seen \/ \E j \in 1 .. k - 1 : EventOf(r.id, r.seq, j)
      BY <1>1, <2>1, <2>2, <2>4, <3>1 DEF EventsAreInOrder
    <3>3. ASSUME NEW j \in 1 .. k - 1, EventOf(r.id, r.seq, j)
          PROVE  \E l \in 1 .. i - 1 : replies'[l].id = r.id /\ replies'[l].kind = "event"
                                       /\ replies'[l].seq = r.seq
      <4>1. j # 1 BY <1>2, <2>4, <3>3 DEF EventOf
      <4>2. PICK l \in 1 .. i - 1 : j = l + 1 BY <1>2, <2>1, <4>1
      <4>3. l \in 1 .. Len(replies') BY <1>2
      <4>4. replies'[l] = replies[j] BY <1>2, <4>2, <4>3
      <4>5. QED BY <3>3, <4>2, <4>4 DEF EventOf
    <3>4. QED BY <3>1, <3>2, <3>3
  <2>5. QED BY <2>1, <2>3, <2>4
<1>8. EventsAreInOrder' BY <1>6, <1>7 DEF EventsAreInOrder, EventOf
<1>9. QED BY <1>4, <1>8

(* The rest, when a reply is taken or not, and the caller stays or goes.    *)
LEMMA ReadingKeepsTheRest ==
  ASSUME ChannelInvariant, UNCHANGED <<wire, buffer, guest, lastAck>>,
         replies' = replies \/ (replies # <<>> /\ replies' = Tail(replies)),
         \A c \in CallIds : settled'[c].op = settled[c].op,
         \A c \in CallIds : settled'[c].how = "ok" => settled[c].how = "ok" \/ c = caller.id,
         caller' = caller \/ caller' = Idle
  PROVE  /\ CallsAreInOrder' /\ (guest.at # "ended" => StreamIsFramed')
         /\ AtWork => \A i \in 1 .. Len(replies') : replies'[i].id = guest.id =>
              guest.at = "output" /\ replies'[i].kind = "event" /\ replies'[i].seq <= guest.seq
<1>1. ChannelTypeOK /\ GuestIsAhead BY DEF ChannelInvariant
<1>2. \A i \in 1 .. Len(replies') : \E j \in 1 .. Len(replies) : replies'[i] = replies[j]
  <2>1. CASE replies' = replies BY <2>1
  <2>2. CASE replies # <<>> /\ replies' = Tail(replies) BY <1>1, <2>2, ReplyTaken
  <2>3. QED BY <2>1, <2>2
<1>3. Unread' = Unread BY DEF Unread
<1>4. CallsAreInOrder'
  <2>1. PICK m \in 0 .. MaxCall : CallsUpTo(m) BY DEF ChannelInvariant, CallsAreInOrder
  <2>2. caller'.id \in {0, m} /\ (caller'.id = 0 <=> caller' = Idle)
    <3>1. Idle.id = 0 BY DEF Idle
    <3>2. QED BY <2>1, <3>1 DEF CallsUpTo
  <2>3. \A c \in CallIds : settled'[c].how = "ok" => c <= m
    <3>1. \A c \in CallIds : c = caller.id => c <= m
      BY <2>1, ChannelAssumption DEF CallsUpTo, CallIds
    <3>2. QED BY <2>1, <3>1 DEF CallsUpTo
  <2>4. \A i \in 1 .. Len(replies') : replies'[i].id <= m BY <1>2, <2>1 DEF CallsUpTo
  <2>5. \A c \in CallIds : settled'[c].op # "none" <=> c <= m BY <2>1 DEF CallsUpTo
  <2>6. CallsUpTo(m)' BY <1>3, <2>1, <2>2, <2>3, <2>4, <2>5 DEF CallsUpTo, Idle
  <2>7. QED BY <2>6 DEF CallsAreInOrder
<1>5. ASSUME guest.at # "ended" PROVE StreamIsFramed'
  <2>1. /\ TokensAreInOrder /\ RequestsAreCalls /\ GuestIsInOrder /\ UnreadIsUnanswered
        /\ SentIsARun /\ EndsAreRuns
    BY <1>5 DEF ChannelInvariant, StreamIsFramed
  <2>2. \A c, k, o : Run(c, k, o) => Run(c, k, o)' BY <1>3 DEF Run, InBody, Token, BodyToken
  <2>3. \A i \in 1 .. Len(Unread) : Unread[i].id \in CallIds BY <1>1, ChannelTypes
  <2>4. TokensAreInOrder' BY <1>3, <2>1 DEF TokensAreInOrder
  <2>5. RequestsAreCalls' BY <1>3, <2>1, <2>3 DEF RequestsAreCalls
  <2>6. GuestIsInOrder' BY <1>3, <2>1 DEF GuestIsInOrder, AtWork
  <2>7. UnreadIsUnanswered'
    <3>1. \A i \in 1 .. Len(Unread) : Unread[i].id # 0 BY <2>3 DEF CallIds
    <3>2. caller' = caller \/ caller'.id = 0 BY DEF Idle
    <3>3. QED BY <1>2, <1>3, <2>1, <3>1, <3>2 DEF UnreadIsUnanswered
  <2>8. SentIsARun'
    <3>1. caller' = caller \/ caller'.at # "sending" BY DEF Idle
    <3>2. QED BY <1>3, <2>1, <2>2, <3>1 DEF SentIsARun, Total
  <2>9. EndsAreRuns' BY <1>3, <2>1, <2>2 DEF EndsAreRuns, Total
  <2>10. QED BY <2>4, <2>5, <2>6, <2>7, <2>8, <2>9 DEF StreamIsFramed
<1>6. AtWork => \A i \in 1 .. Len(replies') : replies'[i].id = guest.id =>
        guest.at = "output" /\ replies'[i].kind = "event" /\ replies'[i].seq <= guest.seq
  BY <1>1, <1>2 DEF GuestIsAhead
<1>7. QED BY <1>4, <1>5, <1>6

(* The caller drops a message for a call that was abandoned. *)
LEMMA SkipStaleKeeps ==
  ASSUME ChannelInvariant, SkipStale
  PROVE  ChannelInvariant'
<1>1. /\ replies # <<>> /\ Head(replies).id # caller.id /\ replies' = Tail(replies)
      /\ UNCHANGED <<caller, wire, buffer, guest, lastAck, settled>>
  BY DEF SkipStale, AnswersMe
<1>2. ChannelTypeOK /\ GuestIsAhead /\ AnswersAreTheirOwn BY DEF ChannelInvariant
<1>3. /\ replies' \in Seq(Messages) /\ Len(replies) \in Nat /\ Len(replies') = Len(replies) - 1
      /\ Head(replies) = replies[1]
      /\ \A i \in 1 .. Len(replies') : replies'[i] = replies[i + 1]
  BY <1>1, <1>2, ReplyTaken
<1>4. ChannelTypeOK' BY <1>1, <1>2, <1>3 DEF ChannelTypeOK
<1>5. EventsAreInOrder' /\ RepliesAreWhole' BY <1>1, TakingKeepsTheReplies
<1>6. /\ CallsAreInOrder' /\ (guest.at # "ended" => StreamIsFramed')
      /\ AtWork => \A i \in 1 .. Len(replies') : replies'[i].id = guest.id =>
           guest.at = "output" /\ replies'[i].kind = "event" /\ replies'[i].seq <= guest.seq
  BY <1>1, ReadingKeepsTheRest
<1>7. GuestIsAhead'
  <2>1. ASSUME guest.at = "output", guest.id = caller.id, guest.seq # caller.seen
        PROVE  \E i \in 1 .. Len(replies') :
                 replies'[i].id = guest.id /\ replies'[i].kind = "event" /\ replies'[i].seq = guest.seq
    <3>1. PICK i \in 1 .. Len(replies) : EventOf(guest.id, guest.seq, i)
      BY <1>2, <2>1 DEF GuestIsAhead
    <3>2. i # 1 BY <1>1, <1>3, <2>1, <3>1 DEF EventOf
    <3>3. i - 1 \in 1 .. Len(replies') /\ (i - 1) + 1 = i BY <1>3, <3>2
    <3>4. PICK j \in 1 .. Len(replies') : j = i - 1 /\ i = j + 1 BY <3>3
    <3>5. QED BY <1>3, <3>1, <3>4 DEF EventOf
  <2>2. QED BY <1>1, <1>6, <2>1 DEF GuestIsAhead, AtWork, EventOf
<1>8. AnswersAreTheirOwn' BY <1>1, <1>2, GuestKeepsTheAnswers
<1>9. QED BY <1>1, <1>4, <1>5, <1>6, <1>7, <1>8 DEF ChannelInvariant

(* A call that ends for its caller, and what it must have been told if it   *)
(* returned its data.                                                       *)
LEMMA SettlingKeeps ==
  ASSUME ChannelInvariant, caller # Idle, UNCHANGED <<wire, buffer, guest, lastAck>>,
         NEW how \in {"ok", "failed", "sink_failed", "abandoned", "unreachable"}, NEW reply \in Seq(Messages),
         SettleCall(how, reply),
         replies' = replies \/ (replies # <<>> /\ replies' = Tail(replies)),
         how = "ok" => /\ reply[1].id = caller.id /\ reply[1].whole
                       /\ settled[caller.id].op = "tree" => reply[1].files = Files
                       /\ settled[caller.id].op \in Streams => reply[1].seq = caller.seen
  PROVE  ChannelInvariant'
<1> DEFINE c == caller.id
           s == caller.seen
           e == [settled[c] EXCEPT !.how = how, !.seen = s, !.reply = reply]
<1>1. settled' = [settled EXCEPT ![c] = e] /\ caller' = Idle BY DEF SettleCall
<1>2. /\ ChannelTypeOK /\ EventsAreInOrder /\ RepliesAreWhole /\ GuestIsAhead /\ AnswersAreTheirOwn
  BY DEF ChannelInvariant
<1>3. c \in CallIds /\ s \in Nat /\ c # 0 BY <1>2, CallerIsLast, ChannelTypes DEF CallIds
<1>4. settled \in [CallIds -> Settlements] /\ settled[c] \in Settlements
  BY <1>2, <1>3 DEF ChannelTypeOK
<1>5. /\ e \in Settlements /\ e.how = how /\ e.seen = s /\ e.reply = reply /\ e.op = settled[c].op
  BY <1>3, <1>4 DEF Settlements
<1> HIDE DEF e
<1>6. /\ settled' \in [CallIds -> Settlements] /\ settled'[c] = e
      /\ \A d \in CallIds : d # c => settled'[d] = settled[d]
  BY <1>1, <1>3, <1>4, <1>5
<1>7. /\ \A d \in CallIds : settled'[d].op = settled[d].op
      /\ \A d \in CallIds : settled'[d].how = "ok" => settled[d].how = "ok" \/ d = caller.id
  BY <1>3, <1>5, <1>6
<1>8. caller' \in CallStates /\ caller'.id = 0 BY <1>1 DEF Idle, CallStates
<1>9. replies' \in Seq(Messages) BY <1>2, ReplyTaken DEF ChannelTypeOK
<1>10. ChannelTypeOK' BY <1>2, <1>6, <1>8, <1>9 DEF ChannelTypeOK
<1>11. /\ CallsAreInOrder' /\ (guest.at # "ended" => StreamIsFramed')
       /\ AtWork => \A i \in 1 .. Len(replies') : replies'[i].id = guest.id =>
            guest.at = "output" /\ replies'[i].kind = "event" /\ replies'[i].seq <= guest.seq
  BY <1>1, <1>7, ReadingKeepsTheRest
<1>12. \A i \in 1 .. Len(replies) : replies[i].id \in CallIds /\ replies[i].id # 0
  BY <1>2, ChannelTypes DEF CallIds
<1>13. EventsAreInOrder' /\ RepliesAreWhole'
  <2>1. CASE replies' = replies
    <3>1. RepliesAreWhole' BY <1>2, <1>7, <1>12, <2>1 DEF RepliesAreWhole
    <3>2. EventsAreInOrder' BY <1>2, <1>7, <1>8, <1>12, <2>1 DEF EventsAreInOrder, EventOf
    <3>3. QED BY <3>1, <3>2
  <2>2. CASE replies # <<>> /\ replies' = Tail(replies)
    <3>1. Head(replies).id # 0 BY <1>2, <1>12, <2>2, ReplyTaken
    <3>2. QED BY <1>7, <1>8, <2>2, <3>1, TakingKeepsTheReplies
  <2>3. QED BY <2>1, <2>2
<1>14. GuestIsAhead'
  <2>1. guest.at = "output" /\ guest.at # "ended" => guest.id # 0
    <3>1. guest.at = "output" => GuestIsInOrder BY DEF ChannelInvariant, StreamIsFramed
    <3>2. QED BY <3>1 DEF GuestIsInOrder, AtWork, CallIds
  <2>2. QED BY <1>8, <1>11, <2>1 DEF GuestIsAhead, AtWork, EventOf
<1>15. AnswersAreTheirOwn'
  <2>1. ASSUME NEW d \in CallIds, settled'[d].how = "ok"
        PROVE  /\ settled'[d].reply[1].id = d /\ settled'[d].reply[1].whole
               /\ settled'[d].op = "tree" => settled'[d].reply[1].files = Files
               /\ settled'[d].op \in Streams => settled'[d].reply[1].seq = settled'[d].seen
    <3>1. CASE d = c
      <4>1. how = "ok" /\ settled'[d] = e BY <1>5, <1>6, <2>1, <3>1
      <4>2. QED BY <1>5, <3>1, <4>1
    <3>2. CASE d # c
      <4>1. settled'[d] = settled[d] BY <1>6, <3>2
      <4>2. QED BY <1>2, <2>1, <4>1 DEF AnswersAreTheirOwn
    <3>3. QED BY <3>1, <3>2
  <2>2. QED BY <2>1 DEF AnswersAreTheirOwn
<1>16. QED BY <1>10, <1>11, <1>13, <1>14, <1>15 DEF ChannelInvariant

(* The next event of the call that waits, acknowledged or not.              *)
LEMMA TakeEventKeeps ==
  ASSUME ChannelInvariant, TakeEvent
  PROVE  ChannelInvariant'
<1> DEFINE m == Head(replies)
           n == caller.seen + 1
           t == Ack(caller.id, m.seq)
<1>1. /\ caller.at = "receiving" /\ replies # <<>> /\ replies' = Tail(replies)
      /\ m.id = caller.id /\ m.kind = "event"
      /\ UNCHANGED <<buffer, guest, lastAck, settled>>
      /\ wire' = Append(wire, t) \/ wire' = wire
  BY DEF TakeEvent, Acknowledge, AnswersMe
<1>2. PICK ok \in {FALSE, caller.sink} : caller' = [caller EXCEPT !.seen = n, !.sink = ok]
  BY DEF TakeEvent
<1>3. /\ ChannelTypeOK /\ EventsAreInOrder /\ RepliesAreWhole /\ GuestIsAhead /\ AnswersAreTheirOwn
  BY DEF ChannelInvariant
<1>4. caller # Idle BY <1>1 DEF Idle
<1>5. caller \in CallStates /\ caller.id \in CallIds /\ caller.seen \in Nat /\ Len(Unread) \in Nat /\ Total \in Nat
  BY <1>3, <1>4, CallerIsLast, ChannelTypes
<1>6. n \in Nat /\ n = caller.seen + 1 /\ n # 0 BY <1>5
<1>7. ok \in BOOLEAN BY <1>5 DEF CallStates
<1> HIDE DEF n
<1>8. /\ caller' \in CallStates /\ caller'.id = caller.id /\ caller'.seen = n /\ caller'.at = "receiving"
  BY <1>1, <1>2, <1>5, <1>6, <1>7 DEF CallStates
<1>9. /\ replies' \in Seq(Messages) /\ Len(replies) \in Nat /\ Len(replies') = Len(replies) - 1
      /\ 1 \in 1 .. Len(replies) /\ m = replies[1] /\ m \in Messages
      /\ \A i \in 1 .. Len(replies') : i + 1 \in 1 .. Len(replies) /\ replies'[i] = replies[i + 1]
  BY <1>1, <1>3, ReplyTaken
<1>10. \A i \in 1 .. Len(replies) : replies[i] \in Messages /\ replies[i].seq \in Nat
  BY <1>3, ChannelTypes
<1> HIDE DEF m
<1>11. m.seq = n /\ m.seq \in Nat
  <2>1. \/ m.seq = caller.seen + 1
        \/ \E j \in 1 .. 1 - 1 : EventOf(m.id, m.seq - 1, j)
    BY <1>1, <1>3, <1>9 DEF EventsAreInOrder
  <2>2. QED BY <1>6, <2>1
<1>12. t.id = caller.id /\ t.kind = "ack" /\ t \in Tokens BY <1>5, <1>11 DEF Ack, Tokens
<1> HIDE DEF t
<1>13. wire' \in Seq(Tokens)
  <2>1. CASE wire' = wire BY <1>3, <2>1 DEF ChannelTypeOK
  <2>2. CASE wire' = Append(wire, t) BY <1>1, <1>3, <1>12, <2>2, TokenAdded
  <2>3. QED BY <1>1, <2>1, <2>2
<1>14. ChannelTypeOK' BY <1>1, <1>3, <1>8, <1>9, <1>13 DEF ChannelTypeOK
<1>15. caller' # Idle BY <1>8 DEF Idle
<1>16. CallsAreInOrder'
  <2>1. \A i \in 1 .. Len(replies') : \E j \in 1 .. Len(replies) : replies'[i] = replies[j]
    BY <1>9
  <2>2. CASE wire' = Append(wire, t)
    <3>1. Added(t) BY <1>1, <1>3, <1>12, <2>2, TokenAdded
    <3>2. QED BY <1>1, <1>4, <1>8, <1>12, <1>15, <2>1, <3>1, SendingKeepsTheCalls
  <2>3. CASE wire' = wire
    <3>1. PICK k \in 0 .. MaxCall : CallsUpTo(k) BY DEF ChannelInvariant, CallsAreInOrder
    <3>2. Unread' = Unread BY <1>1, <2>3 DEF Unread
    <3>3. \A i \in 1 .. Len(replies') : replies'[i].id <= k BY <2>1, <3>1 DEF CallsUpTo
    <3>4. caller'.id # 0 BY <1>5, <1>8 DEF CallIds
    <3>5. CallsUpTo(k)' BY <1>1, <1>8, <1>15, <3>1, <3>2, <3>3, <3>4 DEF CallsUpTo, Idle
    <3>6. QED BY <3>5 DEF CallsAreInOrder
  <2>4. QED BY <1>1, <2>2, <2>3
<1>17. ASSUME guest.at # "ended" PROVE StreamIsFramed'
  <2>1. /\ TokensAreInOrder /\ RequestsAreCalls /\ GuestIsInOrder /\ UnreadIsUnanswered /\ EndsAreRuns
    BY <1>17 DEF ChannelInvariant, StreamIsFramed
  <2>2. \A i \in 1 .. Len(Unread) : Unread[i].kind \in OpKinds => Unread[i].id # caller.id
    <3>1. \A i \in 1 .. Len(Unread) : Unread[i].kind \in OpKinds => m.id < Unread[i].id
      BY <1>9, <2>1 DEF UnreadIsUnanswered
    <3>2. m.id \in Nat BY <1>1, <1>5 DEF CallIds
    <3>3. QED BY <1>1, <3>1, <3>2
  <2>3. SentIsARun' BY <1>8 DEF SentIsARun
  <2>4. CASE wire' = wire
    <3>1. Unread' = Unread BY <1>1, <2>4 DEF Unread
    <3>2. \A c, k, o : Run(c, k, o) => Run(c, k, o)'
      BY <1>1, <3>1 DEF Run, InBody, Token, BodyToken
    <3>3. TokensAreInOrder' /\ RequestsAreCalls' /\ GuestIsInOrder'
      BY <1>1, <2>1, <3>1 DEF TokensAreInOrder, RequestsAreCalls, GuestIsInOrder, AtWork
    <3>4. UnreadIsUnanswered' BY <1>8, <1>9, <2>1, <2>2, <3>1 DEF UnreadIsUnanswered
    <3>5. EndsAreRuns' BY <2>1, <3>1, <3>2 DEF EndsAreRuns, Total
    <3>6. QED BY <2>3, <3>3, <3>4, <3>5 DEF StreamIsFramed
  <2>5. CASE wire' = Append(wire, t)
    <3>1. Added(t) BY <1>1, <1>3, <1>12, <2>5, TokenAdded
    <3>2. t.kind \notin OpKinds BY <1>12 DEF OpKinds
    <3>3. TokensAreInOrder' /\ RequestsAreCalls' /\ GuestIsInOrder'
      BY <1>1, <1>4, <1>8, <1>12, <1>17, <3>1, <3>2, SendingKeepsTheOrder
    <3>4. /\ Len(Unread') = Len(Unread) + 1 /\ Unread'[Len(Unread) + 1] = t
          /\ \A i \in 1 .. Len(Unread) : Unread'[i] = Unread[i]
      BY <3>1 DEF Added
    <3>5. \A i \in 1 .. Len(Unread') : i = Len(Unread) + 1 \/ i \in 1 .. Len(Unread)
      BY <1>5, <3>4
    <3>6. UnreadIsUnanswered'
      <4>1. ASSUME NEW i \in 1 .. Len(Unread'), Unread'[i].kind \in OpKinds
            PROVE  /\ \A j \in 1 .. Len(replies') : replies'[j].id < Unread'[i].id
                   /\ Unread'[i].id # caller'.id
        <5>1. i \in 1 .. Len(Unread) /\ Unread'[i] = Unread[i] BY <3>2, <3>4, <3>5, <4>1
        <5>2. \A j \in 1 .. Len(replies) : replies[j].id < Unread[i].id
          BY <2>1, <4>1, <5>1 DEF UnreadIsUnanswered
        <5>3. QED BY <1>8, <1>9, <2>2, <4>1, <5>1, <5>2
      <4>2. QED BY <4>1 DEF UnreadIsUnanswered
    <3>7. EndsAreRuns'
      <4>1. ASSUME NEW k \in 1 .. Len(Unread'), Unread'[k].kind = "end"
            PROVE  \E d \in CallIds, o \in Int : d = Unread'[k].id /\ o = Total + 1 - k /\ Run(d, k, o)'
        <5>1. k \in 1 .. Len(Unread) BY <1>12, <3>4, <3>5, <4>1
        <5>2. PICK d \in CallIds, o \in Int : d = Unread[k].id /\ o = Total + 1 - k
          BY <1>3, <1>5, <5>1, ChannelTypes
        <5>3. Run(d, k, o) BY <2>1, <3>4, <4>1, <5>1, <5>2 DEF EndsAreRuns
        <5>4. k <= Len(Unread) /\ k \in Int BY <1>5, <5>1
        <5>5. Run(d, k, o)' BY <1>1, <3>1, <5>3, <5>4, RunGrows
        <5>6. QED BY <3>4, <5>1, <5>2, <5>5
      <4>2. QED BY <4>1 DEF EndsAreRuns, Run, InBody, Total
    <3>8. QED BY <2>3, <3>3, <3>6, <3>7 DEF StreamIsFramed
  <2>6. QED BY <1>1, <2>4, <2>5
<1>18. \A j \in 1 .. Len(replies) : EventOf(caller.id, n, j) => j = 1
  BY <1>1, <1>3, <1>9, <1>11 DEF EventsAreInOrder
<1>19. ASSUME NEW i \in 1 .. Len(replies'), replies'[i].kind = "event"
       PROVE  /\ \A j \in 1 .. Len(replies') : (replies'[j].id = replies'[i].id /\ replies'[j].kind = "event"
                                        /\ replies'[j].seq = replies'[i].seq) => i = j
              /\ replies'[i].id = caller'.id =>
                   \/ replies'[i].seq = caller'.seen + 1
                   \/ /\ replies'[i].seq > caller'.seen + 1
                      /\ \E j \in 1 .. i - 1 : replies'[j].id = replies'[i].id /\ replies'[j].kind = "event"
                                               /\ replies'[j].seq = replies'[i].seq - 1
  <2>1. PICK k \in 1 .. Len(replies), r \in Messages : k = i + 1 /\ r = replies[k] /\ replies'[i] = r
    BY <1>9, <1>10
  <2>2. r.kind = "event" /\ r.seq \in Nat /\ k # 1 BY <1>19, <2>1 DEF Messages
  <2>3. \A j \in 1 .. Len(replies) : EventOf(r.id, r.seq, j) => k = j
    BY <1>3, <2>1, <2>2 DEF EventsAreInOrder
  <2>4. \A j \in 1 .. Len(replies') : (replies'[j].id = r.id /\ replies'[j].kind = "event" /\ replies'[j].seq = r.seq) => i = j
    <3>1. ASSUME NEW j \in 1 .. Len(replies'), replies'[j].id = r.id, replies'[j].kind = "event", replies'[j].seq = r.seq
          PROVE  i = j
      <4>1. j + 1 \in 1 .. Len(replies) /\ replies'[j] = replies[j + 1] BY <1>9
      <4>2. k = j + 1 BY <2>3, <3>1, <4>1 DEF EventOf
      <4>3. QED BY <1>9, <2>1, <4>2
    <3>2. QED BY <3>1
  <2>5. ASSUME r.id = caller.id
        PROVE  \/ r.seq = n + 1
               \/ /\ r.seq > n + 1
                  /\ \E j \in 1 .. i - 1 : replies'[j].id = r.id /\ replies'[j].kind = "event"
                                           /\ replies'[j].seq = r.seq - 1
    <3>1. r.seq # n
      <4>1. EventOf(caller.id, r.seq, k) BY <2>1, <2>2, <2>5 DEF EventOf
      <4>2. QED BY <1>18, <2>2, <4>1
    <3>2. r.seq > n /\ \E j \in 1 .. k - 1 : EventOf(r.id, r.seq - 1, j)
      BY <1>3, <1>6, <2>1, <2>2, <2>5, <3>1 DEF EventsAreInOrder
    <3>3. PICK j \in 1 .. k - 1 : EventOf(r.id, r.seq - 1, j) BY <3>2
    <3>4. CASE j = 1
      <4>1. m.seq = r.seq - 1 BY <1>9, <3>3, <3>4 DEF EventOf
      <4>2. QED BY <1>6, <1>11, <2>2, <4>1
    <3>5. CASE j # 1
      <4>1. PICK l \in 1 .. i - 1 : j = l + 1 BY <1>9, <2>1, <3>5
      <4>2. l \in 1 .. Len(replies') BY <1>9
      <4>3. replies'[l] = replies[j] BY <1>9, <4>1, <4>2
      <4>4. r.seq - 1 # n
        <5>1. j \in 1 .. Len(replies) BY <1>9, <2>1
        <5>2. r.seq - 1 = n => EventOf(caller.id, n, j) BY <2>5, <3>3
        <5>3. QED BY <1>18, <3>5, <5>1, <5>2
      <4>5. r.seq > n + 1 BY <1>6, <2>2, <3>2, <4>4
      <4>6. QED BY <3>3, <4>1, <4>3, <4>5 DEF EventOf
    <3>6. QED BY <3>4, <3>5
  <2>6. QED BY <1>8, <2>1, <2>4, <2>5
<1>20. ASSUME NEW i \in 1 .. Len(replies'), replies'[i].kind = "ok"
       PROVE  /\ \A j \in 1 .. Len(replies') : replies'[j].kind = "event" /\ replies'[j].id = replies'[i].id
                                       => replies'[j].seq <= replies'[i].seq
              /\ replies'[i].id = caller'.id /\ settled'[replies'[i].id].op \in Streams =>
                   \/ replies'[i].seq = caller'.seen
                   \/ \E j \in 1 .. i - 1 : replies'[j].id = replies'[i].id /\ replies'[j].kind = "event"
                                            /\ replies'[j].seq = replies'[i].seq
  <2>1. PICK k \in 1 .. Len(replies), r \in Messages : k = i + 1 /\ r = replies[k] /\ replies'[i] = r
    BY <1>9, <1>10
  <2>2. r.kind = "ok" /\ r.seq \in Nat BY <1>20, <2>1 DEF Messages
  <2>3. \A j \in 1 .. Len(replies) : replies[j].kind = "event" /\ replies[j].id = r.id => replies[j].seq <= r.seq
    BY <1>3, <2>1, <2>2 DEF EventsAreInOrder
  <2>4. ASSUME r.id = caller.id, settled[r.id].op \in Streams
        PROVE  \/ r.seq = n
               \/ \E j \in 1 .. i - 1 : replies'[j].id = r.id /\ replies'[j].kind = "event"
                                        /\ replies'[j].seq = r.seq
    <3>1. n <= r.seq BY <1>1, <1>9, <1>11, <2>3, <2>4
    <3>2. r.seq = caller.seen \/ \E j \in 1 .. k - 1 : EventOf(r.id, r.seq, j)
      BY <1>3, <2>1, <2>2, <2>4 DEF EventsAreInOrder
    <3>3. r.seq # caller.seen BY <1>5, <1>6, <2>2, <3>1
    <3>4. PICK j \in 1 .. k - 1 : EventOf(r.id, r.seq, j) BY <3>2, <3>3
    <3>5. CASE j = 1 BY <1>9, <1>11, <3>4, <3>5 DEF EventOf
    <3>6. CASE j # 1
      <4>1. PICK l \in 1 .. i - 1 : j = l + 1 BY <1>9, <2>1, <3>6
      <4>2. l \in 1 .. Len(replies') BY <1>9
      <4>3. replies'[l] = replies[j] BY <1>9, <4>1, <4>2
      <4>4. QED BY <3>4, <4>1, <4>3 DEF EventOf
    <3>7. QED BY <3>5, <3>6
  <2>5. \A j \in 1 .. Len(replies') : replies'[j].kind = "event" /\ replies'[j].id = r.id => replies'[j].seq <= r.seq
    BY <1>9, <2>3
  <2>6. QED BY <1>1, <1>8, <2>1, <2>4, <2>5
<1>21. EventsAreInOrder' BY <1>19, <1>20 DEF EventsAreInOrder, EventOf
<1>22. RepliesAreWhole' BY <1>1, <1>3, <1>9 DEF RepliesAreWhole
<1>23. GuestIsAhead'
  <2>1. ASSUME AtWork
        PROVE  \A i \in 1 .. Len(replies') : replies'[i].id = guest.id =>
                 guest.at = "output" /\ replies'[i].kind = "event" /\ replies'[i].seq <= guest.seq
    BY <1>3, <1>9, <2>1 DEF GuestIsAhead
  <2>2. ASSUME guest.at = "output", guest.id = caller.id
        PROVE  \/ guest.seq = n
               \/ \E i \in 1 .. Len(replies') :
                    replies'[i].id = guest.id /\ replies'[i].kind = "event" /\ replies'[i].seq = guest.seq
    <3>1. m.seq <= guest.seq /\ guest.seq \in Nat
      <4>1. guest.seq \in Nat BY <1>3, ChannelTypes
      <4>2. m.seq <= guest.seq BY <1>1, <1>3, <1>9, <2>2 DEF GuestIsAhead, AtWork
      <4>3. QED BY <4>1, <4>2
    <3>2. guest.seq # caller.seen BY <1>5, <1>6, <1>11, <3>1
    <3>3. PICK i \in 1 .. Len(replies) : EventOf(guest.id, guest.seq, i)
      BY <1>3, <2>2, <3>2 DEF GuestIsAhead
    <3>4. CASE i = 1 BY <1>9, <1>11, <3>3, <3>4 DEF EventOf
    <3>5. CASE i # 1
      <4>1. i - 1 \in 1 .. Len(replies') /\ (i - 1) + 1 = i BY <1>9, <3>5
      <4>2. PICK j \in 1 .. Len(replies') : j = i - 1 /\ i = j + 1 BY <4>1
      <4>3. QED BY <1>9, <3>3, <4>2 DEF EventOf
    <3>6. QED BY <3>4, <3>5
  <2>3. QED BY <1>1, <1>8, <2>1, <2>2 DEF GuestIsAhead, AtWork, EventOf
<1>24. AnswersAreTheirOwn' BY <1>1, <1>3, GuestKeepsTheAnswers
<1>25. QED BY <1>1, <1>14, <1>16, <1>17, <1>21, <1>22, <1>23, <1>24 DEF ChannelInvariant

(* The caller takes the answer to its request, and returns it or raises. *)
LEMMA TakeReplyKeeps ==
  ASSUME ChannelInvariant, TakeReply
  PROVE  ChannelInvariant'
<1> DEFINE m == Head(replies)
           how == IF m.kind = "err" THEN "failed" ELSE IF caller.sink THEN "ok" ELSE "sink_failed"
<1>1. /\ caller.at = "receiving" /\ replies # <<>> /\ replies' = Tail(replies)
      /\ m.id = caller.id /\ m.kind # "event"
      /\ SettleCall(how, <<m>>)
      /\ UNCHANGED <<wire, buffer, guest, lastAck>>
  BY DEF TakeReply, AnswersMe
<1>2. ChannelTypeOK /\ EventsAreInOrder /\ RepliesAreWhole BY DEF ChannelInvariant
<1>3. caller # Idle BY <1>1 DEF Idle
<1>4. 1 \in 1 .. Len(replies) /\ m = replies[1] /\ m \in Messages BY <1>1, <1>2, ReplyTaken
<1>5. how \in {"ok", "failed", "sink_failed", "abandoned", "unreachable"} /\ (how = "ok" => m.kind = "ok")
  BY <1>1, <1>4 DEF Messages
<1> HIDE DEF m, how
<1>6. PICK q : q = <<m>> OBVIOUS
<1>7. q \in Seq(Messages) /\ q[1] = m BY <1>4, <1>6
<1>8. ASSUME how = "ok"
      PROVE  /\ q[1].id = caller.id /\ q[1].whole
             /\ settled[caller.id].op = "tree" => q[1].files = Files
             /\ settled[caller.id].op \in Streams => q[1].seq = caller.seen
  <2>1. m.kind = "ok" BY <1>5, <1>8
  <2>2. m.whole /\ (settled[m.id].op = "tree" => m.files = Files)
    BY <1>2, <1>4, <2>1 DEF RepliesAreWhole
  <2>3. settled[m.id].op \in Streams =>
          m.seq = caller.seen \/ \E j \in 1 .. 1 - 1 : EventOf(m.id, m.seq, j)
    BY <1>1, <1>2, <1>4, <2>1 DEF EventsAreInOrder
  <2>4. QED BY <1>1, <1>7, <2>2, <2>3
<1>9. SettleCall(how, q) BY <1>1, <1>6
<1>10. QED BY <1>1, <1>3, <1>5, <1>7, <1>8, <1>9, SettlingKeeps

-----------------------------------------------------------------------------
(* Nothing was sent yet. *)
LEMMA ChannelInitiallyHolds == ChannelInit => ChannelInvariant
<1> SUFFICES ASSUME ChannelInit PROVE ChannelInvariant
  OBVIOUS
<1>1. /\ caller = Idle /\ wire = <<>> /\ buffer = <<>> /\ replies = <<>> /\ guest = NoRequest /\ lastAck = 0
      /\ settled = [c \in CallIds |-> Unsettled]
  BY DEF ChannelInit
<1>2. Unread = <<>> /\ Len(Unread) = 0 /\ Len(replies) = 0
  <2>1. Unread = <<>> BY <1>1 DEF Unread
  <2>2. QED BY <1>1, <2>1
<1>3. Unsettled \in Settlements /\ Unsettled.op = "none" /\ Unsettled.how = "none"
  <2>1. PICK q \in Seq(Messages) : q = <<>> BY EmptySeq
  <2>2. Unsettled = [how |-> "none", op |-> "none", seen |-> 0, reply |-> q]
    BY <2>1 DEF Unsettled
  <2>3. QED BY <2>2 DEF Settlements
<1>4. guest \in Guests /\ guest.at = "serve" /\ guest.id = 0
  <2>1. 0 \in 0 .. Size BY ChannelAssumption
  <2>2. QED BY <1>1, <2>1 DEF NoRequest, Guests
<1>5. caller \in CallStates /\ caller.id = 0 /\ caller.at = "idle" BY <1>1 DEF Idle, CallStates
<1>6. settled \in [CallIds -> Settlements] /\ \A c \in CallIds : settled[c].op = "none" /\ settled[c].how = "none"
  BY <1>1, <1>3
<1>7. ChannelTypeOK
  <2>1. wire \in Seq(Tokens) /\ buffer \in Seq(Tokens) /\ replies \in Seq(Messages) BY <1>1
  <2>2. QED BY <1>1, <1>4, <1>5, <1>6, <2>1 DEF ChannelTypeOK
<1>8. CallsAreInOrder
  <2>1. 0 \in 0 .. MaxCall BY ChannelAssumption
  <2>2. \A c \in CallIds : ~(c <= 0) BY DEF CallIds
  <2>3. CallsUpTo(0) BY <1>1, <1>2, <1>4, <1>5, <1>6, <2>2 DEF CallsUpTo
  <2>4. QED BY <2>1, <2>3 DEF CallsAreInOrder
<1>9. TokensAreInOrder /\ RequestsAreCalls /\ UnreadIsUnanswered /\ EndsAreRuns
  BY <1>2 DEF TokensAreInOrder, RequestsAreCalls, UnreadIsUnanswered, EndsAreRuns
<1>10. GuestIsInOrder /\ GuestIsAhead BY <1>4 DEF GuestIsInOrder, GuestIsAhead, AtWork
<1>11. SentIsARun BY <1>5 DEF SentIsARun
<1>12. EventsAreInOrder /\ RepliesAreWhole BY <1>2 DEF EventsAreInOrder, RepliesAreWhole
<1>13. AnswersAreTheirOwn BY <1>6 DEF AnswersAreTheirOwn
<1>14. QED BY <1>7, <1>8, <1>9, <1>10, <1>11, <1>12, <1>13 DEF ChannelInvariant, StreamIsFramed

(* A step of another component changes nothing here. *)
LEMMA ChannelStutters ==
  ASSUME ChannelInvariant, UNCHANGED channelVars
  PROVE  ChannelInvariant'
<1>1. UNCHANGED <<caller, wire, buffer, replies, guest, lastAck, settled>> BY DEF channelVars
<1>2. ChannelTypeOK' BY <1>1 DEF ChannelInvariant, ChannelTypeOK
<1>3. \A c \in CallIds : settled'[c].op = settled[c].op /\ (settled'[c].how = "ok" => settled[c].how = "ok")
  BY <1>1
<1>4. CallsAreInOrder' /\ (guest.at # "ended" => StreamIsFramed')
  BY <1>1, <1>3, ReadingKeepsTheRest
<1>5. EventsAreInOrder' /\ GuestIsAhead' /\ RepliesAreWhole' /\ AnswersAreTheirOwn'
  BY <1>1 DEF ChannelInvariant, EventsAreInOrder, GuestIsAhead, RepliesAreWhole,
     AnswersAreTheirOwn, EventOf, AtWork
<1>6. QED BY <1>1, <1>2, <1>4, <1>5 DEF ChannelInvariant

(* Every step of Host and guest keeps the invariant. *)
LEMMA ChannelStepKeeps ==
  ASSUME ChannelInvariant, [ChannelNext]_channelVars
  PROVE  ChannelInvariant'
<1>1. \A op \in Ops : Call(op) => ChannelInvariant' BY CallKeeps
<1>2. SendBody => ChannelInvariant' BY SendBodyKeeps
<1>3. Abandon => ChannelInvariant'
  <2>1. PICK q \in Seq(Messages) : q = <<>> BY EmptySeq
  <2>2. ASSUME Abandon PROVE ChannelInvariant'
    <3>1. /\ caller # Idle /\ SettleCall("abandoned", q) /\ UNCHANGED <<wire, buffer, guest, lastAck>>
          /\ replies' = replies
      BY <2>1, <2>2 DEF Abandon
    <3>2. QED BY <3>1, SettlingKeeps
  <2>3. QED BY <2>2
<1>4. SkipStale => ChannelInvariant' BY SkipStaleKeeps
<1>5. TakeEvent => ChannelInvariant' BY TakeEventKeeps
<1>6. GapInOutput => ChannelInvariant'
  <2>1. PICK q \in Seq(Messages) : q = <<>> BY EmptySeq
  <2>2. ASSUME GapInOutput PROVE ChannelInvariant'
    <3>1. /\ caller.at = "receiving" /\ SettleCall("unreachable", q) /\ UNCHANGED <<wire, buffer, guest, lastAck>>
          /\ replies # <<>> /\ replies' = Tail(replies)
      BY <2>1, <2>2 DEF GapInOutput
    <3>2. caller # Idle BY <3>1 DEF Idle
    <3>3. QED BY <3>1, <3>2, SettlingKeeps
  <2>3. QED BY <2>2
<1>7. TakeReply => ChannelInvariant' BY TakeReplyKeeps
<1>8. Unreachable => ChannelInvariant'
  <2>1. PICK q \in Seq(Messages) : q = <<>> BY EmptySeq
  <2>2. ASSUME Unreachable PROVE ChannelInvariant'
    <3>1. /\ caller # Idle /\ SettleCall("unreachable", q) /\ UNCHANGED <<wire, buffer, guest, lastAck>>
          /\ replies' = replies
      BY <2>1, <2>2 DEF Unreachable
    <3>2. QED BY <3>1, SettlingKeeps
  <2>3. QED BY <2>2
<1>9. GuestActs \/ Exit => ChannelInvariant'
  BY FillKeeps, DispatchKeeps, ReadFrameKeeps, ReadBlockKeeps, EmitKeeps, ReadAckKeeps,
     ReadTwoLinesKeeps, ExitKeeps
  DEF GuestActs
<1>10. UNCHANGED channelVars => ChannelInvariant' BY ChannelStutters
<1>11. QED
  BY <1>1, <1>2, <1>3, <1>4, <1>5, <1>6, <1>7, <1>8, <1>9, <1>10 DEF ChannelNext, HostReads

(* What is on the way between Host and guest follows the order of the calls, *)
(* an unread end of a body has the whole body before it, and the replies of  *)
(* a call come after its events, which come one by one: for any number of    *)
(* calls, operations, files and events.                                      *)
THEOREM ChannelInvariantHolds == ChannelSpec => []ChannelInvariant
<1>1. ChannelInit => ChannelInvariant BY ChannelInitiallyHolds
<1>2. ChannelInvariant /\ [ChannelNext]_channelVars => ChannelInvariant' BY ChannelStepKeeps
<1>3. QED BY <1>1, <1>2, PTL DEF ChannelSpec

(* A call that returned its data was answered by its own reply, about all of *)
(* its files or events, whatever was abandoned before it.                    *)
THEOREM AnswersAreTheirOwnHolds == ChannelSpec => []AnswersAreTheirOwn
<1>1. ChannelInvariant => AnswersAreTheirOwn BY DEF ChannelInvariant
<1>2. QED BY <1>1, ChannelInvariantHolds, PTL

-----------------------------------------------------------------------------
(* The files guestd writes (GuestFiles)                                   *)

(* What a node can be. *)
Kinds  == {"file", "dir", "link"}
Things == [kind : Kinds, data : {"none", "own", "sent", "part", "both", "theirs"},
           owner : {"agent", "owner", "theirs"}, to : Nodes \cup {0}]
Trees  == [node : [Nodes -> Things], entries : [Nodes -> [Names -> Nodes \cup {0}]], ok : BOOLEAN]
Paths  == {<<n>> : n \in Names} \cup {<<a, n>> : a, n \in Names}
Items  == [kind : Kinds, path : Paths, full : BOOLEAN]

(* A tree of nodes that is typed, in which what is elsewhere is untouched, no name leads out *)
(* of the agent's directory but a link or another name for the file there, and no directory  *)
(* has two names.                                                                            *)
Sound(t) ==
  /\ t \in Trees
  /\ t.node[Theirs] = File("theirs", "theirs") /\ t.node[Abroad] = Dir("theirs")
  /\ t.node[Root].kind = "dir"
  /\ t.entries[Abroad] = [Nameless EXCEPT ![SomeName] = Theirs]
  /\ \A d \in Nodes, n \in Names : t.entries[d][n] \notin {Root, Abroad}
  /\ \A m, n \in Names :
       t.entries[Root][m] = t.entries[Root][n] /\ IsA(t, t.entries[Root][m], "dir") => m = n

(* Where a path of one or two names leads in a tree, and an entry that has arrived there. *)
FoundIn(t, path) ==
  IF Len(path) = 1 THEN t.entries[Root][path[1]]
  ELSE IF IsA(t, t.entries[Root][path[1]], "dir") THEN t.entries[t.entries[Root][path[1]]][path[2]] ELSE 0
There(t, item) ==
  /\ IsA(t, FoundIn(t, item.path), item.kind) /\ t.node[FoundIn(t, item.path)].owner = "owner"
  /\ item.kind = "file" => t.node[FoundIn(t, item.path)].data = "sent"

(* The open directory below the first, and an upload. *)
Links == [name : Names, dir : Nodes \ Fixed]
Chains  == {<<>>} \cup {<<below>> : below \in Links}
Uploads == [open : BOOLEAN, chain : Chains, failed : BOOLEAN, sent : Seq(Items), since : Nat]
UploadType ==
  /\ upload \in Uploads /\ touches \in Nat
  /\ upload.open => upload.since <= touches /\ answered = NoneTold
  /\ ~ upload.open => upload = NoUpload

(* The open directory is still the one of its name, and the owner's. *)
OpenedThere(t, chain) == chain # <<>> =>
  /\ t.entries[Root][chain[1].name] = chain[1].dir
  /\ t.node[chain[1].dir].kind = "dir" /\ t.node[chain[1].dir].owner = "owner"

(* While nobody has intervened, every entry sent so far is under its own path. *)
Undisturbed ==
  upload.open /\ ~ upload.failed /\ touches = upload.since =>
    /\ OpenedThere(Now, upload.chain)
    /\ \A i \in DOMAIN upload.sent : There(Now, upload.sent[i])

(* What was told last is true. *)
Told ==
  /\ answered.sent \in Seq(Items)
  /\ answered.ok /\ answered.alone => \A i \in DOMAIN answered.sent : There(Now, answered.sent[i])

(* The inductive invariant, and the part of the system it is about. *)
FilesInvariant == Sound(Now) /\ UploadType /\ Undisturbed /\ Told

FilesSpec == FilesInit /\ [][FilesNext]_fileVars

(* The tree that a settled tree is. *)
SettledTree(t, chain) ==
  [node    |-> [i \in Nodes |-> IF i \in Reached(t, chain) THEN t.node[i] ELSE Nothing],
   entries |-> [i \in Nodes |-> IF i \in Reached(t, chain) THEN t.entries[i] ELSE Nameless],
   ok |-> TRUE]

(* The directory uploads go to, the one elsewhere and the file in that are three nodes; 0 is *)
(* none.                                                                                     *)
LEMMA FixedNodes == Root \in Nodes /\ Abroad \in Nodes /\ Theirs \in Nodes /\ SomeName \in Names
                    /\ 0 \notin Nodes /\ Root # Abroad /\ Root # Theirs /\ Abroad # Theirs
                    /\ Fixed = {Root, Abroad, Theirs}
BY FilesAssumption DEF Fixed, Root, Abroad, Theirs, SomeName

(* What guestd and the agent make (_copy, symlink, mkdir) is a node of one of the known *)
(* forms.                                                                               *)
LEMMA ThingsTyped ==
  /\ Nothing \in Things
  /\ \A who \in {"agent", "owner", "theirs"} : Dir(who) \in Things
  /\ \A who \in {"agent", "owner", "theirs"}, what \in {"none", "own", "sent", "part", "both", "theirs"} :
       File(what, who) \in Things
  /\ \A to \in Nodes, who \in {"agent", "owner", "theirs"} : LinkTo(to, who) \in Things
BY DEF Things, Kinds, Nothing, File, Dir, LinkTo

(* A step that leaves a tree behind leaves it settled: what nothing leads to is gone. *)
LEMMA SettlesIs ==
  ASSUME NEW t, NEW chain, Settles(t, chain)
  PROVE  Now' = SettledTree(t, chain)
BY DEF Settles, SettledTree, Now

(* Unlinking a name, outside the directory that is elsewhere, keeps a tree sound; only that *)
(* name changes.                                                                            *)
LEMMA UnlinkedSound ==
  ASSUME NEW t, Sound(t), NEW d \in Nodes \ {Abroad}, NEW n \in Names
  PROVE  /\ Sound(Unlinked(t, d, n))
         /\ Unlinked(t, d, n).node = t.node /\ Unlinked(t, d, n).ok = t.ok
         /\ Unlinked(t, d, n).entries \in [Nodes -> [Names -> Nodes \cup {0}]]
         /\ \A e \in Nodes, m \in Names :
              Unlinked(t, d, n).entries[e][m] = IF e = d /\ m = n THEN 0 ELSE t.entries[e][m]
<1> DEFINE u == Unlinked(t, d, n)
<1>1. t.entries \in [Nodes -> [Names -> Nodes \cup {0}]] /\ t.node \in [Nodes -> Things] /\ t.ok \in BOOLEAN
      /\ t \in Trees
  BY DEF Sound, Trees
<1>2. u.node = t.node /\ u.ok = t.ok /\ u.entries = [t.entries EXCEPT ![d] = [@ EXCEPT ![n] = 0]]
      /\ u \in Trees
  BY <1>1 DEF Unlinked, Trees
<1>3. u.entries \in [Nodes -> [Names -> Nodes \cup {0}]] BY <1>2 DEF Trees
<1>4. \A e \in Nodes, m \in Names : u.entries[e][m] = IF e = d /\ m = n THEN 0 ELSE t.entries[e][m]
  BY <1>1, <1>2
<1>5. u.entries[Abroad] = t.entries[Abroad] BY <1>1, <1>2, FixedNodes
<1> HIDE DEF u
<1>6. Sound(u)
  BY <1>1, <1>2, <1>3, <1>4, <1>5, FixedNodes DEF Sound, IsA
<1>7. QED BY <1>2, <1>3, <1>4, <1>6 DEF u

(* The tree in which new is what is at the name n of d. *)
MadeAs(t, d, n, what, new) ==
  /\ new \in Nodes /\ new \notin Fixed /\ new \notin OpenDirs(upload.chain)
  /\ \A e \in Nodes, m \in Names : t.entries[e][m] # new
  /\ WithNew(t, d, n, what).node = [t.node EXCEPT ![new] = what]
  /\ WithNew(t, d, n, what).entries = [[t.entries EXCEPT ![new] = Nameless] EXCEPT ![d] = [@ EXCEPT ![n] = new]]

(* A new node at a name keeps a tree sound; it is a node that nothing led to. *)
LEMMA WithNewSound ==
  ASSUME NEW t, Sound(t), NEW d \in Nodes \ {Abroad}, NEW n \in Names, NEW what \in Things,
         UnusedNodes(t.entries) # {}
  PROVE  /\ Sound(WithNew(t, d, n, what)) /\ WithNew(t, d, n, what).ok = t.ok
         /\ \E new \in UnusedNodes(t.entries) : MadeAs(t, d, n, what, new)
<1> DEFINE r == WithNew(t, d, n, what)
<1> DEFINE new == CHOOSE i \in UnusedNodes(t.entries) : TRUE
<1>1. t.entries \in [Nodes -> [Names -> Nodes \cup {0}]] /\ t.node \in [Nodes -> Things] /\ t.ok \in BOOLEAN
      /\ t \in Trees
  BY DEF Sound, Trees
<1>2. new \in UnusedNodes(t.entries) OBVIOUS
<1>3. r = [t EXCEPT !.node[new] = what, !.entries[new] = Nameless, !.entries[d][n] = new]
  BY DEF WithNew
<1> HIDE DEF new, r
<1>4. /\ new \in Nodes /\ new \notin Fixed /\ new \notin OpenDirs(upload.chain)
      /\ \A e \in Nodes, m \in Names : t.entries[e][m] # new
  BY <1>2 DEF UnusedNodes, NamedNodes
<1>t. t = [node |-> t.node, entries |-> t.entries, ok |-> t.ok] BY <1>1 DEF Trees
<1>5. /\ r.node = [t.node EXCEPT ![new] = what] /\ r.ok = t.ok
      /\ r.entries = [[t.entries EXCEPT ![new] = Nameless] EXCEPT ![d] = [@ EXCEPT ![n] = new]]
      /\ r = [node |-> r.node, entries |-> r.entries, ok |-> r.ok]
  BY <1>3, <1>t
<1>6. Nameless \in [Names -> Nodes \cup {0}] /\ \A m \in Names : Nameless[m] = 0 BY DEF Nameless
<1>b. PICK f \in [Nodes -> [Names -> Nodes \cup {0}]] : f = [t.entries EXCEPT ![new] = Nameless]
  BY <1>1, <1>4, <1>6
<1>c. \A e \in Nodes, m \in Names : f[e][m] = IF e = new THEN 0 ELSE t.entries[e][m]
  BY <1>1, <1>4, <1>6, <1>b
<1>d. r.entries = [f EXCEPT ![d] = [@ EXCEPT ![n] = new]] BY <1>5, <1>b
<1>7. r.entries \in [Nodes -> [Names -> Nodes \cup {0}]] BY <1>d, <1>4
<1>8. \A e \in Nodes, m \in Names :
        r.entries[e][m] = IF e = d /\ m = n THEN new ELSE IF e = new THEN 0 ELSE t.entries[e][m]
  BY <1>c, <1>d, <1>4
<1>e. r.node \in [Nodes -> Things] BY <1>1, <1>4, <1>5
<1>9. r \in Trees BY <1>1, <1>e, <1>5, <1>7 DEF Trees
<1>10. r.entries[Abroad] = t.entries[Abroad] /\ r.node[Abroad] = t.node[Abroad] /\ r.node[Theirs] = t.node[Theirs]
       /\ r.node[Root] = t.node[Root]
  BY <1>1, <1>4, <1>5, FixedNodes
<1>11. \A e \in Nodes, m \in Names : r.entries[e][m] \notin {Root, Abroad}
  <2>1. \A e \in Nodes, m \in Names : t.entries[e][m] \notin {Root, Abroad} BY DEF Sound
  <2>2. QED BY <1>4, <1>8, <2>1, FixedNodes
<1>12. ASSUME NEW k \in Names, NEW m \in Names,
              r.entries[Root][k] = r.entries[Root][m], IsA(r, r.entries[Root][k], "dir")
       PROVE  k = m
  <2>1. CASE r.entries[Root][k] = new
    <3>1. r.entries[Root][k] = new /\ r.entries[Root][m] = new BY <1>12, <2>1
    <3>2. \A j \in Names : r.entries[Root][j] = new => j = n
      <4>1. Root # new /\ new # 0 BY <1>4, FixedNodes
      <4>2. QED BY <1>4, <1>8, <4>1, FixedNodes
    <3>3. QED BY <3>1, <3>2
  <2>2. CASE r.entries[Root][k] # new
    <3>1. r.entries[Root][k] = t.entries[Root][k] /\ r.entries[Root][m] = t.entries[Root][m]
      BY <1>4, <1>8, <1>12, <2>2, FixedNodes DEF IsA
    <3>2. r.entries[Root][k] \in Nodes /\ r.entries[Root][k] # 0
      BY <1>1, <1>12, <3>1, FixedNodes DEF IsA
    <3>3. r.node[r.entries[Root][k]] = t.node[r.entries[Root][k]]
      BY <1>1, <1>5, <2>2, <3>2
    <3>4. IsA(t, t.entries[Root][k], "dir") BY <1>12, <3>1, <3>2, <3>3 DEF IsA
    <3>5. QED BY <1>12, <3>1, <3>4 DEF Sound
  <2>3. QED BY <2>1, <2>2
<1>13. Sound(r)
  BY <1>9, <1>10, <1>11, <1>12 DEF Sound
<1>14. MadeAs(t, d, n, what, new) BY <1>4, <1>5 DEF MadeAs, r
<1>15. QED BY <1>2, <1>5, <1>13, <1>14 DEF r

(* The path neither ends nor begins at the name n of the directory d. *)
Apart(t, path, d, n) ==
  /\ d = Root => path[1] # n
  /\ Len(path) = 2 /\ d = t.entries[Root][path[1]] => path[2] # n

(* The paths of an upload have one name or two (_entry_parts); the first of two is above the *)
(* path.                                                                                     *)
LEMMA ShortPaths ==
  ASSUME NEW a \in Names, NEW n \in Names
  PROVE  /\ Append(<<>>, n) = <<n>> /\ Append(<<a>>, n) = <<a, n>>
         /\ Above(<<a, n>>) = <<a>>
<1>1. /\ <<a, n>> \in Seq(Names) /\ Len(<<a, n>>) = 2 /\ <<a, n>>[1] = a /\ <<a, n>>[2] = n
      /\ <<>> \in Seq(Names) /\ Len(<<>>) = 0
      /\ <<a>> \in Seq(Names) /\ Len(<<a>>) = 1 /\ <<a>>[1] = a
      /\ <<n>> \in Seq(Names) /\ Len(<<n>>) = 1 /\ <<n>>[1] = n
  OBVIOUS
<1>2. Append(<<>>, n) = <<n>>
  <2>1. Append(<<>>, n) \in Seq(Names) /\ Len(Append(<<>>, n)) = 1 /\ Append(<<>>, n)[1] = n
    BY <1>1, AppendProperties
  <2>2. QED BY <1>1, <2>1, SeqEqual
<1>3. Append(<<a>>, n) = <<a, n>>
  <2>1. Append(<<a>>, n) \in Seq(Names) /\ Len(Append(<<a>>, n)) = 2
        /\ Append(<<a>>, n)[1] = a /\ Append(<<a>>, n)[2] = n
    BY <1>1, AppendProperties
  <2>2. \A i \in 1 .. 2 : Append(<<a>>, n)[i] = <<a, n>>[i]
    <3>1. \A i \in 1 .. 2 : i = 1 \/ i = 2 OBVIOUS
    <3>2. QED BY <1>1, <2>1, <3>1
  <2>3. QED BY <1>1, <2>1, <2>2, SeqEqual
<1>4. SubSeq(<<a, n>>, 1, 1) = <<a>>
  <2>1. \A i \in 1 .. 1 : <<a, n>>[i] \in Names BY <1>1
  <2>2. SubSeq(<<a, n>>, 1, 1) \in Seq(Names) /\ Len(SubSeq(<<a, n>>, 1, 1)) = 1
        /\ SubSeq(<<a, n>>, 1, 1)[1] = <<a, n>>[1]
    BY <2>1, SubSeqProperties
  <2>3. \A i \in 1 .. 1 : SubSeq(<<a, n>>, 1, 1)[i] = <<a>>[i]
    <3>1. \A i \in 1 .. 1 : i = 1 OBVIOUS
    <3>2. QED BY <1>1, <2>2, <3>1
  <2>4. QED BY <1>1, <2>2, <2>3, SeqEqual
<1>5. Above(<<a, n>>) = SubSeq(<<a, n>>, 1, 1) BY <1>1 DEF Above
<1>6. QED BY <1>2, <1>3, <1>4, <1>5

(* A path is one name, or two. *)
LEMMA PathKinds ==
  ASSUME NEW path \in Paths
  PROVE  \/ \E n \in Names : path = <<n>> /\ Len(path) = 1 /\ path[1] = n
         \/ \E a \in Names, n \in Names : path = <<a, n>> /\ Len(path) = 2 /\ path[1] = a /\ path[2] = n
BY DEF Paths

(* Where an entry that arrived is found: at its name, or at its name in the directory of that *)
(* name.                                                                                      *)
LEMMA ThereAt ==
  ASSUME NEW t, Sound(t), NEW item \in Items, There(t, item)
  PROVE  LET f == FoundIn(t, item.path)
             e == t.entries[Root][item.path[1]]
         IN /\ item.path \in Paths /\ item.path[1] \in Names /\ f \in Nodes /\ e \in Nodes
            /\ t.node[f].kind = item.kind
            /\ Len(item.path) = 1 => f = e
            /\ Len(item.path) # 1 =>
                 /\ Len(item.path) = 2 /\ item.path[2] \in Names
                 /\ t.node[e].kind = "dir" /\ f = t.entries[e][item.path[2]]
<1>1. item.path \in Paths BY DEF Items
<1>2. t.entries \in [Nodes -> [Names -> Nodes \cup {0}]] BY DEF Sound, Trees
<1>3. FoundIn(t, item.path) # 0 /\ t.node[FoundIn(t, item.path)].kind = item.kind
  BY DEF There, IsA
<1>4. CASE \E n \in Names : item.path = <<n>> /\ Len(item.path) = 1 /\ item.path[1] = n
  BY <1>1, <1>2, <1>3, <1>4, FixedNodes DEF FoundIn
<1>5. CASE \E a \in Names, n \in Names :
             item.path = <<a, n>> /\ Len(item.path) = 2 /\ item.path[1] = a /\ item.path[2] = n
  <2>1. IsA(t, t.entries[Root][item.path[1]], "dir")
        /\ FoundIn(t, item.path) = t.entries[t.entries[Root][item.path[1]]][item.path[2]]
    BY <1>3, <1>5 DEF FoundIn
  <2>2. t.entries[Root][item.path[1]] \in Nodes /\ t.node[t.entries[Root][item.path[1]]].kind = "dir"
    BY <1>2, <1>5, <2>1, FixedNodes DEF IsA
  <2>3. QED BY <1>1, <1>2, <1>3, <1>5, <2>1, <2>2
<1>6. QED BY <1>1, <1>4, <1>5, PathKinds

(* An entry that arrived is still there when its names lead where they led and its node is *)
(* the owner's.                                                                            *)
LEMMA StillThere ==
  ASSUME NEW t, Sound(t), NEW r, NEW item \in Items, There(t, item),
         r.entries[Root][item.path[1]] = t.entries[Root][item.path[1]],
         LET f == FoundIn(t, item.path)
             e == t.entries[Root][item.path[1]]
         IN /\ Len(item.path) = 2 => r.entries[e][item.path[2]] = t.entries[e][item.path[2]]
            /\ r.node[e].kind = t.node[e].kind
            /\ r.node[f].kind = t.node[f].kind /\ r.node[f].data = t.node[f].data
            /\ r.node[f].owner = "owner"
  PROVE  There(r, item)
<1> DEFINE f == FoundIn(t, item.path)
           e == t.entries[Root][item.path[1]]
<1>1. FoundIn(r, item.path) = f
  <2>1. CASE Len(item.path) = 1 BY <2>1 DEF FoundIn
  <2>2. CASE Len(item.path) # 1
    <3>1. Len(item.path) = 2 /\ t.node[e].kind = "dir" /\ e # 0 BY <2>2, ThereAt, FixedNodes
    <3>2. IsA(r, e, "dir") /\ IsA(t, e, "dir") BY <3>1 DEF IsA
    <3>3. QED BY <2>2, <3>1, <3>2 DEF FoundIn
  <2>3. QED BY <2>1, <2>2
<1>2. QED BY <1>1 DEF There, IsA

(* Unlinking a name (_clear) leaves every entry that arrived elsewhere. *)
LEMMA UnlinkedKeeps ==
  ASSUME NEW t, Sound(t), NEW d \in Nodes \ {Abroad}, NEW n \in Names,
         NEW item \in Items, There(t, item), Apart(t, item.path, d, n)
  PROVE  There(Unlinked(t, d, n), item)
<1> DEFINE u == Unlinked(t, d, n)
           f == FoundIn(t, item.path)
           e == t.entries[Root][item.path[1]]
<1>1. /\ u.node = t.node
      /\ \A c \in Nodes, m \in Names : u.entries[c][m] = IF c = d /\ m = n THEN 0 ELSE t.entries[c][m]
  BY UnlinkedSound
<1>2. item.path[1] \in Names /\ e \in Nodes /\ f \in Nodes /\ (Len(item.path) = 2 => item.path[2] \in Names)
  BY ThereAt
<1> HIDE DEF u, f, e
<1>3. u.entries[Root][item.path[1]] = t.entries[Root][item.path[1]]
  BY <1>1, <1>2, FixedNodes DEF Apart
<1>4. Len(item.path) = 2 => u.entries[e][item.path[2]] = t.entries[e][item.path[2]]
  BY <1>1, <1>2 DEF Apart, e
<1>5. t.node[f].owner = "owner" BY DEF There, f
<1>6. QED BY <1>1, <1>3, <1>4, <1>5, StillThere DEF u, f, e

(* Nor does it bring an entry to the name that was unlinked. *)
LEMMA ApartAfterUnlinked ==
  ASSUME NEW t, Sound(t), NEW d \in Nodes \ {Abroad}, NEW n \in Names,
         NEW item \in Items, There(t, item), Apart(t, item.path, d, n)
  PROVE  There(Unlinked(t, d, n), item) /\ Apart(Unlinked(t, d, n), item.path, d, n)
<1>1. There(Unlinked(t, d, n), item) BY UnlinkedKeeps
<1>2. item.path[1] \in Names BY ThereAt
<1>3. Unlinked(t, d, n).entries[Root][item.path[1]] = t.entries[Root][item.path[1]]
  <2>1. d = Root => item.path[1] # n BY DEF Apart
  <2>2. \A e \in Nodes, m \in Names : Unlinked(t, d, n).entries[e][m] = IF e = d /\ m = n THEN 0 ELSE t.entries[e][m]
    BY UnlinkedSound
  <2>3. QED BY <1>2, <2>1, <2>2, FixedNodes
<1>4. Apart(Unlinked(t, d, n), item.path, d, n) BY <1>3 DEF Apart
<1>5. QED BY <1>1, <1>4

(* A new node at a name (open with O_EXCL, mkdir) leaves every entry that arrived elsewhere. *)
LEMMA WithNewKeeps ==
  ASSUME NEW t, Sound(t), NEW d \in Nodes \ {Abroad}, NEW n \in Names, NEW what \in Things,
         UnusedNodes(t.entries) # {},
         NEW item \in Items, There(t, item), Apart(t, item.path, d, n)
  PROVE  There(WithNew(t, d, n, what), item)
<1> DEFINE r == WithNew(t, d, n, what)
           f == FoundIn(t, item.path)
           e == t.entries[Root][item.path[1]]
<1>m. PICK new : MadeAs(t, d, n, what, new) BY WithNewSound
<1>1. /\ new \in Nodes /\ new \notin Fixed
      /\ \A c \in Nodes, m \in Names : t.entries[c][m] # new
      /\ r.node = [t.node EXCEPT ![new] = what]
      /\ r.entries = [[t.entries EXCEPT ![new] = Nameless] EXCEPT ![d] = [@ EXCEPT ![n] = new]]
  BY <1>m DEF MadeAs
<1>0. t.entries \in [Nodes -> [Names -> Nodes \cup {0}]] /\ t.node \in [Nodes -> Things]
  BY DEF Sound, Trees
<1>2. /\ item.path[1] \in Names /\ e \in Nodes /\ f \in Nodes /\ (Len(item.path) = 2 => item.path[2] \in Names)
      /\ e # new /\ f # new
  BY <1>1, ThereAt, FixedNodes
<1> HIDE DEF r, f, e
<1>3. r.entries[Root][item.path[1]] = t.entries[Root][item.path[1]]
  BY <1>0, <1>1, <1>2, FixedNodes DEF Apart
<1>4. Len(item.path) = 2 => r.entries[e][item.path[2]] = t.entries[e][item.path[2]]
  BY <1>0, <1>1, <1>2 DEF Apart, e
<1>5. t.node[f].owner = "owner" BY DEF There, f
<1>6. r.node[f] = t.node[f] /\ r.node[e] = t.node[e] BY <1>0, <1>1, <1>2
<1>7. QED BY <1>3, <1>4, <1>5, <1>6, StillThere DEF r, f, e

(* A settled tree is sound, and everything that arrived is still there: names lead to it. *)
LEMMA SettledSound ==
  ASSUME NEW t, Sound(t), NEW chain
  PROVE  /\ Sound(SettledTree(t, chain))
         /\ \A n \in Names : SettledTree(t, chain).entries[Root][n] = t.entries[Root][n]
         /\ \A n \in Names : t.entries[Root][n] \in Nodes =>
              SettledTree(t, chain).node[t.entries[Root][n]] = t.node[t.entries[Root][n]]
         /\ \A item \in Items : There(t, item) => There(SettledTree(t, chain), item)
<1> DEFINE s == SettledTree(t, chain)
           kept == Reached(t, chain)
<1>1. t.entries \in [Nodes -> [Names -> Nodes \cup {0}]] /\ t.node \in [Nodes -> Things]
  BY DEF Sound, Trees
<1>2. /\ s.node = [i \in Nodes |-> IF i \in kept THEN t.node[i] ELSE Nothing]
      /\ s.entries = [i \in Nodes |-> IF i \in kept THEN t.entries[i] ELSE Nameless]
      /\ s = [node |-> s.node, entries |-> s.entries, ok |-> TRUE]
  BY DEF SettledTree
<1>3. /\ Root \in kept /\ Abroad \in kept /\ Theirs \in kept
      /\ \A n \in Names : t.entries[Root][n] \in kept
      /\ \A m, n \in Names : t.entries[Root][m] # 0 => t.entries[t.entries[Root][m]][n] \in kept
  <2> DEFINE top == Fixed \cup OpenDirs(chain) \cup {t.entries[Root][n] : n \in Names}
  <2>1. kept = top \cup {t.entries[p[1]][p[2]] : p \in (top \ {0}) \X Names} BY DEF Reached
  <2>2. Root \in top /\ Abroad \in top /\ Theirs \in top /\ \A n \in Names : t.entries[Root][n] \in top
    BY FixedNodes
  <2> HIDE DEF top, kept
  <2>3. ASSUME NEW m \in Names, NEW n \in Names, t.entries[Root][m] # 0
        PROVE  t.entries[t.entries[Root][m]][n] \in kept
    <3> DEFINE p == <<t.entries[Root][m], n>>
    <3>1. p \in (top \ {0}) \X Names /\ p[1] = t.entries[Root][m] /\ p[2] = n BY <2>2, <2>3
    <3>2. t.entries[p[1]][p[2]] \in kept BY <2>1, <3>1
    <3>3. QED BY <3>1, <3>2
  <2>4. QED BY <2>1, <2>2, <2>3
<1> HIDE DEF s, kept
<1>4. Nothing \in Things /\ Nothing.kind = "file" /\ Nameless \in [Names -> Nodes \cup {0}]
      /\ \A n \in Names : Nameless[n] = 0
  BY ThingsTyped DEF Nothing, File, Nameless
<1>5. s.node \in [Nodes -> Things] /\ s.entries \in [Nodes -> [Names -> Nodes \cup {0}]]
  BY <1>1, <1>2, <1>4
<1>6. \A d \in Nodes, n \in Names :
        s.entries[d][n] = IF d \in kept THEN t.entries[d][n] ELSE 0
  BY <1>2, <1>4
<1>7. \A i \in Nodes : i \in kept => s.node[i] = t.node[i] /\ s.entries[i] = t.entries[i]
  BY <1>2
<1>8. \A n \in Names : s.entries[Root][n] = t.entries[Root][n] BY <1>3, <1>7, FixedNodes
<1>9. \A n \in Names : t.entries[Root][n] \in Nodes => s.node[t.entries[Root][n]] = t.node[t.entries[Root][n]]
  BY <1>3, <1>7
<1>10. Sound(s)
  <2>0. s.ok = TRUE /\ s = [node |-> s.node, entries |-> s.entries, ok |-> s.ok] BY <1>2
  <2>1. s \in Trees BY <1>5, <2>0 DEF Trees
  <2>2. s.node[Theirs] = t.node[Theirs] /\ s.node[Abroad] = t.node[Abroad] /\ s.node[Root] = t.node[Root]
        /\ s.entries[Abroad] = t.entries[Abroad]
    BY <1>3, <1>7, FixedNodes
  <2>3. \A d \in Nodes, n \in Names : s.entries[d][n] \notin {Root, Abroad}
    <3>1. \A d \in Nodes, n \in Names : t.entries[d][n] \notin {Root, Abroad} BY DEF Sound
    <3>2. QED BY <1>6, <3>1, FixedNodes
  <2>4. ASSUME NEW m \in Names, NEW n \in Names,
               s.entries[Root][m] = s.entries[Root][n], IsA(s, s.entries[Root][m], "dir")
        PROVE  m = n
    <3>1. t.entries[Root][m] = t.entries[Root][n] /\ t.entries[Root][m] \in Nodes \cup {0}
          /\ s.entries[Root][m] = t.entries[Root][m]
      BY <1>1, <1>8, <2>4, FixedNodes
    <3>2. IsA(t, t.entries[Root][m], "dir") BY <1>9, <2>4, <3>1 DEF IsA
    <3>3. QED BY <3>1, <3>2 DEF Sound
  <2>5. QED BY <2>1, <2>2, <2>3, <2>4 DEF Sound
<1>11. ASSUME NEW item \in Items, There(t, item) PROVE There(s, item)
  <2> DEFINE f == FoundIn(t, item.path)
             e == t.entries[Root][item.path[1]]
  <2>1. /\ item.path[1] \in Names /\ f \in Nodes /\ e \in Nodes
        /\ Len(item.path) = 1 => f = e
        /\ Len(item.path) # 1 => Len(item.path) = 2 /\ item.path[2] \in Names /\ f = t.entries[e][item.path[2]]
    BY <1>11, ThereAt
  <2>2. t.node[f].owner = "owner" BY <1>11 DEF There
  <2>3. e \in kept /\ e # 0 BY <1>3, <2>1, FixedNodes
  <2>4. f \in kept
    <3>1. CASE Len(item.path) = 1 BY <2>1, <2>3, <3>1
    <3>2. CASE Len(item.path) # 1 BY <1>3, <2>1, <2>3, <3>2
    <3>3. QED BY <3>1, <3>2
  <2>5. s.entries[Root][item.path[1]] = e BY <1>8, <2>1
  <2>6. Len(item.path) = 2 => s.entries[e][item.path[2]] = t.entries[e][item.path[2]]
    BY <1>7, <2>1, <2>3
  <2>7. s.node[e] = t.node[e] /\ s.node[f] = t.node[f] BY <1>7, <2>1, <2>3, <2>4
  <2>8. QED BY <1>11, <2>2, <2>5, <2>6, <2>7, StillThere
<1>12. QED BY <1>8, <1>9, <1>10, <1>11 DEF s

(* An entry that fails leaves the tree as it is. *)
LEMMA SpoiledSound ==
  ASSUME NEW t, Sound(t)
  PROVE  /\ Sound(Spoiled(t)) /\ ~ Spoiled(t).ok
         /\ Spoiled(t).node = t.node /\ Spoiled(t).entries = t.entries
<1>1. t \in Trees BY DEF Sound
<1>2. Spoiled(t).node = t.node /\ Spoiled(t).entries = t.entries /\ Spoiled(t).ok = FALSE /\ Spoiled(t) \in Trees
  BY <1>1 DEF Spoiled, Trees
<1>3. QED BY <1>2 DEF Sound, IsA

(* The same, whether or not there is a node left. *)
LEMMA WithNewAny ==
  ASSUME NEW t, Sound(t), NEW d \in Nodes \ {Abroad}, NEW n \in Names, NEW what \in Things
  PROVE  /\ Sound(WithNew(t, d, n, what))
         /\ WithNew(t, d, n, what).ok =>
              /\ t.ok /\ \E new : MadeAs(t, d, n, what, new)
              /\ \A item \in Items : There(t, item) /\ Apart(t, item.path, d, n) => There(WithNew(t, d, n, what), item)
<1>1. CASE UnusedNodes(t.entries) = {}
  <2>1. WithNew(t, d, n, what) = Spoiled(t) BY <1>1 DEF WithNew
  <2>2. QED BY <2>1, SpoiledSound
<1>2. CASE UnusedNodes(t.entries) # {}
  BY <1>2, WithNewSound, WithNewKeeps
<1>3. QED BY <1>1, <1>2

(* Taking a directory over (_enter: fchown) keeps a tree sound and what has arrived; a *)
(* directory with a name is neither the one uploads go to nor one elsewhere.           *)
LEMMA OwnedSound ==
  ASSUME NEW t, Sound(t), NEW n \in Names, NEW i, i = t.entries[Root][n], IsA(t, i, "dir")
  PROVE  /\ Sound(Owned(t, i)) /\ Owned(t, i).entries = t.entries /\ Owned(t, i).ok = t.ok
         /\ i \in Nodes \ Fixed
         /\ Owned(t, i).node[i].kind = "dir" /\ Owned(t, i).node[i].owner = "owner"
         /\ \A item \in Items : There(t, item) => There(Owned(t, i), item)
<1> DEFINE r == Owned(t, i)
<1>1. t.entries \in [Nodes -> [Names -> Nodes \cup {0}]] /\ t.node \in [Nodes -> Things] /\ t.ok \in BOOLEAN
      /\ t = [node |-> t.node, entries |-> t.entries, ok |-> t.ok]
  BY DEF Sound, Trees
<1>2. i \in Nodes /\ t.node[i].kind = "dir" BY <1>1, FixedNodes DEF IsA
<1>3. i \notin Fixed
  <2>1. i \notin {Root, Abroad} BY FixedNodes DEF Sound
  <2>2. i # Theirs BY <1>2 DEF Sound, File
  <2>3. QED BY <2>1, <2>2, FixedNodes
<1>4. r.entries = t.entries /\ r.ok = t.ok /\ r.node = [t.node EXCEPT ![i] = [@ EXCEPT !.owner = "owner"]]
      /\ r = [node |-> r.node, entries |-> r.entries, ok |-> r.ok]
  BY <1>1 DEF Owned
<1> HIDE DEF r
<1>5. [t.node[i] EXCEPT !.owner = "owner"] \in Things
      /\ [t.node[i] EXCEPT !.owner = "owner"].kind = "dir"
      /\ [t.node[i] EXCEPT !.owner = "owner"].data = t.node[i].data
      /\ [t.node[i] EXCEPT !.owner = "owner"].owner = "owner"
  BY <1>1, <1>2 DEF Things
<1>6. r.node \in [Nodes -> Things] /\ r.node[i] = [t.node[i] EXCEPT !.owner = "owner"]
      /\ \A j \in Nodes : j # i => r.node[j] = t.node[j]
  BY <1>1, <1>2, <1>4, <1>5
<1>7. \A j \in Nodes : r.node[j].kind = t.node[j].kind /\ r.node[j].data = t.node[j].data
                       /\ (t.node[j].owner = "owner" => r.node[j].owner = "owner")
  BY <1>2, <1>5, <1>6
<1>8. r \in Trees BY <1>1, <1>4, <1>6 DEF Trees
<1>9. Sound(r)
  <2>1. r.node[Theirs] = t.node[Theirs] /\ r.node[Abroad] = t.node[Abroad] /\ r.node[Root].kind = "dir"
    BY <1>3, <1>6, FixedNodes DEF Sound
  <2>2. ASSUME NEW k \in Names, NEW m \in Names,
               r.entries[Root][k] = r.entries[Root][m], IsA(r, r.entries[Root][k], "dir")
        PROVE  k = m
    <3>1. t.entries[Root][k] \in Nodes /\ t.entries[Root][k] = t.entries[Root][m]
      BY <1>1, <1>4, <2>2, FixedNodes DEF IsA
    <3>2. IsA(t, t.entries[Root][k], "dir") BY <1>4, <1>7, <2>2, <3>1 DEF IsA
    <3>3. QED BY <3>1, <3>2 DEF Sound
  <2>3. QED BY <1>4, <1>8, <2>1, <2>2 DEF Sound
<1>10. ASSUME NEW item \in Items, There(t, item) PROVE There(r, item)
  <2>1. FoundIn(t, item.path) \in Nodes /\ t.entries[Root][item.path[1]] \in Nodes
    BY <1>10, ThereAt
  <2>2. t.node[FoundIn(t, item.path)].owner = "owner" BY <1>10 DEF There
  <2> DEFINE f == FoundIn(t, item.path)
             e == t.entries[Root][item.path[1]]
  <2>3. r.node[e].kind = t.node[e].kind /\ r.node[f].kind = t.node[f].kind
        /\ r.node[f].data = t.node[f].data /\ r.node[f].owner = "owner"
    BY <1>7, <2>1, <2>2
  <2> HIDE DEF f, e
  <2>4. r.entries = t.entries BY <1>4
  <2>5. QED BY <1>10, <2>3, <2>4, StillThere DEF f, e
<1>11. QED BY <1>2, <1>3, <1>4, <1>5, <1>6, <1>9, <1>10 DEF r

(* _enter: after it the name is a directory of the owner's, never a link's target, and what *)
(* has arrived is still there.                                                              *)
LEMMA EnteredSound ==
  ASSUME NEW t, Sound(t), NEW n \in Names
  PROVE  /\ Sound(Entered(t, Root, n))
         /\ Entered(t, Root, n).ok =>
              /\ Entered(t, Root, n).entries[Root][n] \in Nodes \ Fixed
              /\ Entered(t, Root, n).node[Entered(t, Root, n).entries[Root][n]].kind = "dir"
              /\ Entered(t, Root, n).node[Entered(t, Root, n).entries[Root][n]].owner = "owner"
              /\ \A item \in Items : There(t, item) /\ (item.path # <<n>> \/ item.kind = "dir") =>
                   There(Entered(t, Root, n), item)
<1> DEFINE i == t.entries[Root][n]
           r == Entered(t, Root, n)
<1>1. NodeAt(t, Root, n) = i BY DEF NodeAt
<1>2. Root \in Nodes \ {Abroad} /\ Dir("owner") \in Things BY FixedNodes, ThingsTyped
<1>d. Dir("owner").kind = "dir" /\ Dir("owner").owner = "owner" BY DEF Dir
<1>3. ASSUME NEW u, Sound(u), u.ok = t.ok,
             \A item \in Items : There(t, item) /\ Apart(t, item.path, Root, n) =>
               There(u, item) /\ Apart(u, item.path, Root, n),
             r = WithNew(u, Root, n, Dir("owner")), ~ IsA(t, i, "dir")
      PROVE  /\ Sound(r)
             /\ r.ok => /\ r.entries[Root][n] \in Nodes \ Fixed
                        /\ r.node[r.entries[Root][n]].kind = "dir" /\ r.node[r.entries[Root][n]].owner = "owner"
                        /\ \A item \in Items : There(t, item) /\ (item.path # <<n>> \/ item.kind = "dir") =>
                             There(r, item)
  <2>1. Sound(r) BY <1>2, <1>3, WithNewAny
  <2>2. ASSUME r.ok PROVE r.entries[Root][n] \in Nodes \ Fixed
               /\ r.node[r.entries[Root][n]].kind = "dir" /\ r.node[r.entries[Root][n]].owner = "owner"
    <3>1. PICK new : MadeAs(u, Root, n, Dir("owner"), new) BY <1>2, <1>3, <2>2, WithNewAny
    <3>2. u.entries \in [Nodes -> [Names -> Nodes \cup {0}]] /\ u.node \in [Nodes -> Things]
      BY <1>3 DEF Sound, Trees
    <3>3. new \in Nodes \ Fixed /\ new # Root BY <3>1, FixedNodes DEF MadeAs
    <3>4. r.entries = [[u.entries EXCEPT ![new] = Nameless] EXCEPT ![Root] = [@ EXCEPT ![n] = new]]
          /\ r.node = [u.node EXCEPT ![new] = Dir("owner")]
      BY <1>3, <3>1 DEF MadeAs
    <3>5. r.entries[Root][n] = new BY <3>2, <3>3, <3>4, FixedNodes
    <3>6. r.node[new] = Dir("owner") BY <3>2, <3>3, <3>4
    <3>7. QED BY <1>d, <3>3, <3>5, <3>6
  <2>3. ASSUME r.ok, NEW item \in Items, There(t, item), item.path # <<n>> \/ item.kind = "dir"
        PROVE  There(r, item)
    <3>1. item.path[1] # n
      <4>1. SUFFICES ASSUME item.path[1] = n PROVE FALSE OBVIOUS
      <4>2. i \in Nodes /\ i # 0 BY <2>3, <4>1, ThereAt, FixedNodes
      <4>3. t.node[i].kind # "dir" BY <1>3, <4>2 DEF IsA
      <4>4. CASE Len(item.path) = 1
        <5>1. item.path = <<n>> BY <2>3, <4>1, <4>4, ThereAt, PathKinds
        <5>2. t.node[i].kind = item.kind BY <2>3, <4>1, <4>4, ThereAt
        <5>3. QED BY <2>3, <4>3, <5>1, <5>2
      <4>5. CASE Len(item.path) # 1 BY <2>3, <4>1, <4>3, <4>5, ThereAt
      <4>6. QED BY <4>4, <4>5
    <3>2. Apart(t, item.path, Root, n)
      <4>1. Root # t.entries[Root][item.path[1]]
        <5>1. \A m \in Names : t.entries[Root][m] \notin {Root, Abroad} BY FixedNodes DEF Sound
        <5>2. QED BY <2>3, <5>1, ThereAt
      <4>2. QED BY <3>1, <4>1 DEF Apart
    <3>3. QED BY <1>2, <1>3, <2>3, <3>2, WithNewAny
  <2>4. QED BY <2>1, <2>2, <2>3
<1>4. CASE i = 0
  <2>1. r = WithNew(t, Root, n, Dir("owner")) BY <1>1, <1>4 DEF Entered, IsA
  <2>2. ~ IsA(t, i, "dir") BY <1>4 DEF IsA
  <2>3. QED BY <1>3, <2>1, <2>2
<1>5. CASE i # 0 /\ IsA(t, i, "dir")
  <2>1. r = Owned(t, i) BY <1>1, <1>5 DEF Entered, IsA
  <2>2. PICK j : j = i OBVIOUS
  <2>3. /\ Sound(Owned(t, j)) /\ Owned(t, j).entries = t.entries /\ j \in Nodes \ Fixed
        /\ Owned(t, j).node[j].kind = "dir" /\ Owned(t, j).node[j].owner = "owner"
        /\ \A item \in Items : There(t, item) => There(Owned(t, j), item)
    BY <1>5, <2>2, OwnedSound
  <2>4. QED BY <2>1, <2>2, <2>3
<1>6. CASE i # 0 /\ IsA(t, i, "link")
  <2>1. ~ IsA(t, i, "dir") BY <1>6 DEF IsA
  <2>2. r = WithNew(Unlinked(t, Root, n), Root, n, Dir("owner")) BY <1>1, <1>6, <2>1 DEF Entered
  <2>3. Sound(Unlinked(t, Root, n)) /\ Unlinked(t, Root, n).ok = t.ok BY <1>2, UnlinkedSound
  <2>4. ASSUME NEW item \in Items, There(t, item), Apart(t, item.path, Root, n)
        PROVE  There(Unlinked(t, Root, n), item) /\ Apart(Unlinked(t, Root, n), item.path, Root, n)
    BY <1>2, <2>4, ApartAfterUnlinked
  <2>5. QED BY <1>3, <2>1, <2>2, <2>3, <2>4
<1>7. CASE i # 0 /\ ~ IsA(t, i, "dir") /\ ~ IsA(t, i, "link")
  <2>1. r = Spoiled(t) BY <1>1, <1>7 DEF Entered
  <2>2. QED BY <2>1, SpoiledSound
<1>8. QED BY <1>4, <1>5, <1>6, <1>7

(* The path that ends at the name n of the directory d. *)
PathTo(t, path, d, n) ==
  \/ d = Root /\ path = <<n>>
  \/ \E a \in Names : path = <<a, n>> /\ t.entries[Root][a] = d /\ IsA(t, d, "dir")

(* What is placed at a name (_clear, then open or symlink) leaves what arrived elsewhere, and *)
(* is there: the directory it is placed in is the one its path names.                         *)
LEMMA PlacedSound ==
  ASSUME NEW t, Sound(t), NEW d \in Nodes \ {Abroad}, NEW n \in Names, NEW what \in Things
  PROVE  /\ Sound(Placed(t, d, n, what))
         /\ Placed(t, d, n, what).ok =>
              /\ t.ok
              /\ \A m \in Names : d # Root \/ m # n => Placed(t, d, n, what).entries[Root][m] = t.entries[Root][m]
              /\ \A m \in Names : (d # Root \/ m # n) /\ t.entries[Root][m] \in Nodes =>
                   Placed(t, d, n, what).node[t.entries[Root][m]] = t.node[t.entries[Root][m]]
              /\ ~ IsA(t, t.entries[d][n], "dir")
              /\ \A item \in Items : There(t, item) /\ Apart(t, item.path, d, n) => There(Placed(t, d, n, what), item)
              /\ \A item \in Items :
                   /\ item.kind = what.kind /\ what.owner = "owner" /\ (item.kind = "file" => what.data = "sent")
                   /\ PathTo(t, item.path, d, n)
                   => There(Placed(t, d, n, what), item)
<1> DEFINE r == Placed(t, d, n, what)
           u == Unlinked(t, d, n)
<1>b. t.ok \in BOOLEAN BY DEF Sound, Trees
<1>1. CASE ~ t.ok \/ IsA(t, NodeAt(t, d, n), "dir")
  <2>1. Cleared(t, d, n) = Spoiled(t) BY <1>1 DEF Cleared
  <2>2. r = Spoiled(t) BY <2>1, SpoiledSound DEF Placed
  <2>3. QED BY <2>2, SpoiledSound
<1>2. CASE t.ok /\ ~ IsA(t, NodeAt(t, d, n), "dir")
  <2>1. Cleared(t, d, n) = u BY <1>2 DEF Cleared
  <2>2. Sound(u) /\ u.ok = t.ok /\ u.node = t.node
        /\ u.entries \in [Nodes -> [Names -> Nodes \cup {0}]]
        /\ \A e \in Nodes, m \in Names : u.entries[e][m] = IF e = d /\ m = n THEN 0 ELSE t.entries[e][m]
    BY UnlinkedSound
  <2>3. r = WithNew(u, d, n, what) BY <1>2, <2>1, <2>2 DEF Placed
  <2> HIDE DEF r, u
  <2>4. Sound(r) BY <2>2, <2>3, WithNewAny
  <2>5. ASSUME NEW item \in Items, There(t, item), Apart(t, item.path, d, n), r.ok PROVE There(r, item)
    BY <2>2, <2>3, <2>5, ApartAfterUnlinked, WithNewAny DEF u
  <2>6. ASSUME r.ok
        PROVE  /\ \A m \in Names : d # Root \/ m # n => r.entries[Root][m] = t.entries[Root][m]
               /\ \A m \in Names : (d # Root \/ m # n) /\ t.entries[Root][m] \in Nodes =>
                    r.node[t.entries[Root][m]] = t.node[t.entries[Root][m]]
               /\ \A item \in Items :
                    /\ item.kind = what.kind /\ what.owner = "owner" /\ (item.kind = "file" => what.data = "sent")
                    /\ PathTo(t, item.path, d, n)
                    => There(r, item)
    <3>1. PICK new : MadeAs(u, d, n, what, new) BY <2>2, <2>3, <2>6, WithNewAny
    <3>2. new \in Nodes /\ new \notin Fixed /\ new # Root /\ new # 0
          /\ (\A e \in Nodes, m \in Names : u.entries[e][m] # new)
          /\ r.node = [u.node EXCEPT ![new] = what]
          /\ r.entries = [[u.entries EXCEPT ![new] = Nameless] EXCEPT ![d] = [@ EXCEPT ![n] = new]]
      BY <2>3, <3>1, FixedNodes DEF MadeAs
    <3>3. u.node \in [Nodes -> Things] BY <2>2 DEF Sound, Trees
    <3>4. \A m \in Names : d # Root \/ m # n => r.entries[Root][m] = t.entries[Root][m]
      BY <2>2, <3>2, FixedNodes
    <3>5. \A m \in Names : (d # Root \/ m # n) /\ t.entries[Root][m] \in Nodes =>
            t.entries[Root][m] # new /\ r.node[t.entries[Root][m]] = t.node[t.entries[Root][m]]
      <4>1. \A m \in Names : d # Root \/ m # n => u.entries[Root][m] = t.entries[Root][m]
        BY <2>2, FixedNodes
      <4>2. \A m \in Names : d # Root \/ m # n => t.entries[Root][m] # new
        BY <3>2, <4>1, FixedNodes
      <4>3. \A j \in Nodes : j # new => r.node[j] = t.node[j] BY <2>2, <3>2, <3>3
      <4>4. QED BY <4>2, <4>3
    <3>6. r.entries[d][n] = new /\ r.node[new] = what
      <4>1. [u.entries EXCEPT ![new] = Nameless] \in [Nodes -> [Names -> Nodes \cup {0}]]
        BY <2>2, <3>2 DEF Nameless
      <4>2. r.entries[d] = [[u.entries EXCEPT ![new] = Nameless][d] EXCEPT ![n] = new]
        BY <3>2, <4>1
      <4>3. QED BY <3>2, <3>3, <4>1, <4>2
    <3>7. ASSUME NEW item \in Items, item.kind = what.kind, what.owner = "owner",
                 item.kind = "file" => what.data = "sent", PathTo(t, item.path, d, n)
          PROVE  There(r, item)
      <4>1. FoundIn(r, item.path) = new
        <5>1. CASE d = Root /\ item.path = <<n>>
          <6>1. Len(item.path) = 1 /\ item.path[1] = n BY <5>1
          <6>2. QED BY <3>6, <5>1, <6>1 DEF FoundIn
        <5>2. CASE \E a \in Names : item.path = <<a, n>> /\ t.entries[Root][a] = d /\ IsA(t, d, "dir")
          <6>1. PICK a \in Names : item.path = <<a, n>> /\ t.entries[Root][a] = d /\ IsA(t, d, "dir")
            BY <5>2
          <6>2. Len(item.path) = 2 /\ item.path[1] = a /\ item.path[2] = n BY <6>1
          <6>3. d # Root BY <6>1, FixedNodes DEF Sound
          <6>4. r.entries[Root][a] = d /\ r.node[d] = t.node[d] BY <3>4, <3>5, <6>1, <6>3
          <6>5. IsA(r, d, "dir") BY <6>1, <6>4 DEF IsA
          <6>6. QED BY <3>6, <6>2, <6>4, <6>5 DEF FoundIn
        <5>3. QED BY <3>7, <5>1, <5>2 DEF PathTo
      <4>2. QED BY <3>2, <3>6, <3>7, <4>1 DEF There, IsA
    <3>8. QED BY <3>4, <3>5, <3>7
  <2>7. QED BY <1>2, <2>4, <2>5, <2>6 DEF r, u, NodeAt
<1>3. QED BY <1>1, <1>2, <1>b

(* What is placed has arrived, stated for one entry. *)
LEMMA PlacedThere ==
  ASSUME NEW t, Sound(t), NEW d \in Nodes \ {Abroad}, NEW n \in Names, NEW what \in Things,
         Placed(t, d, n, what).ok, NEW item \in Items, item.kind = what.kind, what.owner = "owner",
         item.kind = "file" => what.data = "sent", PathTo(t, item.path, d, n)
  PROVE  There(Placed(t, d, n, what), item)
<1>1. \A x \in Items :
        /\ x.kind = what.kind /\ what.owner = "owner" /\ (x.kind = "file" => what.data = "sent")
        /\ PathTo(t, x.path, d, n)
        => There(Placed(t, d, n, what), x)
  BY PlacedSound, Zenon
<1>2. QED BY <1>1, Zenon

(* The tree as it is. *)
LEMMA NowIs ==
  /\ Now.node = node /\ Now.entries = entries /\ Now.ok = TRUE
  /\ Now = [node |-> node, entries |-> entries, ok |-> TRUE]
BY DEF Now

(* The open directories below the first are none or one (_at). *)
LEMMA ChainKinds ==
  ASSUME NEW chain \in Chains
  PROVE  \/ chain = <<>> /\ Len(chain) = 0 /\ OpenDirs(chain) = {}
         \/ /\ chain # <<>> /\ Len(chain) = 1 /\ chain = <<chain[1]>> /\ chain[1] \in Links
            /\ chain[1].name \in Names /\ chain[1].dir \in Nodes \ Fixed
BY DEF Chains, Links, OpenDirs

(* Taking an entry keeps the invariant when the tree it leaves is sound, the open directory *)
(* is the one of its name and, if nobody has intervened, everything sent has arrived.       *)
LEMMA TakeKeeps ==
  ASSUME FilesInvariant, Receiving, NEW t, Sound(t), NEW chain \in Chains, NEW item \in Items,
         Take(t, chain, item),
         t.ok /\ touches = upload.since =>
           /\ OpenedThere(t, chain) /\ There(t, item)
           /\ \A i \in DOMAIN upload.sent : There(t, upload.sent[i])
  PROVE  FilesInvariant'
<1>1. /\ Now' = SettledTree(t, chain) /\ answered' = answered /\ touches' = touches
      /\ upload' = [open |-> TRUE, chain |-> chain, failed |-> ~ t.ok, sent |-> Append(upload.sent, item),
                     since |-> upload.since]
  BY SettlesIs DEF Take
<1>2. /\ upload = [open |-> TRUE, chain |-> upload.chain, failed |-> FALSE, sent |-> upload.sent,
                   since |-> upload.since]
      /\ upload.sent \in Seq(Items) /\ upload.since \in Nat /\ touches \in Nat /\ upload.since <= touches
      /\ answered = NoneTold
  BY DEF FilesInvariant, UploadType, Uploads, Receiving
<1>b. t.ok \in BOOLEAN BY DEF Sound, Trees
<1>4. Sound(SettledTree(t, chain))
      /\ \A x \in Items : There(t, x) => There(SettledTree(t, chain), x)
  BY SettledSound
<1>5. Append(upload.sent, item) \in Seq(Items) /\ Len(Append(upload.sent, item)) = Len(upload.sent) + 1
      /\ Append(upload.sent, item)[Len(upload.sent) + 1] = item
      /\ \A i \in 1 .. Len(upload.sent) : Append(upload.sent, item)[i] = upload.sent[i]
      /\ Len(upload.sent) \in Nat
  BY <1>2
<1>6. Sound(Now)' BY <1>1, <1>4
<1>7. UploadType'
  <2>1. upload' \in Uploads BY <1>1, <1>2, <1>5, <1>b DEF Uploads
  <2>2. QED BY <1>1, <1>2, <2>1 DEF UploadType
<1>8. ASSUME t.ok, touches = upload.since
      PROVE  OpenedThere(SettledTree(t, chain), chain)
             /\ \A i \in DOMAIN Append(upload.sent, item) : There(SettledTree(t, chain), Append(upload.sent, item)[i])
  <2>1. OpenedThere(t, chain) /\ There(t, item) /\ \A i \in 1 .. Len(upload.sent) : There(t, upload.sent[i])
    BY <1>2, <1>8
  <2>2. OpenedThere(SettledTree(t, chain), chain)
    <3>1. CASE chain = <<>> BY <3>1 DEF OpenedThere
    <3>2. CASE chain # <<>>
      <4>1. chain[1].name \in Names /\ chain[1].dir \in Nodes BY <3>2, ChainKinds
      <4>2. t.entries[Root][chain[1].name] = chain[1].dir
            /\ t.node[chain[1].dir].kind = "dir" /\ t.node[chain[1].dir].owner = "owner"
        BY <2>1, <3>2 DEF OpenedThere
      <4>3. QED BY <4>1, <4>2, SettledSound DEF OpenedThere
    <3>3. QED BY <3>1, <3>2
  <2>3. ASSUME NEW i \in 1 .. Len(upload.sent) + 1
        PROVE  There(SettledTree(t, chain), Append(upload.sent, item)[i])
    <3>1. CASE i = Len(upload.sent) + 1 BY <1>4, <1>5, <2>1, <3>1
    <3>2. CASE i \in 1 .. Len(upload.sent)
      <4>1. upload.sent[i] \in Items BY <1>2, <3>2
      <4>2. QED BY <1>4, <1>5, <2>1, <3>2, <4>1
    <3>3. QED BY <1>5, <2>3, <3>1, <3>2
  <2>4. DOMAIN Append(upload.sent, item) = 1 .. Len(upload.sent) + 1 BY <1>5
  <2>5. QED BY <2>2, <2>3, <2>4
<1>9. Undisturbed' BY <1>1, <1>8 DEF Undisturbed
<1>10. Told' BY <1>1, <1>2 DEF Told, NoneTold
<1>11. QED BY <1>6, <1>7, <1>9, <1>10 DEF FilesInvariant

(* _at: the directory an entry is put into is open, the owner's, and the one its path names, *)
(* unless the agent intervened; what has arrived is still there.                             *)
LEMMA DescendSound ==
  ASSUME FilesInvariant, Receiving, NEW n \in Names
  PROVE  /\ Sound(Descend(<<n>>).tree) /\ Descend(<<n>>).chain \in Chains
         /\ Descend(<<n>>).tree.ok => Descend(<<n>>).chain # <<>>
         /\ Descend(<<n>>).tree.ok /\ touches = upload.since =>
              /\ OpenedThere(Descend(<<n>>).tree, Descend(<<n>>).chain)
              /\ Descend(<<n>>).chain[1].name = n
              /\ \A item \in Items : There(Now, item) /\ (item.path # <<n>> \/ item.kind = "dir") =>
                   There(Descend(<<n>>).tree, item)
<1> DEFINE path == <<n>>
           t == Entered(Now, Root, n)
           i == t.entries[Root][n]
<1>1. path # <<>> /\ Len(path) = 1 /\ path[1] = n OBVIOUS
<1>2. Sound(Now) /\ upload.chain \in Chains /\ upload.open /\ ~ upload.failed
  BY DEF FilesInvariant, UploadType, Uploads, Receiving
<1>n. Now.ok /\ Len(<<>>) = 0 BY NowIs
<1>3. CASE upload.chain # <<>> /\ upload.chain[1].name = n
  <2>1. KeptOf(path) = upload.chain /\ Len(upload.chain) = 1
    BY <1>1, <1>2, <1>3, ChainKinds DEF KeptOf
  <2>2. Descend(path) = [tree |-> Now, chain |-> upload.chain] BY <1>1, <2>1 DEF Descend
  <2>3. touches = upload.since => OpenedThere(Now, upload.chain)
    BY <1>2 DEF FilesInvariant, Undisturbed
  <2>4. QED BY <1>2, <1>3, <2>2, <2>3
<1>4. CASE ~ (upload.chain # <<>> /\ upload.chain[1].name = n)
  <2>1. KeptOf(path) = <<>> BY <1>1, <1>4 DEF KeptOf
  <2>2. Descend(path) = [tree  |-> t,
                         chain |-> IF t.ok THEN <<[name |-> n, dir |-> i]>> ELSE <<>>]
    BY <1>1, <1>n, <2>1 DEF Descend, NodeAt
  <2>3. /\ Sound(t)
        /\ t.ok => /\ i \in Nodes \ Fixed /\ t.node[i].kind = "dir" /\ t.node[i].owner = "owner"
                   /\ \A item \in Items : There(Now, item) /\ (item.path # <<n>> \/ item.kind = "dir") =>
                        There(t, item)
    BY <1>2, EnteredSound
  <2> HIDE DEF t, i
  <2>4. CASE t.ok
    <3> DEFINE below == [name |-> n, dir |-> i]
    <3>1. Descend(path).tree = t /\ Descend(path).chain = <<below>> BY <2>2, <2>4
    <3>2. below \in Links /\ below.name = n /\ below.dir = i BY <2>3, <2>4 DEF Links
    <3> HIDE DEF below
    <3>3. <<below>> \in Chains /\ <<below>> # <<>> /\ <<below>>[1] = below BY <3>2 DEF Chains
    <3>4. OpenedThere(t, <<below>>) BY <2>3, <2>4, <3>2, <3>3 DEF OpenedThere, i
    <3>5. QED BY <2>3, <2>4, <3>1, <3>2, <3>3, <3>4
  <2>5. CASE ~ t.ok
    <3>1. Descend(path).tree = t /\ Descend(path).chain = <<>> BY <2>2, <2>5
    <3>2. QED BY <2>3, <2>5, <3>1 DEF Chains
  <2>6. QED BY <2>4, <2>5
<1>5. QED BY <1>3, <1>4

(* An entry of one name is put into the directory uploads go to. *)
LEMMA DescendNowhere ==
  ASSUME FilesInvariant
  PROVE  Descend(<<>>).tree = Now /\ Descend(<<>>).chain = <<>>
<1>1. KeptOf(<<>>) = <<>> BY DEF KeptOf
<1>2. QED BY <1>1 DEF Descend

(* What was sent is a sequence of entries. *)
LEMMA SentTyped ==
  ASSUME FilesInvariant, NEW i \in DOMAIN upload.sent
  PROVE  upload.sent[i] \in Items
BY DEF FilesInvariant, UploadType, Uploads

(* Streaming a directory keeps the invariant. *)
LEMMA PutDirectoryKeeps ==
  ASSUME FilesInvariant, PutDirectory
  PROVE  FilesInvariant'
<1>1. PICK n \in Names :
        /\ Fits(<<n>>)
        /\ Take(Descend(<<n>>).tree, Descend(<<n>>).chain, [kind |-> "dir", path |-> <<n>>, full |-> TRUE])
  BY DEF PutDirectory
<1>2. PICK t : t = Descend(<<n>>).tree OBVIOUS
<1>3. PICK chain : chain = Descend(<<n>>).chain OBVIOUS
<1>4. PICK item : item = [kind |-> "dir", path |-> <<n>>, full |-> TRUE] OBVIOUS
<1>5. item \in Items /\ item.kind = "dir" /\ item.path = <<n>> /\ Len(item.path) = 1 /\ item.path[1] = n
  BY <1>4 DEF Items, Kinds, Paths
<1>6. Receiving /\ Sound(t) /\ chain \in Chains BY <1>2, <1>3, DescendSound DEF PutDirectory
<1>7. ASSUME t.ok, touches = upload.since
      PROVE  OpenedThere(t, chain) /\ There(t, item) /\ \A i \in DOMAIN upload.sent : There(t, upload.sent[i])
  <2>1. /\ OpenedThere(t, chain) /\ chain # <<>> /\ chain[1].name = n
        /\ \A x \in Items : There(Now, x) /\ (x.path # <<n>> \/ x.kind = "dir") => There(t, x)
    BY <1>2, <1>3, <1>6, <1>7, DescendSound
  <2>2. There(t, item)
    <3>1. chain[1].dir \in Nodes BY <1>6, <2>1, ChainKinds
    <3>2. t.entries[Root][n] = chain[1].dir
          /\ t.node[chain[1].dir].kind = "dir" /\ t.node[chain[1].dir].owner = "owner"
      BY <2>1 DEF OpenedThere
    <3>3. FoundIn(t, item.path) = chain[1].dir BY <1>5, <3>2 DEF FoundIn
    <3>4. QED BY <1>5, <3>1, <3>2, <3>3, FixedNodes DEF There, IsA
  <2>3. ASSUME NEW i \in DOMAIN upload.sent PROVE There(t, upload.sent[i])
    <3>1. There(Now, upload.sent[i]) BY <1>6, <1>7 DEF FilesInvariant, Undisturbed, Receiving
    <3>2. upload.sent[i].path # <<n>> BY <1>1 DEF Fits
    <3>3. QED BY <2>1, <3>1, <3>2, SentTyped
  <2>4. QED BY <2>1, <2>2, <2>3
<1>8. Take(t, chain, item) BY <1>1, <1>2, <1>3, <1>4
<1>9. QED BY <1>5, <1>6, <1>7, <1>8, TakeKeeps

(* A file or link that is put at its path is there, with everything sent before it: paths *)
(* come once, and none goes through a file or link of the same upload.                    *)
LEMMA PutSound ==
  ASSUME FilesInvariant, Receiving, NEW path \in {<<>>} \cup {<<a>> : a \in Names}, NEW n \in Names,
         NEW what \in Things, what.owner = "owner", Fits(Append(path, n)),
         NEW item \in Items, item.kind = what.kind, item.path = Append(path, n),
         NEW t, t = Placed(Descend(path).tree, Below(Descend(path).chain), n, what)
  PROVE  /\ Sound(t) /\ Descend(path).chain \in Chains
         /\ t.ok /\ touches = upload.since =>
              /\ OpenedThere(t, Descend(path).chain)
              /\ (item.kind = "file" => what.data = "sent") => There(t, item)
              /\ \A i \in DOMAIN upload.sent : There(t, upload.sent[i])
<1>1. Sound(Now) /\ upload.open /\ ~ upload.failed BY DEF FilesInvariant, Receiving
<1>2. \A i \in DOMAIN upload.sent : upload.sent[i] \in Items /\ upload.sent[i].path \in Paths
  BY SentTyped DEF Items
<1>3. touches = upload.since => \A i \in DOMAIN upload.sent : There(Now, upload.sent[i])
  BY <1>1 DEF FilesInvariant, Undisturbed
<1>4. CASE path = <<>>
  <2>1. Append(path, n) = <<n>> BY <1>4
  <2>2. t = Placed(Now, Root, n, what) /\ Descend(path).chain = <<>>
    BY <1>4, DescendNowhere DEF Below
  <2>3. Root \in Nodes \ {Abroad} BY FixedNodes
  <2>4. ASSUME touches = upload.since, NEW i \in DOMAIN upload.sent
        PROVE  There(Now, upload.sent[i]) /\ Apart(Now, upload.sent[i].path, Root, n)
    <3> DEFINE x == upload.sent[i]
    <3>1. x \in Items /\ There(Now, x) /\ x.path \in Paths BY <1>2, <1>3, <2>4
    <3>2. x.path # <<n>> /\ Above(x.path) # <<n>> BY <2>1 DEF Fits
    <3>3. x.path[1] # n
      <4>1. CASE \E m \in Names : x.path = <<m>> /\ Len(x.path) = 1 /\ x.path[1] = m
        BY <3>2, <4>1
      <4>2. CASE \E a \in Names, m \in Names :
                   x.path = <<a, m>> /\ Len(x.path) = 2 /\ x.path[1] = a /\ x.path[2] = m
        <5>1. PICK a \in Names, m \in Names : x.path = <<a, m>> /\ x.path[1] = a BY <4>2
        <5>2. Above(<<a, m>>) = <<a>> BY ShortPaths
        <5>3. QED BY <3>2, <5>1, <5>2
      <4>3. QED BY <3>1, <4>1, <4>2, PathKinds
    <3>4. Root # Now.entries[Root][x.path[1]]
      <4>1. \A m \in Names : Now.entries[Root][m] \notin {Root, Abroad}
        BY <1>1, FixedNodes DEF Sound
      <4>2. x.path[1] \in Names BY <1>1, <3>1, ThereAt
      <4>3. QED BY <4>1, <4>2
    <3>5. QED BY <3>1, <3>3, <3>4 DEF Apart
  <2>5. PathTo(Now, item.path, Root, n) BY <2>1 DEF PathTo
  <2>6. OpenedThere(t, <<>>) /\ <<>> \in Chains BY DEF OpenedThere, Chains
  <2>7. Sound(t) BY <1>1, <2>2, <2>3, PlacedSound
  <2>8. ASSUME t.ok, touches = upload.since
        PROVE  \A i \in DOMAIN upload.sent : There(t, upload.sent[i])
    BY <1>1, <1>2, <2>2, <2>3, <2>4, <2>8, PlacedSound
  <2>9. ASSUME t.ok, item.kind = "file" => what.data = "sent" PROVE There(t, item)
    <3>1. /\ item.kind = what.kind /\ what.owner = "owner" /\ (item.kind = "file" => what.data = "sent")
          /\ PathTo(Now, item.path, Root, n)
      BY <2>5, <2>9
    <3>2. QED BY <1>1, <2>2, <2>3, <2>9, <3>1, PlacedThere
  <2>10. QED BY <2>2, <2>6, <2>7, <2>8, <2>9
<1>5. CASE path # <<>>
  <2>1. PICK a \in Names : path = <<a>> BY <1>5
  <2>2. PICK u : u = Descend(<<a>>).tree OBVIOUS
  <2>3. PICK chain : chain = Descend(<<a>>).chain OBVIOUS
  <2>4. PICK d : d = Below(chain) OBVIOUS
  <2>5. Sound(u) /\ chain \in Chains /\ (u.ok => chain # <<>>) BY <2>2, <2>3, DescendSound
  <2>6. d \in Nodes \ {Abroad} /\ (chain # <<>> => d = chain[1].dir /\ d \in Nodes \ Fixed)
    BY <2>4, <2>5, ChainKinds, FixedNodes DEF Below
  <2>7. t = Placed(u, d, n, what) BY <2>1, <2>2, <2>3, <2>4
  <2>8. Sound(t) /\ (t.ok => u.ok) BY <2>5, <2>6, <2>7, PlacedSound
  <2>9. ASSUME t.ok, touches = upload.since
        PROVE  /\ OpenedThere(t, chain)
               /\ (item.kind = "file" => what.data = "sent") => There(t, item)
               /\ \A i \in DOMAIN upload.sent : There(t, upload.sent[i])
    <3>1. u.ok /\ chain # <<>> /\ d = chain[1].dir /\ d \in Nodes /\ d # Root /\ d # 0
      BY <2>5, <2>6, <2>8, <2>9, FixedNodes
    <3>2. OpenedThere(u, chain) /\ chain[1].name = a
          /\ \A x \in Items : There(Now, x) /\ (x.path # <<a>> \/ x.kind = "dir") => There(u, x)
      BY <2>2, <2>3, <2>9, <3>1, DescendSound
    <3>3. u.entries[Root][a] = d /\ u.node[d].kind = "dir" /\ u.node[d].owner = "owner"
      BY <3>1, <3>2 DEF OpenedThere
    <3>4. IsA(u, d, "dir") BY <3>1, <3>3 DEF IsA
    <3>5. Append(path, n) = <<a, n>> /\ Above(<<a, n>>) = <<a>> BY <2>1, ShortPaths
    <3>6. PathTo(u, item.path, d, n) BY <3>3, <3>4, <3>5 DEF PathTo
    <3>7. OpenedThere(t, chain)
      <4>1. t.entries[Root][a] = d /\ t.node[d] = u.node[d]
        <5>1. /\ \A m \in Names : d # Root \/ m # n => t.entries[Root][m] = u.entries[Root][m]
              /\ \A m \in Names : (d # Root \/ m # n) /\ u.entries[Root][m] \in Nodes =>
                   t.node[u.entries[Root][m]] = u.node[u.entries[Root][m]]
          BY <2>5, <2>6, <2>7, <2>9, PlacedSound
        <5>2. QED BY <3>1, <3>3, <5>1
      <4>2. QED BY <3>1, <3>2, <3>3, <4>1 DEF OpenedThere
    <3>8. ASSUME item.kind = "file" => what.data = "sent" PROVE There(t, item)
      <4>1. /\ item.kind = what.kind /\ what.owner = "owner" /\ (item.kind = "file" => what.data = "sent")
            /\ PathTo(u, item.path, d, n)
        BY <3>6, <3>8
      <4>2. QED BY <2>5, <2>6, <2>7, <2>9, <4>1, PlacedThere
    <3>9. ASSUME NEW i \in DOMAIN upload.sent PROVE There(t, upload.sent[i])
      <4> DEFINE x == upload.sent[i]
      <4>1. x \in Items /\ There(Now, x) /\ x.path \in Paths BY <1>2, <1>3, <2>9
      <4>2. x.path # <<a, n>> /\ (x.path = <<a>> => x.kind = "dir") BY <3>5 DEF Fits
      <4>3. There(u, x) BY <3>2, <4>1, <4>2
      <4>4. Apart(u, x.path, d, n)
        <5>1. SUFFICES ASSUME Len(x.path) = 2, d = u.entries[Root][x.path[1]] PROVE x.path[2] # n
          BY <3>1 DEF Apart
        <5>2. PICK b \in Names, m \in Names : x.path = <<b, m>> /\ x.path[1] = b /\ x.path[2] = m
          <6>1. Len(x.path) # 1 /\ x.path \in Paths BY <4>1, <5>1
          <6>2. QED BY <6>1, PathKinds
        <5>3. b = a BY <2>5, <3>3, <3>4, <5>1, <5>2 DEF Sound
        <5>4. QED BY <4>2, <5>2, <5>3
      <4>5. QED BY <2>5, <2>6, <2>7, <2>9, <4>1, <4>3, <4>4, PlacedSound
    <3>10. QED BY <3>7, <3>8, <3>9
  <2>10. QED BY <2>1, <2>3, <2>5, <2>8, <2>9
<1>6. QED BY <1>4, <1>5

(* A body that could not be written whole fails the upload and changes nothing else (_copy). *)
LEMMA CopiedSound ==
  ASSUME NEW t, Sound(t), NEW full \in BOOLEAN
  PROVE  /\ Sound(Copied(t, full)) /\ (Copied(t, full).ok => t.ok /\ full)
         /\ Copied(t, full).node = t.node /\ Copied(t, full).entries = t.entries
<1>1. t \in Trees /\ t.ok \in BOOLEAN /\ t = [node |-> t.node, entries |-> t.entries, ok |-> t.ok]
  BY DEF Sound, Trees
<1>2. PICK c : c = Copied(t, full) OBVIOUS
<1>3. c.node = t.node /\ c.entries = t.entries /\ c.ok = (t.ok /\ full)
      /\ c = [node |-> c.node, entries |-> c.entries, ok |-> c.ok]
  BY <1>1, <1>2 DEF Copied
<1>4. c \in Trees BY <1>1, <1>3 DEF Trees
<1>5. Sound(c)
  <2>1. \A m : IsA(c, c.entries[Root][m], "dir") <=> IsA(t, t.entries[Root][m], "dir")
    BY <1>3 DEF IsA
  <2>2. QED BY <1>3, <1>4, <2>1 DEF Sound
<1>6. QED BY <1>2, <1>3, <1>5

(* Streaming a file keeps the invariant. *)
LEMMA PutFileKeeps ==
  ASSUME FilesInvariant, PutFile
  PROVE  FilesInvariant'
<1>1. PICK path \in {<<>>} \cup {<<n>> : n \in Names}, n \in Names, full \in BOOLEAN :
        /\ Fits(Append(path, n))
        /\ Take(Copied(Placed(Descend(path).tree, Below(Descend(path).chain), n,
                              File(IF full THEN "sent" ELSE "part", "owner")), full),
                Descend(path).chain, [kind |-> "file", path |-> Append(path, n), full |-> full])
  BY DEF PutFile
<1>2. PICK what : what = File(IF full THEN "sent" ELSE "part", "owner") OBVIOUS
<1>3. what \in Things /\ what.kind = "file" /\ what.owner = "owner" /\ (full => what.data = "sent")
  BY <1>2, ThingsTyped DEF File
<1>4. PICK t : t = Placed(Descend(path).tree, Below(Descend(path).chain), n, what) OBVIOUS
<1>5. PICK chain : chain = Descend(path).chain OBVIOUS
<1>6. PICK c : c = Copied(t, full) OBVIOUS
<1>7. PICK item : item = [kind |-> "file", path |-> Append(path, n), full |-> full] OBVIOUS
<1>8. item \in Items /\ item.kind = "file" /\ item.path = Append(path, n)
  <2>1. Append(path, n) \in Paths
    <3>1. CASE path = <<>>
      <4>1. Append(path, n) = <<n>> BY <3>1, ShortPaths
      <4>2. QED BY <4>1 DEF Paths
    <3>2. CASE path # <<>>
      <4>1. PICK a \in Names : path = <<a>> BY <3>2
      <4>2. Append(path, n) = <<a, n>> BY <4>1, ShortPaths
      <4>3. QED BY <4>2 DEF Paths
    <3>3. QED BY <3>1, <3>2
  <2>2. QED BY <1>7, <2>1 DEF Items, Kinds
<1>9. Receiving BY DEF PutFile
<1>10. /\ Sound(t) /\ chain \in Chains
       /\ t.ok /\ touches = upload.since =>
            /\ OpenedThere(t, chain)
            /\ (item.kind = "file" => what.data = "sent") => There(t, item)
            /\ \A i \in DOMAIN upload.sent : There(t, upload.sent[i])
  BY <1>1, <1>3, <1>4, <1>5, <1>8, <1>9, PutSound
<1>11. Sound(c) /\ (c.ok => t.ok /\ full) /\ c.node = t.node /\ c.entries = t.entries
  BY <1>6, <1>10, CopiedSound
<1>12. \A x : There(t, x) => There(c, x) BY <1>11 DEF There, FoundIn, IsA
<1>13. OpenedThere(t, chain) => OpenedThere(c, chain) BY <1>11 DEF OpenedThere
<1>14. Take(c, chain, item) BY <1>1, <1>2, <1>4, <1>5, <1>6, <1>7
<1>15. QED BY <1>3, <1>8, <1>9, <1>10, <1>11, <1>12, <1>13, <1>14, TakeKeeps

(* Streaming a link keeps the invariant. *)
LEMMA PutSymlinkKeeps ==
  ASSUME FilesInvariant, PutSymlink
  PROVE  FilesInvariant'
<1>1. PICK path \in {<<>>} \cup {<<n>> : n \in Names}, n \in Names :
        /\ Fits(Append(path, n))
        /\ Take(Placed(Descend(path).tree, Below(Descend(path).chain), n, LinkTo(Abroad, "owner")),
                Descend(path).chain, [kind |-> "link", path |-> Append(path, n), full |-> TRUE])
  BY DEF PutSymlink
<1>2. PICK what : what = LinkTo(Abroad, "owner") OBVIOUS
<1>3. what \in Things /\ what.kind = "link" /\ what.owner = "owner"
  BY <1>2, ThingsTyped, FixedNodes DEF LinkTo
<1>4. PICK t : t = Placed(Descend(path).tree, Below(Descend(path).chain), n, what) OBVIOUS
<1>5. PICK chain : chain = Descend(path).chain OBVIOUS
<1>7. PICK item : item = [kind |-> "link", path |-> Append(path, n), full |-> TRUE] OBVIOUS
<1>8. item \in Items /\ item.kind = "link" /\ item.path = Append(path, n)
  <2>1. Append(path, n) \in Paths
    <3>1. CASE path = <<>>
      <4>1. Append(path, n) = <<n>> BY <3>1, ShortPaths
      <4>2. QED BY <4>1 DEF Paths
    <3>2. CASE path # <<>>
      <4>1. PICK a \in Names : path = <<a>> BY <3>2
      <4>2. Append(path, n) = <<a, n>> BY <4>1, ShortPaths
      <4>3. QED BY <4>2 DEF Paths
    <3>3. QED BY <3>1, <3>2
  <2>2. QED BY <1>7, <2>1 DEF Items, Kinds
<1>9. Receiving BY DEF PutSymlink
<1>10. /\ Sound(t) /\ chain \in Chains
       /\ t.ok /\ touches = upload.since =>
            /\ OpenedThere(t, chain)
            /\ (item.kind = "file" => what.data = "sent") => There(t, item)
            /\ \A i \in DOMAIN upload.sent : There(t, upload.sent[i])
  BY <1>1, <1>3, <1>4, <1>5, <1>8, <1>9, PutSound
<1>14. Take(t, chain, item) BY <1>1, <1>2, <1>4, <1>5, <1>7
<1>15. QED BY <1>8, <1>9, <1>10, <1>14, TakeKeeps

(* Another name for a node keeps a tree sound, unless the node is a directory that has one. *)
LEMMA LinkedSound ==
  ASSUME NEW t, Sound(t), NEW d \in Nodes \ {Abroad}, NEW n \in Names, NEW i \in Nodes \ {Root, Abroad},
         d = Root /\ t.node[i].kind = "dir" => \A m \in Names : t.entries[Root][m] # i
  PROVE  Sound(Linked(t, d, n, i))
<1> DEFINE u == Linked(t, d, n, i)
<1>1. t.entries \in [Nodes -> [Names -> Nodes \cup {0}]] /\ t.node \in [Nodes -> Things] /\ t.ok \in BOOLEAN
      /\ t \in Trees
  BY DEF Sound, Trees
<1>2. u.node = t.node /\ u.ok = t.ok /\ u.entries = [t.entries EXCEPT ![d] = [@ EXCEPT ![n] = i]]
  BY <1>1 DEF Linked, Trees
<1>t. t = [node |-> t.node, entries |-> t.entries, ok |-> t.ok] BY <1>1 DEF Trees
<1>r. u = [node |-> u.node, entries |-> u.entries, ok |-> u.ok] BY <1>t DEF Linked
<1> HIDE DEF u
<1>3. u.entries \in [Nodes -> [Names -> Nodes \cup {0}]] BY <1>1, <1>2
<1>4. \A e \in Nodes, m \in Names : u.entries[e][m] = IF e = d /\ m = n THEN i ELSE t.entries[e][m]
  <2>1. u.entries[d] = [t.entries[d] EXCEPT ![n] = i] /\ \A e \in Nodes : e # d => u.entries[e] = t.entries[e]
    BY <1>1, <1>2
  <2>2. QED BY <1>1, <2>1
<1>5. u.entries[Abroad] = t.entries[Abroad] BY <1>1, <1>2, FixedNodes
<1>6. u \in Trees BY <1>r, <1>1, <1>2, <1>3 DEF Trees
<1>7. \A e \in Nodes, m \in Names : u.entries[e][m] \notin {Root, Abroad}
  <2>1. \A e \in Nodes, m \in Names : t.entries[e][m] \notin {Root, Abroad} BY DEF Sound
  <2>2. QED BY <1>4, <2>1
<1>8. ASSUME NEW k \in Names, NEW m \in Names,
             u.entries[Root][k] = u.entries[Root][m], IsA(u, u.entries[Root][k], "dir")
      PROVE  k = m
  <2>1. CASE d = Root /\ u.entries[Root][k] = i
    <3>1. t.node[i].kind = "dir" BY <1>2, <1>8, <2>1 DEF IsA
    <3>2. \A j \in Names : u.entries[Root][j] = i => j = n BY <1>4, <2>1, <3>1, FixedNodes
    <3>3. QED BY <1>8, <2>1, <3>2
  <2>2. CASE ~ (d = Root /\ u.entries[Root][k] = i)
    <3>1. t.entries[Root][k] = u.entries[Root][k] /\ t.entries[Root][m] = u.entries[Root][m]
      BY <1>4, <1>8, <2>2, FixedNodes
    <3>2. IsA(t, t.entries[Root][k], "dir") BY <1>2, <1>8, <3>1 DEF IsA
    <3>3. QED BY <1>8, <3>1, <3>2 DEF Sound
  <2>3. QED BY <2>1, <2>2
<1>9. QED BY <1>2, <1>5, <1>6, <1>7, <1>8 DEF Sound, u

(* Removing what is in a directory (rmtree) keeps a tree sound. *)
LEMMA EmptiedSound ==
  ASSUME NEW t, Sound(t), NEW i \in Nodes \ Fixed
  PROVE  Sound(Emptied(t, i))
<1> DEFINE u == Emptied(t, i)
<1>1. t.entries \in [Nodes -> [Names -> Nodes \cup {0}]] /\ t.node \in [Nodes -> Things] /\ t.ok \in BOOLEAN
      /\ t \in Trees
  BY DEF Sound, Trees
<1>2. u.node = t.node /\ u.ok = t.ok /\ u.entries = [t.entries EXCEPT ![i] = Nameless]
  BY <1>1 DEF Emptied, Trees
<1>t. t = [node |-> t.node, entries |-> t.entries, ok |-> t.ok] BY <1>1 DEF Trees
<1>r. u = [node |-> u.node, entries |-> u.entries, ok |-> u.ok] BY <1>t DEF Emptied
<1> HIDE DEF u
<1>3. Nameless \in [Names -> Nodes \cup {0}] /\ \A m \in Names : Nameless[m] = 0 BY DEF Nameless
<1>4. u.entries \in [Nodes -> [Names -> Nodes \cup {0}]] BY <1>1, <1>2, <1>3
<1>5. \A e \in Nodes, m \in Names : u.entries[e][m] = IF e = i THEN 0 ELSE t.entries[e][m]
  BY <1>1, <1>2, <1>3
<1>6. u.entries[Abroad] = t.entries[Abroad] /\ u.entries[Root] = t.entries[Root]
  BY <1>1, <1>2, FixedNodes
<1>7. u \in Trees BY <1>r, <1>1, <1>2, <1>4 DEF Trees
<1>8. \A e \in Nodes, m \in Names : u.entries[e][m] \notin {Root, Abroad}
  <2>1. \A e \in Nodes, m \in Names : t.entries[e][m] \notin {Root, Abroad} BY DEF Sound
  <2>2. QED BY <1>5, <2>1, FixedNodes
<1>9. QED BY <1>2, <1>6, <1>7, <1>8 DEF Sound, IsA, u

(* Writing into a file that is the agent's keeps a tree sound. *)
LEMMA FilledSound ==
  ASSUME NEW t, Sound(t), NEW i \in Nodes \ Fixed, t.node[i].kind # "dir",
         NEW what \in Things, what.kind # "dir"
  PROVE  Sound(Filled(t, i, what))
<1> DEFINE u == Filled(t, i, what)
<1>1. t.entries \in [Nodes -> [Names -> Nodes \cup {0}]] /\ t.node \in [Nodes -> Things] /\ t.ok \in BOOLEAN
      /\ t \in Trees
  BY DEF Sound, Trees
<1>2. u.entries = t.entries /\ u.ok = t.ok /\ u.node = [t.node EXCEPT ![i] = what]
  BY <1>1 DEF Filled, Trees
<1>t. t = [node |-> t.node, entries |-> t.entries, ok |-> t.ok] BY <1>1 DEF Trees
<1>r. u = [node |-> u.node, entries |-> u.entries, ok |-> u.ok] BY <1>t DEF Filled
<1> HIDE DEF u
<1>3. u.node \in [Nodes -> Things] BY <1>1, <1>2
<1>4. u.node[Root] = t.node[Root] /\ u.node[Abroad] = t.node[Abroad] /\ u.node[Theirs] = t.node[Theirs]
  BY <1>1, <1>2, FixedNodes
<1>5. u \in Trees BY <1>r, <1>1, <1>2, <1>3 DEF Trees
<1>6. ASSUME NEW k \in Names, NEW m \in Names,
             u.entries[Root][k] = u.entries[Root][m], IsA(u, u.entries[Root][k], "dir")
      PROVE  k = m
  <2>1. t.entries[Root][k] \in Nodes /\ t.entries[Root][k] = t.entries[Root][m]
    BY <1>1, <1>2, <1>6, FixedNodes DEF IsA
  <2>2. IsA(t, t.entries[Root][k], "dir") BY <1>1, <1>2, <1>6, <2>1 DEF IsA
  <2>3. QED BY <2>1, <2>2 DEF Sound
<1>7. QED BY <1>2, <1>4, <1>5, <1>6 DEF Sound, u

(* A call outside an upload keeps the invariant when the tree it leaves is sound. *)
LEMMA AnswerKeeps ==
  ASSUME FilesInvariant, NEW t, Sound(t), AnswerWith(t)
  PROVE  FilesInvariant'
<1>1. /\ Now' = SettledTree(t, <<>>) /\ answered' = NoneTold /\ touches' = touches /\ upload' = upload
      /\ ~ upload.open
  BY SettlesIs DEF AnswerWith
<1>2. Sound(Now)' BY <1>1, SettledSound
<1>3. UploadType' BY <1>1 DEF FilesInvariant, UploadType
<1>4. Undisturbed' BY <1>1 DEF Undisturbed
<1>5. Told' BY <1>1 DEF Told, NoneTold
<1>6. QED BY <1>2, <1>3, <1>4, <1>5 DEF FilesInvariant

(* _clear_link unlinks a link, and leaves anything else as it is. *)
LEMMA WithoutLinkSound ==
  ASSUME FilesInvariant, NEW n \in Names
  PROVE  /\ Sound(WithoutLink(n))
         /\ WithoutLink(n).entries[Root][n] # 0 => WithoutLink(n) = Now
<1>1. Sound(Now) /\ Root \in Nodes \ {Abroad} BY FixedNodes DEF FilesInvariant
<1>2. CASE IsA(Now, NodeAt(Now, Root, n), "link")
  <2>1. WithoutLink(n) = Unlinked(Now, Root, n) BY <1>2 DEF WithoutLink
  <2>2. Unlinked(Now, Root, n).entries[Root][n] = 0 BY <1>1, UnlinkedSound
  <2>3. QED BY <1>1, <2>1, <2>2, UnlinkedSound
<1>3. CASE ~ IsA(Now, NodeAt(Now, Root, n), "link")
  <2>1. WithoutLink(n) = Now BY <1>3 DEF WithoutLink
  <2>2. QED BY <1>1, <2>1
<1>4. QED BY <1>2, <1>3

(* _open_for_write: a file is written in place only when it has one name, so it is not one *)
(* from elsewhere.                                                                         *)
LEMMA OpenForWriteSound ==
  ASSUME FilesInvariant, NEW n \in Names, NEW append \in BOOLEAN
  PROVE  Sound(OpenForWrite(n, append))
<1> DEFINE r == OpenForWrite(n, append)
<1>1. PICK t : t = WithoutLink(n) OBVIOUS
<1>2. PICK i : i = NodeAt(t, Root, n) OBVIOUS
<1>3. PICK new : new = File(IF append /\ IsA(t, i, "file") THEN "both" ELSE "sent", "owner") OBVIOUS
<1>4. new \in Things /\ new.kind = "file" BY <1>3, ThingsTyped DEF File
<1>5. Sound(t) /\ Root \in Nodes \ {Abroad} /\ (i # 0 => t = Now)
  BY <1>1, <1>2, WithoutLinkSound, FixedNodes DEF NodeAt
<1>6. i = t.entries[Root][n] BY <1>2 DEF NodeAt
<1>7. CASE i = 0
  <2>1. r = WithNew(t, Root, n, new) BY <1>1, <1>2, <1>3, <1>7 DEF OpenForWrite, IsA
  <2>2. QED BY <1>4, <1>5, <2>1, WithNewAny
<1>8. CASE i # 0 /\ IsA(t, i, "dir")
  <2>1. r = t BY <1>1, <1>2, <1>3, <1>8 DEF OpenForWrite, IsA
  <2>2. QED BY <1>5, <2>1
<1>9. CASE i # 0 /\ ~ IsA(t, i, "dir") /\ IsA(t, i, "file") /\ OneName(i)
  <2>1. r = Filled(t, i, new) BY <1>1, <1>2, <1>3, <1>9 DEF OpenForWrite, IsA
  <2>2. i \in Nodes /\ i # Root /\ i # Abroad
    BY <1>5, <1>6, <1>9, FixedNodes DEF Sound, Trees
  <2>3. i # Theirs
    <3>1. SUFFICES ASSUME i = Theirs PROVE FALSE OBVIOUS
    <3>2. entries[Root][n] = i BY <1>5, <1>6, <1>9, NowIs
    <3>3. entries[Abroad] = [Nameless EXCEPT ![SomeName] = Theirs]
      BY NowIs DEF FilesInvariant, Sound
    <3>4. entries[Abroad][SomeName] = i BY <3>1, <3>3, FixedNodes DEF Nameless
    <3>5. <<Root, n>> \in Nodes \X Names /\ <<Abroad, SomeName>> \in Nodes \X Names
      BY FixedNodes
    <3>6. \A p, q \in Nodes \X Names : entries[p[1]][p[2]] = i /\ entries[q[1]][q[2]] = i => p = q
      BY <1>9 DEF OneName
    <3>7. <<Root, n>> = <<Abroad, SomeName>> BY <3>2, <3>4, <3>5, <3>6
    <3>8. QED BY <3>7, FixedNodes
  <2>4. i \in Nodes \ Fixed /\ t.node[i].kind # "dir" BY <1>9, <2>2, <2>3, FixedNodes DEF IsA
  <2>5. QED BY <1>4, <1>5, <2>1, <2>4, FilledSound
<1>10. CASE i # 0 /\ ~ IsA(t, i, "dir") /\ ~ (IsA(t, i, "file") /\ OneName(i))
  <2>1. r = IF append THEN t ELSE WithNew(Unlinked(t, Root, n), Root, n, new)
    BY <1>1, <1>2, <1>3, <1>10 DEF OpenForWrite, IsA
  <2>2. Sound(Unlinked(t, Root, n)) BY <1>5, UnlinkedSound
  <2>3. Sound(WithNew(Unlinked(t, Root, n), Root, n, new)) BY <1>4, <1>5, <2>2, WithNewAny
  <2>4. QED BY <1>5, <2>1, <2>3
<1>11. QED BY <1>7, <1>8, <1>9, <1>10

(* op_mkdirs makes a directory or takes one over, never what a link leads to. *)
LEMMA WithDirSound ==
  ASSUME FilesInvariant, NEW n \in Names
  PROVE  Sound(WithDir(n))
<1>1. PICK t : t = WithoutLink(n) OBVIOUS
<1>2. PICK i : i = NodeAt(t, Root, n) OBVIOUS
<1>3. Sound(t) /\ Root \in Nodes \ {Abroad} /\ i = t.entries[Root][n] /\ Dir("owner") \in Things
  BY <1>1, <1>2, WithoutLinkSound, FixedNodes, ThingsTyped DEF NodeAt
<1>4. CASE i = 0
  <2>1. WithDir(n) = WithNew(t, Root, n, Dir("owner")) BY <1>1, <1>2, <1>4 DEF WithDir, IsA
  <2>2. QED BY <1>3, <2>1, WithNewAny
<1>5. CASE i # 0 /\ IsA(t, i, "dir")
  <2>1. WithDir(n) = Owned(t, i) BY <1>1, <1>2, <1>5 DEF WithDir, IsA
  <2>2. QED BY <1>3, <1>5, <2>1, OwnedSound
<1>6. CASE i # 0 /\ ~ IsA(t, i, "dir")
  <2>1. WithDir(n) = t BY <1>1, <1>2, <1>6 DEF WithDir, IsA
  <2>2. QED BY <1>3, <2>1
<1>7. QED BY <1>4, <1>5, <1>6

(* Removing a path keeps the invariant: what is elsewhere is not below it. *)
LEMMA RemovePathKeeps ==
  ASSUME FilesInvariant, RemovePath
  PROVE  FilesInvariant'
<1>1. PICK n \in Names :
        LET i == NodeAt(Now, Root, n)
            t == Unlinked(Now, Root, n)
        IN i # 0 /\ AnswerWith(IF IsA(Now, i, "dir") THEN Emptied(t, i) ELSE t)
  BY DEF RemovePath
<1>2. PICK i : i = NodeAt(Now, Root, n) OBVIOUS
<1>3. PICK t : t = Unlinked(Now, Root, n) OBVIOUS
<1>4. PICK u : u = IF IsA(Now, i, "dir") THEN Emptied(t, i) ELSE t OBVIOUS
<1>5. AnswerWith(u) BY <1>1, <1>2, <1>3, <1>4
<1>6. Sound(Now) /\ Sound(t) BY <1>3, UnlinkedSound, FixedNodes DEF FilesInvariant
<1>7. CASE IsA(Now, i, "dir")
  <2>1. i = Now.entries[Root][n] BY <1>2 DEF NodeAt
  <2>2. i \in Nodes \ Fixed BY <1>6, <1>7, <2>1, OwnedSound
  <2>3. Sound(u) BY <1>4, <1>6, <1>7, <2>2, EmptiedSound
  <2>4. QED BY <1>5, <2>3, AnswerKeeps
<1>8. CASE ~ IsA(Now, i, "dir")
  <2>1. Sound(u) BY <1>4, <1>6, <1>8
  <2>2. QED BY <1>5, <2>1, AnswerKeeps
<1>9. QED BY <1>7, <1>8

(* Writing a file keeps the invariant. *)
LEMMA WriteFileKeeps ==
  ASSUME FilesInvariant, WriteFile
  PROVE  FilesInvariant'
<1>1. PICK n \in Names, append \in BOOLEAN : AnswerWith(OpenForWrite(n, append))
  BY DEF WriteFile
<1>2. PICK t : t = OpenForWrite(n, append) OBVIOUS
<1>3. Sound(t) /\ AnswerWith(t) BY <1>1, <1>2, OpenForWriteSound
<1>4. QED BY <1>3, AnswerKeeps

(* Making directories keeps the invariant. *)
LEMMA MakeDirsKeeps ==
  ASSUME FilesInvariant, MakeDirs
  PROVE  FilesInvariant'
<1>1. PICK n \in Names : AnswerWith(WithDir(n)) BY DEF MakeDirs
<1>2. PICK t : t = WithDir(n) OBVIOUS
<1>3. Sound(t) /\ AnswerWith(t) BY <1>1, <1>2, WithDirSound
<1>4. QED BY <1>3, AnswerKeeps

(* Whatever the agent makes, links, moves or removes keeps the invariant; an upload it *)
(* interferes with promises nothing.                                                   *)
LEMMA TouchKeeps ==
  ASSUME FilesInvariant, Touch
  PROVE  FilesInvariant'
<1>1. PICK d \in {Root} \cup {i \in NamedNodes(entries) : IsA(Now, i, "dir") /\ i # Abroad}, n \in Names :
        \E t \in
          (IF NodeAt(Now, d, n) # 0 THEN {Unlinked(Now, d, n)}
           ELSE {WithNew(Now, d, n, what) :
                   what \in {File("own", "agent"), LinkTo(Abroad, "agent"), LinkTo(Theirs, "agent")}
                              \cup (IF d = Root THEN {Dir("agent")} ELSE {})}
                \cup {Linked(Now, d, n, Theirs)}
                \cup {Linked(Unlinked(Now, d, m), d, n, NodeAt(Now, d, m)) :
                        m \in {k \in Names : NodeAt(Now, d, k) # 0}}) :
          t.ok /\ Settles(t, upload.chain)
  BY DEF Touch
<1>2. PICK t :
        /\ \/ t = Unlinked(Now, d, n)
           \/ \E what \in {File("own", "agent"), LinkTo(Abroad, "agent"), LinkTo(Theirs, "agent"), Dir("agent")} :
                t = WithNew(Now, d, n, what)
           \/ t = Linked(Now, d, n, Theirs)
           \/ \E m \in Names : NodeAt(Now, d, m) # 0 /\ t = Linked(Unlinked(Now, d, m), d, n, NodeAt(Now, d, m))
        /\ Settles(t, upload.chain)
  BY <1>1
<1>3. Sound(Now) /\ Now.entries = entries /\ Now.node = node BY NowIs DEF FilesInvariant
<1>4. d \in Nodes \ {Abroad}
  <2>1. entries \in [Nodes -> [Names -> Nodes \cup {0}]] BY <1>3 DEF Sound, Trees
  <2>2. CASE d = Root BY <2>2, FixedNodes
  <2>3. CASE d \in NamedNodes(entries) /\ IsA(Now, d, "dir") /\ d # Abroad
    <3>1. d # 0 BY <2>3 DEF IsA
    <3>2. d \in Nodes \cup {0} BY <2>1, <2>3 DEF NamedNodes
    <3>3. QED BY <2>3, <3>1, <3>2
  <2>4. QED BY <1>1, <2>2, <2>3
<1>5. Sound(t)
  <2>1. CASE t = Unlinked(Now, d, n) BY <1>3, <1>4, <2>1, UnlinkedSound
  <2>2. CASE \E what \in {File("own", "agent"), LinkTo(Abroad, "agent"), LinkTo(Theirs, "agent"), Dir("agent")} :
               t = WithNew(Now, d, n, what)
    <3>1. {File("own", "agent"), LinkTo(Abroad, "agent"), LinkTo(Theirs, "agent"), Dir("agent")} \subseteq Things
      BY ThingsTyped, FixedNodes
    <3>2. QED BY <1>3, <1>4, <2>2, <3>1, WithNewAny
  <2>3. CASE t = Linked(Now, d, n, Theirs)
    <3>1. Theirs \in Nodes \ {Root, Abroad} /\ Now.node[Theirs].kind = "file"
      BY <1>3, FixedNodes DEF Sound, File
    <3>2. QED BY <1>3, <1>4, <2>3, <3>1, LinkedSound
  <2>4. CASE \E m \in Names : NodeAt(Now, d, m) # 0 /\ t = Linked(Unlinked(Now, d, m), d, n, NodeAt(Now, d, m))
    <3>1. PICK m \in Names : NodeAt(Now, d, m) # 0 /\ t = Linked(Unlinked(Now, d, m), d, n, NodeAt(Now, d, m))
      BY <2>4
    <3>2. PICK u : u = Unlinked(Now, d, m) OBVIOUS
    <3>3. PICK i : i = Now.entries[d][m] OBVIOUS
    <3>4. t = Linked(u, d, n, i) /\ i # 0 BY <3>1, <3>2, <3>3 DEF NodeAt
    <3>5. Sound(u) /\ u.node = Now.node
          /\ \A e \in Nodes, k \in Names : u.entries[e][k] = IF e = d /\ k = m THEN 0 ELSE Now.entries[e][k]
      BY <1>3, <1>4, <3>2, UnlinkedSound
    <3>6. i \in Nodes \ {Root, Abroad}
      <4>1. Now.entries \in [Nodes -> [Names -> Nodes \cup {0}]]
            /\ \A e \in Nodes, k \in Names : Now.entries[e][k] \notin {Root, Abroad}
        BY <1>3 DEF Sound, Trees
      <4>2. QED BY <1>4, <3>3, <3>4, <4>1
    <3>7. ASSUME d = Root, u.node[i].kind = "dir", NEW k \in Names, u.entries[Root][k] = i PROVE FALSE
      <4>1. k # m /\ Now.entries[Root][k] = i
        BY <3>4, <3>5, <3>7, FixedNodes
      <4>2. IsA(Now, Now.entries[Root][k], "dir") BY <3>4, <3>5, <3>7, <4>1 DEF IsA
      <4>3. k = m BY <1>3, <3>3, <3>7, <4>1, <4>2 DEF Sound
      <4>4. QED BY <4>1, <4>3
    <3>8. QED BY <1>4, <3>4, <3>5, <3>6, <3>7, LinkedSound
  <2>5. QED BY <1>2, <2>1, <2>2, <2>3, <2>4
<1>6. PICK chain : chain = upload.chain OBVIOUS
<1>7. Now' = SettledTree(t, chain)
  <2>1. Settles(t, chain) BY <1>2, <1>6
  <2>2. QED BY <2>1, SettlesIs
<1>8. touches' = touches + 1 /\ answered' = NoneTold /\ upload' = upload BY DEF Touch
<1>9. upload \in Uploads /\ touches \in Nat /\ (upload.open => upload.since <= touches) /\ upload.since \in Nat
      /\ (~ upload.open => upload = NoUpload)
  BY DEF FilesInvariant, UploadType, Uploads
<1>10. Sound(Now)' BY <1>5, <1>7, SettledSound
<1>11. UploadType' BY <1>8, <1>9 DEF UploadType
<1>12. Undisturbed' BY <1>8, <1>9 DEF Undisturbed
<1>13. Told' BY <1>8 DEF Told, NoneTold
<1>14. QED BY <1>10, <1>11, <1>12, <1>13 DEF FilesInvariant

(* The start of an upload takes over the directory it goes to, and nothing has been sent. *)
LEMMA StartUploadKeeps ==
  ASSUME FilesInvariant, StartUpload
  PROVE  FilesInvariant'
<1>1. /\ ~ upload.open /\ answered' = NoneTold /\ entries' = entries /\ touches' = touches
      /\ upload' = [open |-> TRUE, chain |-> <<>>, failed |-> FALSE, sent |-> <<>>, since |-> touches]
      /\ node' = [node EXCEPT ![Root] = [@ EXCEPT !.owner = "owner"]]
  BY DEF StartUpload
<1>2. Sound(Now) /\ touches \in Nat BY DEF FilesInvariant, UploadType
<1>3. /\ node \in [Nodes -> Things] /\ entries \in [Nodes -> [Names -> Nodes \cup {0}]]
      /\ node[Root].kind = "dir" /\ node[Theirs] = File("theirs", "theirs") /\ node[Abroad] = Dir("theirs")
      /\ entries[Abroad] = [Nameless EXCEPT ![SomeName] = Theirs]
      /\ \A d \in Nodes, n \in Names : entries[d][n] \notin {Root, Abroad}
      /\ \A m, n \in Names : entries[Root][m] = entries[Root][n] /\ IsA(Now, entries[Root][m], "dir") => m = n
  BY <1>2, NowIs DEF Sound, Trees
<1>4. [node[Root] EXCEPT !.owner = "owner"] \in Things /\ [node[Root] EXCEPT !.owner = "owner"].kind = "dir"
  <2>1. PICK x \in Things : x = node[Root] /\ x.kind = "dir" BY <1>3, FixedNodes
  <2>2. [x EXCEPT !.owner = "owner"] \in Things /\ [x EXCEPT !.owner = "owner"].kind = "dir"
    BY <2>1 DEF Things
  <2>3. QED BY <2>1, <2>2
<1>5. /\ node' \in [Nodes -> Things] /\ node'[Root].kind = "dir"
      /\ node'[Theirs] = node[Theirs] /\ node'[Abroad] = node[Abroad]
      /\ \A i \in Nodes : node'[i].kind = node[i].kind
  BY <1>1, <1>3, <1>4, FixedNodes
<1>6. PICK s : s = Now' OBVIOUS
<1>7. s.node = node' /\ s.entries = entries /\ s.ok = TRUE /\ s = [node |-> node', entries |-> entries, ok |-> TRUE]
  BY <1>1, <1>6 DEF Now
<1>8. Sound(s)
  <2>1. s \in Trees BY <1>3, <1>5, <1>7 DEF Trees
  <2>2. ASSUME NEW m \in Names, NEW n \in Names,
               s.entries[Root][m] = s.entries[Root][n], IsA(s, s.entries[Root][m], "dir")
        PROVE  m = n
    <3>1. entries[Root][m] \in Nodes /\ entries[Root][m] = entries[Root][n]
      BY <1>3, <1>7, <2>2, FixedNodes DEF IsA
    <3>2. IsA(Now, entries[Root][m], "dir") BY <1>5, <1>7, <2>2, <3>1, NowIs DEF IsA
    <3>3. QED BY <1>3, <3>1, <3>2
  <2>3. QED BY <1>3, <1>5, <1>7, <2>1, <2>2 DEF Sound
<1>9. Sound(Now)' BY <1>6, <1>8
<1>10. UploadType' BY <1>1, <1>2 DEF UploadType, Uploads, Chains
<1>11. Undisturbed' BY <1>1 DEF Undisturbed, OpenedThere
<1>12. Told' BY <1>1 DEF Told, NoneTold
<1>13. QED BY <1>9, <1>10, <1>11, <1>12 DEF FilesInvariant

(* What the call tells at the end is true of the tree it leaves. *)
LEMMA FinishUploadKeeps ==
  ASSUME FilesInvariant, FinishUpload
  PROVE  FilesInvariant'
<1>1. /\ upload.open /\ upload' = NoUpload /\ touches' = touches
      /\ answered' = [ok |-> ~ upload.failed, alone |-> touches = upload.since, sent |-> upload.sent]
      /\ Settles(Now, <<>>)
  BY DEF FinishUpload
<1>2. PICK t : t = Now OBVIOUS
<1>3. Now' = SettledTree(t, <<>>)
  <2>1. Settles(t, <<>>) BY <1>1, <1>2
  <2>2. QED BY <2>1, SettlesIs
<1>4. Sound(t) BY <1>2 DEF FilesInvariant
<1>5. Sound(Now)' BY <1>3, <1>4, SettledSound
<1>6. touches \in Nat /\ upload.sent \in Seq(Items) BY DEF FilesInvariant, UploadType, Uploads
<1>7. UploadType' BY <1>1, <1>6 DEF UploadType, Uploads, NoUpload, Chains
<1>8. Undisturbed' BY <1>1 DEF Undisturbed, NoUpload
<1>9. ASSUME answered'.ok, answered'.alone, NEW i \in DOMAIN upload.sent
      PROVE  There(SettledTree(t, <<>>), upload.sent[i])
  <2>1. ~ upload.failed /\ touches = upload.since BY <1>1, <1>9
  <2>2. There(t, upload.sent[i]) BY <1>1, <1>2, <1>9, <2>1 DEF FilesInvariant, Undisturbed
  <2>3. upload.sent[i] \in Items BY <1>6, <1>9
  <2>4. QED BY <1>4, <2>2, <2>3, SettledSound
<1>10. answered'.sent = upload.sent BY <1>1
<1>11. Told' BY <1>3, <1>6, <1>9, <1>10 DEF Told
<1>12. QED BY <1>5, <1>7, <1>8, <1>11 DEF FilesInvariant

(* The invariant holds at first. *)
LEMMA FilesInitially ==
  ASSUME FilesInit
  PROVE  FilesInvariant
<1>1. /\ node = [i \in Nodes |-> CASE i = Root -> Dir("agent") [] i = Abroad -> Dir("theirs")
                                   [] i = Theirs -> File("theirs", "theirs") [] OTHER -> Nothing]
      /\ entries = [i \in Nodes |-> IF i = Abroad THEN [Nameless EXCEPT ![SomeName] = Theirs] ELSE Nameless]
      /\ upload = NoUpload /\ answered = NoneTold /\ touches = 0
  BY DEF FilesInit
<1>2. node[Root] = Dir("agent") /\ node[Abroad] = Dir("theirs") /\ node[Theirs] = File("theirs", "theirs")
      /\ \A i \in Nodes : i \notin Fixed => node[i] = Nothing
  BY <1>1, FixedNodes
<1>3. \A i \in Nodes : node[i] \in Things
  BY <1>2, ThingsTyped, FixedNodes
<1>4. node \in [Nodes -> Things] BY <1>1, <1>3
<1>5. Nameless \in [Names -> Nodes \cup {0}] /\ (\A n \in Names : Nameless[n] = 0)
      /\ [Nameless EXCEPT ![SomeName] = Theirs] \in [Names -> Nodes \cup {0}]
      /\ \A n \in Names : [Nameless EXCEPT ![SomeName] = Theirs][n] \in {0, Theirs}
  BY FixedNodes DEF Nameless
<1>6. entries \in [Nodes -> [Names -> Nodes \cup {0}]] /\ entries[Abroad] = [Nameless EXCEPT ![SomeName] = Theirs]
      /\ entries[Root] = Nameless /\ \A d \in Nodes, n \in Names : entries[d][n] \in {0, Theirs}
  BY <1>1, <1>5, FixedNodes
<1>7. Sound(Now)
  <2>1. Now \in Trees BY <1>4, <1>6, NowIs DEF Trees
  <2>2. Now.node[Root].kind = "dir" BY <1>2, NowIs DEF Dir
  <2>3. \A n \in Names : ~ IsA(Now, Now.entries[Root][n], "dir") BY <1>5, <1>6, NowIs DEF IsA
  <2>4. \A d \in Nodes, n \in Names : Now.entries[d][n] \notin {Root, Abroad}
    BY <1>6, NowIs, FixedNodes
  <2>5. QED BY <1>2, <1>6, <2>1, <2>2, <2>3, <2>4, NowIs DEF Sound
<1>8. UploadType BY <1>1 DEF UploadType, Uploads, NoUpload, Chains
<1>9. Undisturbed BY <1>1 DEF Undisturbed, NoUpload
<1>10. Told BY <1>1 DEF Told, NoneTold
<1>11. QED BY <1>7, <1>8, <1>9, <1>10 DEF FilesInvariant

(* Every step keeps the invariant. *)
LEMMA FilesStep ==
  ASSUME FilesInvariant, [FilesNext]_fileVars
  PROVE  FilesInvariant'
<1>1. CASE UNCHANGED fileVars
  <2>1. node' = node /\ entries' = entries /\ upload' = upload /\ answered' = answered /\ touches' = touches
    BY <1>1 DEF fileVars
  <2>2. Now' = Now BY <2>1 DEF Now
  <2>3. Sound(Now)' BY <2>2 DEF FilesInvariant
  <2>4. UploadType' BY <2>1 DEF FilesInvariant, UploadType
  <2>5. Undisturbed' BY <2>1, <2>2 DEF FilesInvariant, Undisturbed
  <2>6. Told' BY <2>1, <2>2 DEF FilesInvariant, Told
  <2>7. QED BY <2>3, <2>4, <2>5, <2>6 DEF FilesInvariant
<1>2. CASE StartUpload BY <1>2, StartUploadKeeps
<1>3. CASE PutDirectory BY <1>3, PutDirectoryKeeps
<1>4. CASE PutFile BY <1>4, PutFileKeeps
<1>5. CASE PutSymlink BY <1>5, PutSymlinkKeeps
<1>6. CASE FinishUpload BY <1>6, FinishUploadKeeps
<1>7. CASE WriteFile BY <1>7, WriteFileKeeps
<1>8. CASE MakeDirs BY <1>8, MakeDirsKeeps
<1>9. CASE RemovePath BY <1>9, RemovePathKeeps
<1>10. CASE Touch BY <1>10, TouchKeeps
<1>11. QED BY <1>1, <1>2, <1>3, <1>4, <1>5, <1>6, <1>7, <1>8, <1>9, <1>10 DEF FilesNext

(* Following a path name by name finds what the invariant says is at it. *)
LEMMA LookupFinds ==
  ASSUME Sound(Now), NEW path \in Paths
  PROVE  Lookup(path) = FoundIn(Now, path)
<1>1. IsA(Now, Root, "dir") BY FixedNodes DEF Sound, IsA
<1>2. CASE \E n \in Names : path = <<n>> /\ Len(path) = 1 /\ path[1] = n
  BY <1>1, <1>2, NowIs DEF Lookup, FoundIn
<1>3. CASE \E a \in Names, n \in Names : path = <<a, n>> /\ Len(path) = 2 /\ path[1] = a /\ path[2] = n
  BY <1>3, NowIs DEF Lookup, FoundIn
<1>4. QED BY <1>2, <1>3, PathKinds

(* The invariant implies the property. *)
LEMMA FilesInvariantMeans ==
  ASSUME FilesInvariant
  PROVE  FilesLandWhereSent
<1>1. Sound(Now) /\ Now.node = node /\ Now.entries = entries BY NowIs DEF FilesInvariant
<1>2. ASSUME answered.ok, answered.alone, NEW i \in DOMAIN answered.sent
      PROVE  LET there == Lookup(answered.sent[i].path)
             IN /\ IsA(Now, there, answered.sent[i].kind) /\ node[there].owner = "owner"
                /\ node[there].kind = "file" => node[there].data = "sent"
  <2>1. answered.sent[i] \in Items /\ There(Now, answered.sent[i])
    BY <1>2 DEF FilesInvariant, Told
  <2>2. Lookup(answered.sent[i].path) = FoundIn(Now, answered.sent[i].path)
    BY <1>1, <2>1, LookupFinds DEF Items
  <2>3. QED BY <1>1, <2>1, <2>2 DEF There, IsA
<1>3. QED BY <1>1, <1>2 DEF FilesLandWhereSent, Sound

(* Whatever the agent puts in the way, guestd writes, renames and hands over nothing that is *)
(* not the agent's; and an upload that is told to have succeeded while nobody touched the    *)
(* place is there, every entry under its own path (op_put_tree, op_write_file, op_mkdirs,    *)
(* op_remove). For every set of names and nodes.                                             *)
THEOREM FilesLandWhereSentHolds == FilesSpec => []FilesLandWhereSent
<1>1. FilesInit => FilesInvariant BY FilesInitially
<1>2. FilesInvariant /\ [FilesNext]_fileVars => FilesInvariant' BY FilesStep
<1>3. FilesInvariant => FilesLandWhereSent BY FilesInvariantMeans
<1>4. QED BY <1>1, <1>2, <1>3, PTL DEF FilesSpec
=============================================================================
