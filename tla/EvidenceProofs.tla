-------------------------- MODULE EvidenceProofs --------------------------
(***************************************************************************)
(* Theorems about what an episode leaves and what it starts from: the logs *)
(* of LogMirror, the records of EvidenceStore, the prepared images of      *)
(* ImageCache, the kept solvers of Continuation, the Judges' calls, and    *)
(* what the trajectories tell of subagents (Delegations).  The inductive   *)
(* invariants are MirrorInvariant, CacheInvariant, ContinuationInvariant,  *)
(* EvidenceInvariant, JudgesInvariant and DelegationsInvariant.            *)
(***************************************************************************)
EXTENDS LogMirror, EvidenceStore, ImageCache, Continuation, Judges, Delegations,
        FiniteSetTheorems, SequenceTheorems, WellFoundedInduction, TLAPS

-----------------------------------------------------------------------------
(* Mirrored logs (LogMirror)                                              *)

(* What a log may hold is a sequence of pieces. *)
LEMMA ContentsAreSequences == Contents \subseteq Seq(Pieces)
BY DEF Contents

(* One more piece of a log that is longer than its copy. *)
LEMMA NextPiece ==
  ASSUME MirrorTypeOK, NEW f \in Logs, Len(copy[f]) < Size(f)
  PROVE  /\ Append(copy[f], guestLog[f][Len(copy[f]) + 1]) \in Seq(Pieces)
         /\ Len(Append(copy[f], guestLog[f][Len(copy[f]) + 1])) = Len(copy[f]) + 1
<1>1. copy[f] \in Seq(Pieces) /\ Len(copy[f]) \in Nat BY DEF MirrorTypeOK
<1>2. guestLog[f] # Absent BY <1>1 DEF Size
<1>3. guestLog[f] \in Seq(Pieces) BY <1>2 DEF MirrorTypeOK
<1>4. Len(copy[f]) + 1 \in 1 .. Len(guestLog[f]) BY <1>1, <1>2, <1>3 DEF Size
<1>5. guestLog[f][Len(copy[f]) + 1] \in Pieces BY <1>3, <1>4, ElementOfSeq
<1>6. QED BY <1>1, <1>5, AppendProperties

(* What a pull does to its file, and to nothing else. *)
LEMMA PullEffect ==
  ASSUME MirrorTypeOK, NEW f \in Logs, f \in pending, Pull(f)
  PROVE  /\ copy' \in [Logs -> Seq(Pieces)] /\ pending' \in SUBSET pending
         /\ missed' \in SUBSET Logs /\ missed \subseteq missed'
         /\ \A g \in Logs \ {f} : copy'[g] = copy[g] /\ (g \in pending' <=> g \in pending)
         /\ f \in missed' \/ /\ Len(copy[f]) <= listed[f] => Len(copy'[f]) <= listed[f]
                             /\ Len(copy[f]) <= listed[f] /\ f \notin pending' => Len(copy'[f]) = listed[f]
<1> DEFINE longer == Append(copy[f], guestLog[f][Len(copy[f]) + 1])
<1>1. CASE Forget(f) /\ UNCHANGED copy BY <1>1 DEF Forget, MirrorTypeOK
<1>2. CASE /\ Len(copy[f]) < listed[f] => Len(copy[f]) < Size(f)
           /\ copy' = IF Len(copy[f]) < listed[f] THEN [copy EXCEPT ![f] = longer] ELSE copy
           /\ pending' = IF Len(copy'[f]) < listed[f] THEN pending ELSE pending \ {f}
           /\ UNCHANGED missed
  <2>0. Len(copy[f]) \in Nat /\ listed[f] \in Nat BY DEF MirrorTypeOK
  <2>1. UNCHANGED missed BY <1>2
  <2>2. CASE Len(copy[f]) < listed[f]
    <3>1. Len(copy[f]) < Size(f) /\ copy' = [copy EXCEPT ![f] = longer] BY <1>2, <2>2
    <3>2. longer \in Seq(Pieces) /\ Len(longer) = Len(copy[f]) + 1 BY <3>1, NextPiece
    <3> HIDE DEF longer
    <3>3. copy'[f] = longer /\ copy' \in [Logs -> Seq(Pieces)]
      BY <3>1, <3>2 DEF MirrorTypeOK
    <3>4. pending' = IF Len(copy'[f]) < listed[f] THEN pending ELSE pending \ {f}
      BY <1>2
    <3>5. \A g \in Logs \ {f} : copy'[g] = copy[g] BY <3>1 DEF MirrorTypeOK
    <3>6. QED BY <2>0, <2>1, <2>2, <3>2, <3>3, <3>4, <3>5 DEF MirrorTypeOK
  <2>3. CASE ~(Len(copy[f]) < listed[f])
    <3>1. copy' = copy /\ pending' = pending \ {f} BY <1>2, <2>3
    <3>2. QED BY <2>0, <2>1, <2>3, <3>1 DEF MirrorTypeOK
  <2>4. QED BY <2>2, <2>3
<1>3. QED BY <1>1, <1>2 DEF Pull

(* What _confirm finds, and does where a digest differs. *)
LEMMA ConfirmTypes ==
  ASSUME MirrorTypeOK, NEW f \in Logs, checks[f] > 0, Confirm(f)
  PROVE  /\ copy' \in [Logs -> Seq(Pieces)] /\ checks' \in [Logs -> 0 .. 2]
         /\ pending' \in SUBSET Logs /\ missed' \in SUBSET Logs
<1>1. <<>> \in Seq(Pieces) BY EmptySeq
<1>2. checks[f] \in 1 .. 2 BY DEF MirrorTypeOK
<1>3. CASE copy[f] = <<>> \/ IsPrefixOfLog(f)
  <2>1. checks' = [checks EXCEPT ![f] = 0] /\ UNCHANGED <<copy, pending, missed>>
    BY <1>3 DEF Confirm
  <2>2. QED BY <2>1 DEF MirrorTypeOK
<1>4. CASE ~(copy[f] = <<>> \/ IsPrefixOfLog(f))
  <2>1. copy' = [copy EXCEPT ![f] = <<>>] /\ checks' = [checks EXCEPT ![f] = @ - 1]
    BY <1>4 DEF Confirm
  <2>2. pending' \in {{f}, {}} /\ missed' \in {missed, missed \cup {f}} BY <1>4 DEF Confirm
  <2>3. copy' \in [Logs -> Seq(Pieces)] BY <1>1, <2>1 DEF MirrorTypeOK
  <2>4. checks' \in [Logs -> 0 .. 2] BY <1>2, <2>1 DEF MirrorTypeOK
  <2>5. QED BY <2>2, <2>3, <2>4 DEF MirrorTypeOK
<1>5. QED BY <1>3, <1>4

(* Every step keeps the types. *)
LEMMA TypeStep ==
  ASSUME MirrorTypeOK, [MirrorNext]_mirrorVars PROVE MirrorTypeOK'
<1>0. CASE UNCHANGED mirrorVars BY <1>0 DEF MirrorTypeOK, mirrorVars
<1>1. CASE AgentWrites BY <1>1, ContentsAreSequences DEF AgentWrites, MirrorTypeOK
<1>2. CASE AgentStops BY <1>2 DEF AgentStops, MirrorTypeOK
<1>3. ASSUME NEW final \in BOOLEAN, ListLogs(final) PROVE MirrorTypeOK'
  <2>1. \A f \in Logs : Size(f) \in Nat BY DEF Size, MirrorTypeOK
  <2>2. copy' \in [Logs -> Seq(Pieces)] BY <1>3, EmptySeq DEF ListLogs, MirrorTypeOK
  <2>3. listed' \in [Logs -> Nat] BY <1>3, <2>1 DEF ListLogs
  <2>4. pending' \in SUBSET Logs /\ missed' = {} /\ checks' \in [Logs -> 0 .. 2]
    BY <1>3 DEF ListLogs
  <2>5. sync' \in {"final", "polling"} /\ UNCHANGED <<guestLog, stopped>> BY <1>3 DEF ListLogs
  <2>6. QED BY <2>2, <2>3, <2>4, <2>5 DEF MirrorTypeOK
<1>4. ASSUME NEW final \in BOOLEAN, ListFails(final) PROVE MirrorTypeOK'
  BY <1>4 DEF ListFails, MirrorTypeOK
<1>5. CASE PullAll BY <1>5, PullEffect DEF PullAll, MirrorTypeOK
<1>6. CASE EndOfPull BY <1>6 DEF EndOfPull, MirrorTypeOK
<1>7. CASE ConfirmNext
  <2>1. ASSUME NEW f \in pending, Pull(f), UNCHANGED checks PROVE MirrorTypeOK'
    BY <1>7, <2>1, PullEffect DEF ConfirmNext, MirrorTypeOK
  <2>2. ASSUME NEW f \in Unchecked, Confirm(f) PROVE MirrorTypeOK'
    BY <1>7, <2>2, ConfirmTypes DEF ConfirmNext, Unchecked, MirrorTypeOK
  <2>3. ASSUME NEW f \in Unchecked, Forget(f), UNCHANGED <<copy, checks>> PROVE MirrorTypeOK'
    BY <1>7, <2>3 DEF ConfirmNext, Unchecked, Forget, MirrorTypeOK
  <2>4. QED BY <1>7, <2>1, <2>2, <2>3 DEF ConfirmNext
<1>8. CASE EndOfSync BY <1>8 DEF EndOfSync, MirrorTypeOK
<1>9. CASE CancelPoll BY <1>9 DEF CancelPoll, MirrorTypeOK
<1>10. QED
  BY <1>0, <1>1, <1>2, <1>3, <1>4, <1>5, <1>6, <1>7, <1>8, <1>9 DEF MirrorNext

(* The final listing: every log that is there is to be copied and checked. *)
LEMMA FinalListing ==
  ASSUME MirrorTypeOK, ListLogs(TRUE), NEW f \in Logs, guestLog[f] # Absent
  PROVE  /\ Len(copy'[f]) <= listed'[f] /\ listed'[f] = Len(guestLog[f])
         /\ f \in pending' /\ checks'[f] = 2
<1>1. copy[f] \in Seq(Pieces) /\ guestLog[f] \in Seq(Pieces) BY DEF MirrorTypeOK
<1>2. Len(copy[f]) \in Nat /\ Len(guestLog[f]) \in Nat BY <1>1
<1>3. Size(f) = Len(guestLog[f]) BY DEF Size
<1>4. copy'[f] = IF Size(f) < Len(copy[f]) THEN <<>> ELSE copy[f] BY DEF ListLogs
<1>5. listed'[f] = Size(f) BY DEF ListLogs
<1>6. f \in pending' BY DEF ListLogs, Wanted
<1>7. checks'[f] = 2 BY <1>6 DEF ListLogs
<1>8. Len(<<>>) = 0 OBVIOUS
<1>9. QED BY <1>2, <1>3, <1>4, <1>5, <1>6, <1>7, <1>8

(* A copy as long as its log and a prefix of it is the log. *)
LEMMA PrefixIsLog ==
  ASSUME MirrorTypeOK, NEW f \in Logs, guestLog[f] # Absent,
         Len(copy[f]) = Len(guestLog[f]), copy[f] = <<>> \/ IsPrefixOfLog(f)
  PROVE  copy[f] = guestLog[f]
<1>1. copy[f] \in Seq(Pieces) /\ guestLog[f] \in Seq(Pieces) BY DEF MirrorTypeOK
<1>2. CASE copy[f] = <<>> BY <1>1, <1>2, EmptySeq
<1>3. CASE IsPrefixOfLog(f) BY <1>1, <1>3, SeqEqual DEF IsPrefixOfLog
<1>4. QED BY <1>2, <1>3

(* What is found to be its log is; what is not is copied again, or missed.   *)
LEMMA ConfirmEffect ==
  ASSUME MirrorTypeOK, FinalSync, sync = "confirming", pending = {},
         NEW f \in Unchecked, Confirm(f), UNCHANGED <<guestLog, listed, sync>>
  PROVE  \A g \in Logs : guestLog'[g] # Absent /\ g \notin missed' => CopiedFinally(g)'
<1>1. f \in Logs /\ f \notin missed /\ checks[f] \in 1 .. 2 BY DEF Unchecked, MirrorTypeOK
<1>2. CASE copy[f] = <<>> \/ IsPrefixOfLog(f)
  <2>1. checks' = [checks EXCEPT ![f] = 0] /\ UNCHANGED <<copy, pending, missed>>
    BY <1>2 DEF Confirm
  <2>2. checks'[f] = 0 /\ \A g \in Logs \ {f} : checks'[g] = checks[g]
    BY <1>1, <2>1 DEF MirrorTypeOK
  <2>3. ASSUME NEW g \in Logs, guestLog'[g] # Absent, g \notin missed' PROVE CopiedFinally(g)'
    <3>1. CopiedFinally(g) BY <2>1, <2>3 DEF FinalSync
    <3>2. CASE g = f
      <4>1. Len(copy[f]) = Len(guestLog[f]) BY <3>1, <3>2 DEF CopiedFinally
      <4>2. copy[f] = guestLog[f] BY <1>1, <1>2, <2>3, <3>2, <4>1, PrefixIsLog
      <4>3. QED BY <2>1, <3>1, <3>2, <4>2 DEF CopiedFinally
    <3>3. CASE g # f BY <2>1, <2>2, <2>3, <3>1, <3>3 DEF CopiedFinally
    <3>4. QED BY <3>2, <3>3
  <2>4. QED BY <2>3
<1>3. CASE ~(copy[f] = <<>> \/ IsPrefixOfLog(f))
  <2>1. copy' = [copy EXCEPT ![f] = <<>>] /\ checks' = [checks EXCEPT ![f] = @ - 1]
    BY <1>3 DEF Confirm
  <2>2. pending' = IF checks[f] = 2 THEN {f} ELSE {} BY <1>3 DEF Confirm
  <2>3. missed' = IF checks[f] = 2 THEN missed ELSE missed \cup {f} BY <1>3 DEF Confirm
  <2>4. \A g \in Logs \ {f} : copy'[g] = copy[g] /\ checks'[g] = checks[g] /\ g \notin pending'
    BY <2>1, <2>2 DEF MirrorTypeOK
  <2>5. ASSUME NEW g \in Logs, guestLog'[g] # Absent, g \notin missed' PROVE CopiedFinally(g)'
    <3>1. CopiedFinally(g) BY <2>3, <2>5 DEF FinalSync
    <3>2. CASE g = f
      <4>1. checks[f] = 2 BY <2>3, <2>5, <3>2
      <4>2. checks'[f] = 1 /\ copy'[f] = <<>> /\ f \in pending'
        BY <1>1, <2>1, <2>2, <4>1 DEF MirrorTypeOK
      <4>3. Len(copy'[f]) = 0 /\ listed[f] \in Nat BY <1>1, <4>2 DEF MirrorTypeOK
      <4>4. QED BY <3>1, <3>2, <4>2, <4>3 DEF CopiedFinally
    <3>3. CASE g # f BY <2>4, <3>1, <3>3 DEF CopiedFinally
    <3>4. QED BY <3>2, <3>3
  <2>6. QED BY <2>5
<1>4. QED BY <1>2, <1>3

(* A pull keeps what the final sync has established of its file, or gives it *)
(* up.                                                                        *)
LEMMA PullKeeps ==
  ASSUME MirrorTypeOK, FinalSync, sync \in {"final", "confirming"}, NEW f \in pending, Pull(f),
         UNCHANGED <<guestLog, listed, sync, checks>>
  PROVE  \A g \in Logs : guestLog'[g] # Absent /\ g \notin missed' => CopiedFinally(g)'
<1>0. f \in Logs BY DEF MirrorTypeOK
<1>1. ASSUME NEW g \in Logs, guestLog'[g] # Absent, g \notin missed' PROVE CopiedFinally(g)'
  <2>1. CopiedFinally(g) BY <1>0, <1>1, PullEffect DEF FinalSync
  <2>2. CASE g = f
    <3>1. Len(copy[f]) <= listed[f] /\ checks[f] > 0 BY <2>1, <2>2 DEF CopiedFinally
    <3>2. /\ Len(copy'[f]) <= listed[f]
          /\ f \notin pending' => Len(copy'[f]) = listed[f]
      BY <1>0, <1>1, <2>2, <3>1, PullEffect
    <3>3. checks[f] # 0 BY <1>0, <3>1 DEF MirrorTypeOK
    <3>4. QED BY <2>1, <2>2, <3>1, <3>2, <3>3 DEF CopiedFinally
  <2>3. CASE g # f
    <3>1. copy'[g] = copy[g] /\ (g \in pending' <=> g \in pending) BY <1>0, <2>3, PullEffect
    <3>2. QED BY <2>1, <3>1 DEF CopiedFinally
  <2>4. QED BY <2>2, <2>3
<1>2. QED BY <1>1

(* Every step keeps what the final sync has established. *)
LEMMA FinalStep ==
  ASSUME MirrorTypeOK, FinalSync, [MirrorNext]_mirrorVars PROVE FinalSync'
<1>0. CASE UNCHANGED mirrorVars BY <1>0 DEF FinalSync, CopiedFinally, mirrorVars
<1>1. CASE AgentWrites BY <1>1 DEF AgentWrites, FinalSync
<1>2. CASE AgentStops BY <1>2 DEF AgentStops, FinalSync
<1>3. CASE ListLogs(TRUE)
  <2>1. sync' = "final" /\ stopped /\ UNCHANGED <<guestLog, stopped>> BY <1>3 DEF ListLogs
  <2>2. QED BY <1>3, <2>1, FinalListing DEF FinalSync, CopiedFinally
<1>4. CASE ListLogs(FALSE) BY <1>4 DEF ListLogs, FinalSync
<1>5. ASSUME NEW final \in BOOLEAN, ListFails(final) PROVE FinalSync'
  <2>1. missed' = Logs /\ sync' \in {"done", "idle"} /\ (sync' = "done" => stopped')
    BY <1>5 DEF ListFails
  <2>2. QED BY <2>1 DEF FinalSync
<1>6. CASE PullAll
  <2>1. PICK f \in pending : Pull(f) BY <1>6 DEF PullAll
  <2>2. UNCHANGED <<guestLog, stopped, sync, listed, checks>> BY <1>6 DEF PullAll
  <2>3. CASE sync = "final" BY <2>1, <2>2, <2>3, PullKeeps DEF FinalSync
  <2>4. CASE sync # "final" BY <1>6, <2>2, <2>4 DEF PullAll, FinalSync
  <2>5. QED BY <2>3, <2>4
<1>7. CASE EndOfPull
  <2>1. UNCHANGED <<guestLog, stopped, copy, listed, pending, checks, missed>>
    BY <1>7 DEF EndOfPull
  <2>2. (sync = "final" /\ sync' = "confirming") \/ sync' = "idle" BY <1>7 DEF EndOfPull
  <2>3. QED BY <2>1, <2>2 DEF FinalSync, CopiedFinally
<1>8. CASE ConfirmNext
  <2>1. sync = "confirming" /\ UNCHANGED <<guestLog, stopped, sync, listed>>
    BY <1>8 DEF ConfirmNext
  <2>2. ASSUME NEW f \in pending, Pull(f), UNCHANGED checks PROVE FinalSync'
    BY <2>1, <2>2, PullKeeps DEF FinalSync
  <2>3. ASSUME NEW f \in Unchecked, pending = {}, Confirm(f) PROVE FinalSync'
    BY <2>1, <2>3, ConfirmEffect DEF FinalSync
  <2>4. ASSUME NEW f \in Unchecked, pending = {}, Forget(f), UNCHANGED <<copy, checks>>
        PROVE  FinalSync'
    <3>1. missed' = missed \cup {f} /\ pending' = {} BY <2>4 DEF Forget
    <3>2. QED BY <2>1, <2>4, <3>1 DEF FinalSync, CopiedFinally
  <2>5. QED BY <1>8, <2>2, <2>3, <2>4 DEF ConfirmNext
<1>9. CASE EndOfSync
  <2>1. UNCHANGED <<guestLog, stopped, copy, listed, pending, checks, missed>>
    BY <1>9 DEF EndOfSync
  <2>2. sync = "confirming" /\ sync' = "done" /\ Unchecked = {} BY <1>9 DEF EndOfSync
  <2>3. ASSUME NEW f \in Logs, f \notin missed PROVE checks[f] = 0
    <3>1. checks[f] \in 0 .. 2 BY DEF MirrorTypeOK
    <3>2. ~(checks[f] > 0) BY <2>2, <2>3 DEF Unchecked
    <3>3. QED BY <3>1, <3>2
  <2>4. QED BY <2>1, <2>2, <2>3 DEF FinalSync, CopiedFinally
<1>10. CASE CancelPoll BY <1>10 DEF CancelPoll, FinalSync
<1>11. QED
  BY <1>0, <1>1, <1>2, <1>3, <1>4, <1>5, <1>6, <1>7, <1>8, <1>9, <1>10 DEF MirrorNext

(* The invariant holds of every behaviour of the agent and the mirror. *)
THEOREM MirrorInvariantHolds == MirrorSpec => []MirrorInvariant
<1>1. MirrorInit => MirrorInvariant
  <2>1. ASSUME MirrorInit PROVE copy \in [Logs -> Seq(Pieces)]
    <3>1. \A p \in Pieces : <<p>> \in Seq(Pieces) OBVIOUS
    <3>2. \A c \in {<<>>} \cup {<<p>> : p \in Pieces} : c \in Seq(Pieces) BY <3>1, EmptySeq
    <3>3. QED BY <2>1, <3>2 DEF MirrorInit
  <2>2. ASSUME MirrorInit PROVE MirrorTypeOK
    <3>1. guestLog \in [Logs -> Seq(Pieces) \cup {Absent}] BY <2>2 DEF MirrorInit
    <3>2. listed \in [Logs -> Nat] /\ checks \in [Logs -> 0 .. 2] BY <2>2 DEF MirrorInit
    <3>3. sync = "idle" /\ pending = {} /\ missed = {} /\ stopped = FALSE BY <2>2 DEF MirrorInit
    <3>4. QED BY <2>1, <2>2, <3>1, <3>2, <3>3 DEF MirrorTypeOK
  <2>3. MirrorInit => FinalSync BY DEF MirrorInit, FinalSync
  <2>4. QED BY <2>2, <2>3 DEF MirrorInvariant
<1>2. MirrorInvariant /\ [MirrorNext]_mirrorVars => MirrorInvariant'
  BY TypeStep, FinalStep DEF MirrorInvariant
<1>3. QED BY <1>1, <1>2, PTL DEF MirrorSpec

(* When the mirror reports nothing incomplete, every log the agent left is on *)
(* the Host exactly as it was left (log_mirror.py).                           *)
THEOREM UnreportedCopiesAreExactHolds == MirrorSpec => []UnreportedCopiesAreExact
<1>1. MirrorInvariant => UnreportedCopiesAreExact
  BY DEF MirrorInvariant, FinalSync, CopiedFinally, UnreportedCopiesAreExact
<1>2. QED BY <1>1, MirrorInvariantHolds, PTL

-----------------------------------------------------------------------------
(* Prepared images (ImageCache)                                           *)

(* The marks of an entry that is not there, or damaged, are no versions. *)
LEMMA VersionsAre ==
  /\ Versions \subseteq Int /\ None \notin Versions /\ Damaged \notin Versions /\ None # Damaged
  /\ 0 \in Versions
BY CacheAssumption DEF Versions, None, Damaged

(* A preparer puts in place what it made, or finds what another did. *)
LEMMA CacheTypeStep ==
  ASSUME CacheTypeOK, Asked, [CacheNext]_cacheVars PROVE CacheTypeOK'
<1> USE DEF CacheTypeOK, EntryContents
<1>0. CASE UNCHANGED cacheVars BY <1>0 DEF cacheVars
<1>a. ASSUME NEW p \in Preparers, step[p] # "hash" PROVE Key(p) \in Versions
  BY <1>a DEF Asked, Key
<1>u. ASSUME NEW p \in Preparers, Unlocks(p) PROVE holder' \in [Versions -> Preparers \cup {Unlocked}]
  BY <1>u DEF Unlocks
<1>1. ASSUME NEW p \in Preparers, Hash(p) PROVE CacheTypeOK' BY <1>1 DEF Hash, PrepareAt
<1>2. ASSUME NEW p \in Preparers, Acquire(p) PROVE CacheTypeOK' BY <1>2 DEF Acquire, PrepareAt
<1>3. ASSUME NEW p \in Preparers, Reuse(p) PROVE CacheTypeOK'
  <2>1. holder' \in [Versions -> Preparers \cup {Unlocked}] BY <1>3, <1>u DEF Reuse
  <2>2. entry[Key(p)] \in EntryContents BY <1>3, <1>a DEF Reuse
  <2>3. given' \in [Preparers -> EntryContents] BY <1>3, <2>2 DEF Reuse, Give
  <2>4. QED BY <1>3, <2>1, <2>3 DEF Reuse, PrepareAt
<1>4. ASSUME NEW p \in Preparers, Miss(p) PROVE CacheTypeOK'
  <2>1. entry' \in [Versions -> EntryContents] BY <1>4 DEF Miss, Place
  <2>2. QED BY <1>4, <2>1 DEF Miss, PrepareAt
<1>5. ASSUME NEW p \in Preparers, StageVmContext(p) \/ BuildOci(p) PROVE CacheTypeOK'
  BY <1>5 DEF StageVmContext, BuildOci, Works, PrepareAt
<1>6. ASSUME NEW p \in Preparers, Layer(p) \/ Fetch(p) PROVE CacheTypeOK'
  <2>1. Key(p) \in Versions BY <1>6, <1>a DEF Layer, Fetch
  <2>2. QED BY <1>6, <2>1 DEF Layer, Fetch, Works, PrepareAt
<1>7. ASSUME NEW p \in Preparers, BuildVm(p) PROVE CacheTypeOK'
  BY <1>7 DEF BuildVm, Works, PrepareAt
<1>8. ASSUME NEW p \in Preparers, MakeDisk(p) PROVE CacheTypeOK'
  <2>1. Key(p) \in Versions BY <1>8, <1>a DEF MakeDisk
  <2>2. QED BY <1>8, <2>1 DEF MakeDisk, Works, PrepareAt
<1>9. ASSUME NEW p \in Preparers, CompareInputs(p) \/ Validate(p) \/ Stop(p) PROVE CacheTypeOK'
  BY <1>9, <1>u DEF CompareInputs, Validate, Stop, Fails, Works, PrepareAt
<1>10. ASSUME NEW p \in Preparers, Carried(p) PROVE CacheTypeOK'
  <2>1. Key(p) \in Versions BY <1>10, <1>a DEF Carried
  <2>2. QED BY <1>10, <1>u, <2>1 DEF Carried, Give, PrepareAt
<1>11. ASSUME NEW p \in Preparers, Publish(p) PROVE CacheTypeOK'
  <2>1. entry' \in [Versions -> EntryContents] BY <1>11 DEF Publish, Place
  <2>2. QED BY <1>11, <1>u, <2>1 DEF Publish, Give, Works, PrepareAt
<1>12. ASSUME NEW p \in Preparers, Again(p) PROVE CacheTypeOK' BY <1>12 DEF Again, PrepareAt
<1>13. CASE Edit BY <1>13, CacheAssumption DEF Edit, Versions
<1>14. CASE Prune BY <1>14 DEF Prune
<1>15. CASE Damage BY <1>15 DEF Damage
<1>16. QED
  BY <1>0, <1>1, <1>2, <1>3, <1>4, <1>5, <1>6, <1>7, <1>8, <1>9, <1>10, <1>11, <1>12, <1>13,
    <1>14, <1>15 DEF CacheNext, Prepare

(* What was hashed stays what it was; the inputs go on. *)
LEMMA AskedStep ==
  ASSUME CacheTypeOK, Asked, [CacheNext]_cacheVars PROVE Asked'
<1> USE DEF Asked
<1>0. CASE UNCHANGED cacheVars BY <1>0 DEF cacheVars
<1>c. Versions \subseteq Int BY VersionsAre
<1>1. ASSUME NEW p \in Preparers, Hash(p) PROVE Asked'
  BY <1>1, <1>c DEF Hash, PrepareAt, CacheTypeOK
<1>2. ASSUME NEW p \in Preparers, Acquire(p) \/ Reuse(p) \/ Miss(p) \/ StageVmContext(p) \/ BuildOci(p)
      PROVE  Asked'
  BY <1>2 DEF Acquire, Reuse, Miss, StageVmContext, BuildOci, PrepareAt, CacheTypeOK
<1>3. ASSUME NEW p \in Preparers, Layer(p) \/ BuildVm(p) \/ MakeDisk(p) \/ Fetch(p) \/ Carried(p)
      PROVE  Asked'
  BY <1>3 DEF Layer, BuildVm, MakeDisk, Fetch, Carried, PrepareAt, CacheTypeOK
<1>4. ASSUME NEW p \in Preparers, CompareInputs(p) \/ Validate(p) \/ Publish(p) \/ Stop(p) \/ Again(p)
      PROVE  Asked'
  BY <1>4 DEF CompareInputs, Validate, Publish, Stop, Again, Fails, PrepareAt, CacheTypeOK
<1>5. CASE Edit
  <2>1. UNCHANGED <<step, asked>> /\ context' = context + 1 /\ context \in Int
    BY <1>5, <1>c DEF Edit, CacheTypeOK
  <2>2. ASSUME NEW p \in Preparers, step[p] # "hash" PROVE asked[p] <= context + 1
    <3>1. asked[p] \in Int /\ asked[p] <= context BY <1>c, <2>2
    <3>2. QED BY <2>1, <3>1
  <2>3. QED BY <2>1, <2>2
<1>6. CASE Prune \/ Damage BY <1>6 DEF Prune, Damage
<1>7. QED BY <1>0, <1>1, <1>2, <1>3, <1>4, <1>5, <1>6 DEF CacheNext, Prepare

(* An entry is placed under the name it was made for. *)
LEMMA EntriesStep ==
  ASSUME CacheTypeOK, Asked, EntriesMatch, WorkMatches, [CacheNext]_cacheVars PROVE EntriesMatch'
<1> USE DEF EntriesMatch
<1>0. CASE UNCHANGED <<kind, entry>> BY <1>0
<1>1. ASSUME NEW p \in Preparers, Miss(p) PROVE EntriesMatch'
  <2>1. kind' = kind /\ \A v \in Versions : entry'[v] = entry[v] \/ entry'[v] = None
    BY <1>1 DEF Miss, Place, CacheTypeOK
  <2>2. QED BY <2>1, VersionsAre
<1>2. ASSUME NEW p \in Preparers, Publish(p), kind # "container" PROVE EntriesMatch'
  <2>1. asked[p] \in Versions /\ work[p] = asked[p] BY <1>2 DEF Publish, Asked, WorkMatches
  <2>2. kind' = kind /\ entry' = [entry EXCEPT ![asked[p]] = asked[p]]
    BY <1>2, <2>1 DEF Publish, Place, Key
  <2>3. QED BY <2>1, <2>2, VersionsAre DEF CacheTypeOK
<1>3. CASE Damage BY <1>3 DEF Damage, CacheTypeOK
<1>4. ASSUME NEW p \in Preparers, Prepare(p), ~Miss(p), ~Publish(p) PROVE UNCHANGED <<kind, entry>>
  BY <1>4 DEF Prepare, Hash, Acquire, Reuse, StageVmContext, BuildOci, Layer, BuildVm,
    CompareInputs, MakeDisk, Validate, Fetch, Carried
<1>5. ASSUME NEW p \in Preparers, Stop(p) \/ Again(p) PROVE UNCHANGED <<kind, entry>>
  BY <1>5 DEF Stop, Again
<1>6. CASE Edit \/ Prune BY <1>6 DEF Edit, Prune
<1>7. ASSUME NEW p \in Preparers, Publish(p), kind = "container" PROVE EntriesMatch'
  BY <1>7 DEF Publish
<1>8. QED BY <1>0, <1>1, <1>2, <1>3, <1>4, <1>5, <1>6, <1>7 DEF CacheNext, cacheVars

(* A VM whose inputs changed while it was made is not published. *)
LEMMA CacheWorkStep ==
  ASSUME CacheTypeOK, Asked, EntriesMatch, WorkMatches, [CacheNext]_cacheVars PROVE WorkMatches'
<1> USE DEF WorkMatches, CacheTypeOK
<1>0. CASE UNCHANGED cacheVars BY <1>0 DEF cacheVars
<1>c. Versions \subseteq Int BY VersionsAre
<1>1. ASSUME NEW p \in Preparers, Hash(p) \/ Acquire(p) \/ Again(p) PROVE WorkMatches'
  BY <1>1 DEF Hash, Acquire, Again, PrepareAt
<1>2. ASSUME NEW p \in Preparers, Reuse(p), kind # "container" PROVE WorkMatches'
  <2>1. asked[p] \in Versions BY <1>2 DEF Reuse, Asked
  <2>2. entry[asked[p]] = asked[p]
    <3>1. entry[asked[p]] \in {None, Damaged, asked[p]} /\ (kind = "fetched" => entry[asked[p]] # Damaged)
      BY <1>2, <2>1 DEF EntriesMatch
    <3>2. entry[asked[p]] # None /\ (kind # "fetched" => entry[asked[p]] # Damaged)
      BY <1>2, VersionsAre DEF Reuse, Found, Key
    <3>3. QED BY <3>1, <3>2
  <2>3. /\ given' = [given EXCEPT ![p] = asked[p]] /\ step' = [step EXCEPT ![p] = "done"]
        /\ UNCHANGED <<kind, context, asked, work>>
    BY <1>2, <2>2 DEF Reuse, Give, Key, PrepareAt
  <2>4. QED BY <2>3
<1>3. ASSUME NEW p \in Preparers, Miss(p) PROVE WorkMatches' BY <1>3 DEF Miss, PrepareAt
<1>4. ASSUME NEW p \in Preparers, StageVmContext(p) PROVE WorkMatches'
  BY <1>4, <1>c DEF StageVmContext, Works, PrepareAt, Asked
<1>5. ASSUME NEW p \in Preparers, Layer(p) \/ Fetch(p) PROVE WorkMatches'
  BY <1>5 DEF Layer, Fetch, Works, PrepareAt, Key
<1>6. ASSUME NEW p \in Preparers, BuildVm(p) PROVE WorkMatches'
  BY <1>6, <1>c DEF BuildVm, Works, PrepareAt, Asked
<1>7. ASSUME NEW p \in Preparers, CompareInputs(p), kind # "container" PROVE WorkMatches'
  <2>1. kind = "vm_build" /\ work[p] \in Int /\ asked[p] <= work[p] /\ work[p] <= context
    BY <1>7, <1>c DEF CompareInputs
  <2>2. CASE SameInputs(p)
    <3>1. work[p] = asked[p] BY <1>c, <2>1, <2>2 DEF SameInputs, Key
    <3>2. /\ UNCHANGED <<kind, context, work, asked, given>>
          /\ step' = [step EXCEPT ![p] = "validate"]
      BY <1>7, <2>2 DEF CompareInputs, PrepareAt
    <3>3. QED BY <3>1, <3>2
  <2>3. CASE ~SameInputs(p)
    BY <1>7, <2>3 DEF CompareInputs, Fails, Works, PrepareAt
  <2>4. QED BY <2>2, <2>3
<1>8. ASSUME NEW p \in Preparers, MakeDisk(p) PROVE WorkMatches'
  BY <1>8 DEF MakeDisk, Works, PrepareAt, Key
<1>9. ASSUME NEW p \in Preparers, Validate(p) \/ Stop(p) PROVE WorkMatches'
  BY <1>9 DEF Validate, Stop, Fails, Works, PrepareAt
<1>10. ASSUME NEW p \in Preparers, Carried(p) PROVE WorkMatches'
  BY <1>10 DEF Carried, Give, Key, PrepareAt
<1>11. ASSUME NEW p \in Preparers, Publish(p) PROVE WorkMatches'
  BY <1>11 DEF Publish, Give, Works, PrepareAt
<1>12. CASE Edit
  <2>1. /\ UNCHANGED <<kind, step, asked, work, given>>
        /\ context' = context + 1 /\ context \in Int
    BY <1>12, <1>c DEF Edit
  <2>2. ASSUME NEW p \in Preparers, step[p] \in {"make", "compare"}, kind = "vm_build"
        PROVE  work[p] <= context + 1
    <3>1. work[p] \in Int /\ work[p] <= context BY <1>c, <2>2
    <3>2. QED BY <2>1, <3>1
  <2>3. QED BY <2>1, <2>2
<1>13. CASE Prune \/ Damage BY <1>13 DEF Prune, Damage
<1>14. CASE kind = "container" /\ CacheNext
  BY <1>14 DEF CacheNext, Prepare, Hash, Acquire, Reuse, Miss, StageVmContext, BuildOci, Layer,
    BuildVm, CompareInputs, MakeDisk, Validate, Fetch, Carried, Publish, Stop, Again, Edit, Prune,
    Damage
<1>15. ASSUME NEW p \in Preparers, BuildOci(p) PROVE kind = "container" BY <1>15 DEF BuildOci
<1>16. QED
  BY <1>0, <1>1, <1>2, <1>3, <1>4, <1>5, <1>6, <1>7, <1>8, <1>9, <1>10, <1>11, <1>12, <1>13,
    <1>14, <1>15 DEF CacheNext, Prepare

(* What is inductive of the image cache: what is under a name was made
   for it, and what is published was made from the inputs that were
   hashed. *)
THEOREM CacheInvariantHolds == CacheSpec => []CacheInvariant
<1>1. ASSUME CacheInit PROVE CacheInvariant
  <2>1. CacheTypeOK
    BY <1>1, CacheAssumption, VersionsAre DEF CacheInit, CacheTypeOK, EntryContents
  <2>2. Asked /\ EntriesMatch /\ WorkMatches
    BY <1>1, VersionsAre DEF CacheInit, Asked, EntriesMatch, WorkMatches
  <2>3. QED BY <2>1, <2>2 DEF CacheInvariant
<1>2. CacheInvariant /\ [CacheNext]_cacheVars => CacheInvariant'
  BY CacheTypeStep, AskedStep, EntriesStep, CacheWorkStep DEF CacheInvariant
<1>3. QED BY <1>1, <1>2, PTL DEF CacheSpec

(* A preparer is given an image made whole from the inputs it identified,
   whoever made it and whatever changed meanwhile (_prepare_vm, the fetch
   and the framed disks). *)
THEOREM ImagesMatchTheirInputsHolds == CacheSpec => []ImagesMatchTheirInputs
<1>1. CacheInvariant => ImagesMatchTheirInputs
  BY DEF CacheInvariant, WorkMatches, ImagesMatchTheirInputs
<1>2. QED BY <1>1, CacheInvariantHolds, PTL

-----------------------------------------------------------------------------
(* Solvers that outlive their episode (Continuation)                       *)

ContinuationSpec == ContinuationInit /\ [][ContinuationNext]_continuationVars

(* What an action does to its command when only the stage changes. *)
LEMMA StageEffect ==
  ASSUME ContinuationTypeOK, NEW e \in Episodes,
         NEW to \in Stages,
         run' = [run EXCEPT ![e].at = to]
  PROVE  /\ run' \in [Episodes -> Runs]
         /\ run'[e].at = to /\ run'[e].kind = run[e].kind /\ run'[e].from = run[e].from
         /\ run'[e].box = run[e].box
         /\ \A d \in Episodes \ {e} : run'[d] = run[d]
BY DEF ContinuationTypeOK, Runs

(* ... and when it enters. *)
LEMMA EnterEffect ==
  ASSUME ContinuationTypeOK, NEW e \in Episodes, NEW way \in {"run", "reverify"},
         NEW s \in Episodes \cup {Nobody}, NEW b \in Episodes \cup {Nobody},
         NEW at \in {"claim", "verify", "agent", "over"}, Enter(e, way, s, b, at)
  PROVE  /\ run' \in [Episodes -> Runs]
         /\ run'[e].at = at /\ run'[e].kind = way /\ run'[e].from = s /\ run'[e].box = b
         /\ \A d \in Episodes \ {e} : run'[d] = run[d]
BY DEF ContinuationTypeOK, Enter, Runs, Stages

(* The parts of a solver. *)
LEMMA SolverParts ==
  /\ NoSolver \in Solvers /\ [NoSolver EXCEPT !.there = TRUE] \in Solvers
  /\ \A v \in Solvers, e \in Episodes : [v EXCEPT !.marker = e] \in Solvers
  /\ \A v \in Solvers, q \in Seq(SessionSteps) : [v EXCEPT !.session = q] \in Solvers
<1>1. <<>> \in Seq(SessionSteps) OBVIOUS
<1>2. NoSolver \in Solvers BY <1>1 DEF Solvers, NoSolver
<1>3. [NoSolver EXCEPT !.there = TRUE] \in Solvers BY <1>2 DEF Solvers
<1>4. \A v \in Solvers, e \in Episodes : [v EXCEPT !.marker = e] \in Solvers BY DEF Solvers
<1>5. \A v \in Solvers, q \in Seq(SessionSteps) : [v EXCEPT !.session = q] \in Solvers
  BY DEF Solvers
<1>6. QED BY <1>2, <1>3, <1>4, <1>5

(* A part of what the parser read of a session. *)
LEMMA Parts ==
  ASSUME NEW q \in Seq(SessionSteps), NEW n \in 0 .. Len(q)
  PROVE  /\ SubSeq(q, 1, n) \in Seq(SessionSteps) /\ Len(SubSeq(q, 1, n)) = n
         /\ \A i \in 1 .. n : SubSeq(q, 1, n)[i] = q[i]
         /\ SubSeq(q, n + 1, Len(q)) \in Seq(SessionSteps) /\ Len(SubSeq(q, n + 1, Len(q))) = Len(q) - n
         /\ \A i \in 1 .. Len(q) - n : SubSeq(q, n + 1, Len(q))[i] = q[n + i]
<1>1. Len(q) \in Nat OBVIOUS
<1>2. \A i \in 1 .. Len(q) : q[i] \in SessionSteps OBVIOUS
<1>3. SubSeq(q, 1, n) \in Seq(SessionSteps) BY <1>1, <1>2, SubSeqProperties
<1>4. SubSeq(q, n + 1, Len(q)) \in Seq(SessionSteps) BY <1>1, <1>2, SubSeqProperties
<1>5. QED BY <1>1, <1>3, <1>4, SubSeqProperties

(* _continued_segment makes a segment, and where it links the two ... *)
LEMMA SegmentsAreCut ==
  ASSUME ContinuationTypeOK, NEW s \in Episodes, NEW parsed \in Seq(SessionSteps)
  PROVE  LET c == ContinuedSegment(parsed, s)
             end == NativeStart(s) + Len(segment[s].steps)
         IN /\ c \in Segments
            /\ c.resumed
            /\ c.start = Unknown \/ /\ NativeStart(s) # Unknown /\ c.start = end /\ end \in 0 .. Len(parsed)
                                    /\ Len(c.steps) = Len(parsed) - end
                                    /\ \A i \in 1 .. Len(c.steps) : c.steps[i] = parsed[end + i]
<1> DEFINE own == segment[s].steps
           end == NativeStart(s) + Len(own)
           c == ContinuedSegment(parsed, s)
<1>1. NativeStart(s) \in Nat \cup {Unknown} /\ own \in Seq(SessionSteps) /\ Len(own) \in Nat
  BY DEF ContinuationTypeOK, Segments, NativeStart, Unknown
<1>2. CASE /\ NativeStart(s) # Unknown /\ own # <<>> /\ Len(parsed) > end
           /\ parsed[end].look = own[Len(own)].look
  <2>1. c = [steps |-> SubSeq(parsed, end + 1, Len(parsed)), resumed |-> TRUE, start |-> end]
    BY <1>2 DEF ContinuedSegment
  <2>2. end \in 0 .. Len(parsed) BY <1>1, <1>2 DEF Unknown
  <2> HIDE DEF end
  <2>3. /\ SubSeq(parsed, end + 1, Len(parsed)) \in Seq(SessionSteps)
        /\ Len(SubSeq(parsed, end + 1, Len(parsed))) = Len(parsed) - end
        /\ \A i \in 1 .. Len(parsed) - end : SubSeq(parsed, end + 1, Len(parsed))[i] = parsed[end + i]
    BY <2>2, Parts
  <2>5. end \in Nat BY <2>2
  <2> HIDE DEF c
  <2>4. c.steps = SubSeq(parsed, end + 1, Len(parsed)) /\ c.resumed /\ c.start = end
    BY <2>1
  <2>6. c \in Segments BY <2>1, <2>3, <2>5 DEF Segments
  <2>7. /\ Len(c.steps) = Len(parsed) - end
        /\ \A i \in 1 .. Len(c.steps) : c.steps[i] = parsed[end + i] BY <2>3, <2>4
  <2>8. QED BY <1>2, <2>2, <2>4, <2>6, <2>7 DEF c, end
<1>3. CASE ~(/\ NativeStart(s) # Unknown /\ own # <<>> /\ Len(parsed) > end
             /\ parsed[end].look = own[Len(own)].look)
  <2>1. c = [steps |-> parsed, resumed |-> TRUE, start |-> Unknown] BY <1>3 DEF ContinuedSegment
  <2>2. QED BY <2>1 DEF Segments
<1>4. QED BY <1>2, <1>3

(* A live command, or a source, has a sandbox. *)
LEMMA BoxesAreSandboxes ==
  ASSUME ContinuationTypeOK, RunsAreInOrder, NEW e \in Episodes
  PROVE  /\ Live(e) => Box(e) \in Episodes
         /\ kept[e] # "none" => Box(e) \in Episodes
BY DEF ContinuationTypeOK, RunsAreInOrder, RunInOrder, Box, Runs

(* Every step keeps the types. *)
LEMMA ContinuationTypes ==
  ASSUME ContinuationTypeOK, RunsAreInOrder, ContinuationNext
  PROVE  ContinuationTypeOK'
<1> USE SolverParts
<1>1. ASSUME NEW e \in Episodes, FreshEpisode(e) PROVE ContinuationTypeOK'
  <2>1. run' \in [Episodes -> Runs] BY <1>1, EnterEffect DEF FreshEpisode
  <2>2. solver' \in [Episodes -> Solvers] BY <1>1 DEF FreshEpisode, ContinuationTypeOK
  <2>3. QED BY <1>1, <2>1, <2>2 DEF FreshEpisode, ContinuationTypeOK
<1>2. ASSUME NEW e \in Episodes, NEW s \in Episodes, NEW way \in {"run", "reverify"},
             Attach(e, s, way)
      PROVE  ContinuationTypeOK'
  <2>1. Box(s) \in Episodes BY <1>2, BoxesAreSandboxes DEF Attach
  <2>2. CASE Holds(Box(s), s)
    <3>1. PICK at \in {"claim", "verify", "agent", "over"} : Enter(e, way, s, Box(s), at)
      BY <1>2, <2>2 DEF Attach
    <3>2. run' \in [Episodes -> Runs] BY <2>1, <3>1, EnterEffect
    <3>3. QED BY <1>2, <2>1, <2>2, <3>2 DEF Attach, ContinuationTypeOK
  <2>3. CASE ~Holds(Box(s), s)
    <3>1. run' \in [Episodes -> Runs] BY <1>2, <2>3, EnterEffect DEF Attach
    <3>2. QED BY <1>2, <2>3, <3>1 DEF Attach, ContinuationTypeOK
  <2>4. QED BY <2>2, <2>3
<1>3. ASSUME NEW e \in Episodes, NEW s \in Episodes, BootSnapshot(e, s) PROVE ContinuationTypeOK'
  <2>1. run' \in [Episodes -> Runs] BY <1>3, EnterEffect DEF BootSnapshot
  <2>2. solver' \in [Episodes -> Solvers] BY <1>3 DEF BootSnapshot, ContinuationTypeOK
  <2>3. QED BY <1>3, <2>1, <2>2 DEF BootSnapshot, ContinuationTypeOK
<1>4. ASSUME NEW e \in Episodes, Claim(e) PROVE ContinuationTypeOK'
  <2>1. run' \in [Episodes -> Runs] BY <1>4, StageEffect DEF Claim, At, Stages
  <2>2. Box(e) \in Episodes BY <1>4, BoxesAreSandboxes DEF Claim, At, Live
  <2>3. solver' = [solver EXCEPT ![Box(e)] = [@ EXCEPT !.marker = e]]
    BY <1>4 DEF Claim, Claimed
  <2>4. solver' \in [Episodes -> Solvers] BY <2>2, <2>3 DEF ContinuationTypeOK
  <2>5. QED BY <1>4, <2>1, <2>4 DEF Claim, ContinuationTypeOK
<1>5. ASSUME NEW e \in Episodes, NEW look \in Looks, Act(e, look) PROVE ContinuationTypeOK'
  <2>1. Box(e) \in Episodes BY <1>5, BoxesAreSandboxes DEF Act, Live
  <2> DEFINE q == Append(solver[Box(e)].session, [by |-> e, look |-> look])
  <2>2. q \in Seq(SessionSteps)
    <3>1. solver[Box(e)].session \in Seq(SessionSteps) BY <2>1 DEF ContinuationTypeOK, Solvers
    <3>2. [by |-> e, look |-> look] \in SessionSteps BY DEF SessionSteps
    <3>3. QED BY <3>1, <3>2, AppendProperties
  <2>3. solver' = [solver EXCEPT ![Box(e)] = [@ EXCEPT !.session = q]]
    BY <1>5, <2>1 DEF Act, ContinuationTypeOK, Solvers
  <2> HIDE DEF q
  <2>4. solver' \in [Episodes -> Solvers] BY <2>1, <2>2, <2>3 DEF ContinuationTypeOK
  <2>5. QED BY <1>5, <2>4 DEF Act, ContinuationTypeOK
<1>6. ASSUME NEW e \in Episodes, Parse(e) PROVE ContinuationTypeOK'
  <2>1. run' \in [Episodes -> Runs] BY <1>6, StageEffect DEF Parse, At, Stages
  <2>2. Box(e) \in Episodes BY <1>6, BoxesAreSandboxes DEF Parse, At, Live
  <2> DEFINE session == solver[Box(e)].session
  <2>3. session \in Seq(SessionSteps) BY <2>2 DEF ContinuationTypeOK, Solvers
  <2>4. PICK n \in 0 .. Len(session) :
          /\ segment' = [segment EXCEPT ![e] =
               IF run[e].from = Nobody
               THEN [steps |-> SubSeq(session, 1, n), resumed |-> FALSE, start |-> 0]
               ELSE ContinuedSegment(SubSeq(session, 1, n), run[e].from)]
          /\ whole' = [whole EXCEPT ![e] = n = Len(session)]
    BY <1>6 DEF Parse
  <2> HIDE DEF session
  <2>5. SubSeq(session, 1, n) \in Seq(SessionSteps) BY <2>3, Parts
  <2>6. run[e].from = Nobody \/ run[e].from \in Episodes BY DEF ContinuationTypeOK, Runs
  <2>7. run[e].from # Nobody => ContinuedSegment(SubSeq(session, 1, n), run[e].from) \in Segments
    BY <2>5, <2>6, SegmentsAreCut
  <2>8. [steps |-> SubSeq(session, 1, n), resumed |-> FALSE, start |-> 0] \in Segments
    BY <2>5 DEF Segments
  <2>9. segment' \in [Episodes -> Segments] BY <2>4, <2>7, <2>8 DEF ContinuationTypeOK
  <2>10. whole' \in [Episodes -> BOOLEAN] BY <2>4 DEF ContinuationTypeOK
  <2>11. QED BY <1>6, <2>1, <2>9, <2>10 DEF Parse, ContinuationTypeOK
<1>7. ASSUME NEW e \in Episodes, ConversionFails(e) PROVE ContinuationTypeOK'
  <2>1. run' \in [Episodes -> Runs] BY <1>7, StageEffect DEF ConversionFails, At, Stages
  <2>2. PICK look \in Looks : segment' = [segment EXCEPT ![e] =
         [steps |-> <<[by |-> e, look |-> look]>>, resumed |-> FALSE, start |-> 0]]
    BY <1>7 DEF ConversionFails
  <2>3. [steps |-> <<[by |-> e, look |-> look]>>, resumed |-> FALSE, start |-> 0] \in Segments
    BY DEF Segments, SessionSteps
  <2>4. segment' \in [Episodes -> Segments] BY <2>2, <2>3 DEF ContinuationTypeOK
  <2>5. QED BY <1>7, <2>1, <2>4 DEF ConversionFails, ContinuationTypeOK
<1>8. ASSUME NEW e \in Episodes, Sanitize(e) PROVE ContinuationTypeOK'
  <2>1. run' \in [Episodes -> Runs] BY <1>8, StageEffect DEF Sanitize, At, Stages
  <2>2. Box(e) \in Episodes BY <1>8, BoxesAreSandboxes DEF Sanitize, At, Live
  <2>3. solver' = [solver EXCEPT ![Box(e)] = [@ EXCEPT !.marker = e]]
    BY <1>8 DEF Sanitize
  <2>4. solver' \in [Episodes -> Solvers] BY <2>2, <2>3 DEF ContinuationTypeOK
  <2>5. QED BY <1>8, <2>1, <2>4 DEF Sanitize, ContinuationTypeOK
<1>9. ASSUME NEW e \in Episodes, Retain(e) PROVE ContinuationTypeOK'
  <2>1. run' \in [Episodes -> Runs] BY <1>9, StageEffect DEF Retain, At, Stages
  <2>2. Box(e) \in Episodes BY <1>9, BoxesAreSandboxes DEF Retain, At, Live
  <2>3. left' \in [Episodes -> Seq(SessionSteps)]
    BY <1>9, <2>2 DEF Retain, ContinuationTypeOK, Solvers
  <2>4. QED BY <1>9, <2>1, <2>3 DEF Retain, ContinuationTypeOK
<1>10. ASSUME NEW e \in Episodes, TakeSnapshot(e) PROVE ContinuationTypeOK'
  <2>1. run' \in [Episodes -> Runs] BY <1>10, StageEffect DEF TakeSnapshot, At, Stages
  <2>2. Box(e) \in Episodes BY <1>10, BoxesAreSandboxes DEF TakeSnapshot, At, Live
  <2>3. left' \in [Episodes -> Seq(SessionSteps)]
    BY <1>10, <2>2 DEF TakeSnapshot, ContinuationTypeOK, Solvers
  <2>4. solver' \in [Episodes -> Solvers] /\ image' \in [Episodes -> Solvers]
    BY <1>10, <2>2 DEF TakeSnapshot, ContinuationTypeOK
  <2>5. QED BY <1>10, <2>1, <2>3, <2>4 DEF TakeSnapshot, ContinuationTypeOK
<1>11. ASSUME NEW e \in Episodes, NoRecords(e)
       PROVE  /\ run' \in [Episodes -> Runs] /\ segment' \in [Episodes -> Segments]
              /\ whole' \in [Episodes -> BOOLEAN]
  <2>1. run' \in [Episodes -> Runs] BY <1>11, StageEffect DEF NoRecords, Stages
  <2>2. NoSegment \in Segments BY DEF NoSegment, Segments, Unknown
  <2>3. QED BY <1>11, <2>1, <2>2 DEF NoRecords, ContinuationTypeOK
<1>12. ASSUME NEW e \in Episodes, DestroySolver(e) PROVE ContinuationTypeOK'
  <2>1. solver' \in [Episodes -> Solvers] BY <1>12 DEF DestroySolver, ContinuationTypeOK
  <2>2. QED BY <1>11, <1>12, <2>1 DEF DestroySolver, ContinuationTypeOK
<1>13. ASSUME NEW e \in Episodes, Reverify(e) PROVE ContinuationTypeOK'
  <2>1. run' \in [Episodes -> Runs] BY <1>13, StageEffect DEF Reverify, At, Stages
  <2>2. solver' \in [Episodes -> Solvers] BY <1>13 DEF Reverify, ContinuationTypeOK
  <2>3. QED BY <1>13, <2>1, <2>2 DEF Reverify, ContinuationTypeOK
<1>14. ASSUME NEW e \in Episodes, KillCommand(e) PROVE ContinuationTypeOK'
  BY <1>11, <1>14 DEF KillCommand, ContinuationTypeOK
<1>15. QED
  BY <1>1, <1>2, <1>3, <1>4, <1>5, <1>6, <1>7, <1>8, <1>9, <1>10, <1>12, <1>13, <1>14
     DEF ContinuationNext

(* Leaving no records. *)
LEMMA NoRecordsEffect ==
  ASSUME ContinuationTypeOK, NEW e \in Episodes, NoRecords(e)
  PROVE  /\ run'[e].at = "over" /\ run'[e].kind = run[e].kind /\ run'[e].from = run[e].from
         /\ run'[e].box = run[e].box
         /\ \A d \in Episodes \ {e} : run'[d] = run[d]
         /\ segment'[e] = NoSegment /\ ~whole'[e]
         /\ \A d \in Episodes \ {e} : segment'[d] = segment[d] /\ whole'[d] = whole[d]
<1>1. run' = [run EXCEPT ![e].at = "over"] /\ "over" \in Stages BY DEF NoRecords, Stages
<1>2. /\ run'[e].at = "over" /\ run'[e].kind = run[e].kind /\ run'[e].from = run[e].from
      /\ run'[e].box = run[e].box
      /\ \A d \in Episodes \ {e} : run'[d] = run[d]
  BY <1>1, StageEffect
<1>3. QED BY <1>2 DEF NoRecords, ContinuationTypeOK

(* Nobody is not a command. *)
LEMMA NobodyIsNoEpisode == Nobody \notin Episodes
BY ContinuationAssumption DEF Nobody

(* Commands stay in order. *)
LEMMA RunsStayInOrder ==
  ASSUME ContinuationTypeOK, RunsAreInOrder, ContinuationNext
  PROVE  RunsAreInOrder'
<1>0. \A d \in Episodes : run[d].from \in Episodes \cup {Nobody} /\ run[d].box \in Episodes \cup {Nobody}
                         /\ run[d].at \in Stages
  BY DEF ContinuationTypeOK, Runs
<1>1. ASSUME NEW e \in Episodes, FreshEpisode(e) PROVE RunsAreInOrder'
  <2>1. Enter(e, "run", Nobody, e, "agent") /\ run[e].at = "idle" /\ UNCHANGED <<kept, segment, whole>>
    BY <1>1 DEF FreshEpisode
  <2>2. /\ run'[e].at = "agent" /\ run'[e].kind = "run" /\ run'[e].from = Nobody /\ run'[e].box = e
        /\ \A d \in Episodes \ {e} : run'[d] = run[d]
    BY <2>1, EnterEffect
  <2>3. Nobody \notin Episodes BY NobodyIsNoEpisode
  <2>4. \A d \in Episodes \ {e} : RunInOrder(d)'
    BY <1>0, <2>1, <2>2 DEF RunsAreInOrder, RunInOrder, Live, Box
  <2>5. RunInOrder(e)' BY <1>0, <2>1, <2>2, <2>3 DEF RunsAreInOrder, RunInOrder, Live, Box
  <2>6. QED BY <2>4, <2>5 DEF RunsAreInOrder
<1>2. ASSUME NEW e \in Episodes, NEW s \in Episodes, NEW way \in {"run", "reverify"},
             Attach(e, s, way)
      PROVE  RunsAreInOrder'
  <2>1. /\ kept[s] # "none" /\ run[e].at = "idle" /\ UNCHANGED <<kept, segment, whole>>
        /\ Box(s) \in Episodes /\ run[Box(s)].at # "idle"
    BY <1>2, <1>0 DEF Attach, RunsAreInOrder, RunInOrder, Box
  <2>2. PICK b \in {Box(s), Nobody}, at \in {"claim", "verify", "over"} :
           /\ Enter(e, way, s, b, at)
           /\ at # "over" => b = Box(s)
           /\ at = "claim" => way = "run"
    BY <1>2 DEF Attach
  <2>3. /\ run'[e].at = at /\ run'[e].kind = way /\ run'[e].from = s /\ run'[e].box = b
        /\ \A d \in Episodes \ {e} : run'[d] = run[d]
    BY <2>1, <2>2, EnterEffect
  <2>4. Nobody \notin Episodes BY NobodyIsNoEpisode
  <2>5. \A d \in Episodes \ {e} : RunInOrder(d)'
    BY <1>0, <2>1, <2>2, <2>3, <2>4 DEF RunsAreInOrder, RunInOrder, Live, Box
  <2>6. RunInOrder(e)'
    <3>1. RunInOrder(e) BY DEF RunsAreInOrder
    <3>2. kept'[e] = "none" /\ ~whole'[e] /\ segment'[e] = NoSegment
      BY <2>1, <3>1 DEF RunInOrder, Box
    <3>3. run'[e].at # "over" => run'[e].box = Box(s) BY <2>2, <2>3
    <3>4. run'[Box(s)].at # "idle" BY <2>1, <2>2, <2>3
    <3>5. QED BY <2>1, <2>2, <2>3, <2>4, <3>2, <3>3, <3>4 DEF RunInOrder, Live, Box
  <2>7. QED BY <2>5, <2>6 DEF RunsAreInOrder
<1>3. ASSUME NEW e \in Episodes, NEW s \in Episodes, BootSnapshot(e, s) PROVE RunsAreInOrder'
  <2>1. /\ Enter(e, "run", s, e, "claim") /\ run[e].at = "idle" /\ UNCHANGED <<kept, segment, whole>>
        /\ kept[s] # "none"
    BY <1>3 DEF BootSnapshot
  <2>2. /\ run'[e].at = "claim" /\ run'[e].kind = "run" /\ run'[e].from = s /\ run'[e].box = e
        /\ \A d \in Episodes \ {e} : run'[d] = run[d]
    BY <2>1, EnterEffect
  <2>3. Nobody \notin Episodes BY NobodyIsNoEpisode
  <2>4. \A d \in Episodes \ {e} : RunInOrder(d)'
    BY <1>0, <2>1, <2>2, <2>3 DEF RunsAreInOrder, RunInOrder, Live, Box
  <2>5. RunInOrder(e)' BY <1>0, <2>1, <2>2, <2>3 DEF RunsAreInOrder, RunInOrder, Live, Box
  <2>6. QED BY <2>4, <2>5 DEF RunsAreInOrder
<1>4. ASSUME NEW e \in Episodes, NEW from \in Stages, NEW to \in Stages, At(e, from, to),
             from \notin {"idle", "over"}, to \in {"agent", "sanitize", "leave", "over"},
             from = "claim" <=> to = "agent",
             \A d \in Episodes \ {e} : kept'[d] = kept[d] /\ segment'[d] = segment[d] /\ whole'[d] = whole[d],
             to # "over" => kept'[e] = kept[e],
             from = "claim" => UNCHANGED <<segment, whole>>,
             from = "verify" => to = "over"
      PROVE  RunsAreInOrder'
  <2>1. /\ run'[e].at = to /\ run'[e].kind = run[e].kind /\ run'[e].from = run[e].from
        /\ run'[e].box = run[e].box
        /\ \A d \in Episodes \ {e} : run'[d] = run[d]
        /\ run[e].at = from
    BY <1>4, StageEffect DEF At
  <2>2. \A d \in Episodes \ {e} : RunInOrder(d)'
    BY <1>0, <1>4, <2>1 DEF RunsAreInOrder, RunInOrder, Live, Box
  <2>3. RunInOrder(e)'
    <3>0. Nobody \notin Episodes BY NobodyIsNoEpisode
    <3>1. run[e].from # e BY <1>4, <2>1, <3>0 DEF RunsAreInOrder, RunInOrder
    <3>2. RunInOrder(e) BY DEF RunsAreInOrder
    <3>3. run'[e].from # Nobody => kept'[run'[e].from] # "none"
      BY <1>0, <1>4, <2>1, <3>1, <3>2 DEF RunInOrder
    <3>4. run'[e].box # Nobody /\ run'[run'[e].box].at # "idle"
      BY <1>0, <1>4, <2>1, <3>2 DEF RunInOrder, Live, Box
    <3>5. run'[e].at \notin {"idle", "claim", "verify"} /\ run'[e].kind = run[e].kind
      BY <1>4, <2>1
    <3>6. run'[e].at = "agent" => ~whole'[e] /\ segment'[e] = NoSegment
      BY <1>4, <2>1, <3>2 DEF RunInOrder
    <3>7. kept'[e] # "none" => run'[e].at = "over" BY <1>4, <2>1, <3>2 DEF RunInOrder
    <3>8. run'[e].at # "over" => run'[e].kind = "run" BY <1>4, <2>1, <3>2 DEF RunInOrder, Stages
    <3>9. QED BY <3>3, <3>4, <3>5, <3>6, <3>7, <3>8 DEF RunInOrder, Live, Box
  <2>4. QED BY <2>2, <2>3 DEF RunsAreInOrder
<1>5. ASSUME NEW e \in Episodes, NoRecords(e), Live(e), UNCHANGED kept PROVE RunsAreInOrder'
  <2>1. \A d \in Episodes \ {e} : RunInOrder(d)'
    BY <1>0, <1>5, NoRecordsEffect DEF RunsAreInOrder, RunInOrder, Live, Box
  <2>2. RunInOrder(e)' BY <1>0, <1>5, NoRecordsEffect DEF RunsAreInOrder, RunInOrder, Live, Box
  <2>3. QED BY <2>1, <2>2 DEF RunsAreInOrder
<1>6. ASSUME NEW e \in Episodes, NEW look \in Looks, Act(e, look) PROVE RunsAreInOrder'
  BY <1>6 DEF Act, RunsAreInOrder, RunInOrder, Live, Box
<1>7. ASSUME NEW e \in Episodes, Claim(e) PROVE RunsAreInOrder'
  BY <1>4, <1>7 DEF Claim, Stages
<1>8. ASSUME NEW e \in Episodes, Parse(e) PROVE RunsAreInOrder'
  <2>1. \A d \in Episodes \ {e} : segment'[d] = segment[d] /\ whole'[d] = whole[d]
    BY <1>8 DEF Parse, ContinuationTypeOK
  <2>2. QED BY <1>4, <1>8, <2>1 DEF Parse, Stages
<1>9. ASSUME NEW e \in Episodes, ConversionFails(e) PROVE RunsAreInOrder'
  <2>1. \A d \in Episodes \ {e} : segment'[d] = segment[d] /\ whole'[d] = whole[d]
    BY <1>9 DEF ConversionFails, ContinuationTypeOK
  <2>2. QED BY <1>4, <1>9, <2>1 DEF ConversionFails, Stages
<1>10. ASSUME NEW e \in Episodes, Sanitize(e) PROVE RunsAreInOrder'
  BY <1>4, <1>10 DEF Sanitize, Stages
<1>11. ASSUME NEW e \in Episodes, Retain(e) PROVE RunsAreInOrder'
  <2>1. \A d \in Episodes \ {e} : kept'[d] = kept[d] BY <1>11 DEF Retain, ContinuationTypeOK
  <2>2. QED BY <1>4, <1>11, <2>1 DEF Retain, Stages
<1>12. ASSUME NEW e \in Episodes, TakeSnapshot(e) PROVE RunsAreInOrder'
  <2>1. \A d \in Episodes \ {e} : kept'[d] = kept[d]
    BY <1>12 DEF TakeSnapshot, ContinuationTypeOK
  <2>2. QED BY <1>4, <1>12, <2>1 DEF TakeSnapshot, Stages
<1>13. ASSUME NEW e \in Episodes, DestroySolver(e) PROVE RunsAreInOrder'
  BY <1>5, <1>13 DEF DestroySolver, Live
<1>14. ASSUME NEW e \in Episodes, Reverify(e) PROVE RunsAreInOrder'
  BY <1>4, <1>14 DEF Reverify, Stages
<1>15. ASSUME NEW e \in Episodes, KillCommand(e) PROVE RunsAreInOrder'
  BY <1>5, <1>15 DEF KillCommand, Live
<1>16. QED
  BY <1>1, <1>2, <1>3, <1>6, <1>7, <1>8, <1>9, <1>10, <1>11, <1>12, <1>13, <1>14, <1>15
     DEF ContinuationNext

(* A command that enters touches no sandbox in use, unless it shares it. *)
Entered(e) ==
  /\ run[e].at = "idle" /\ \A d \in Episodes \ {e} : run'[d] = run[d]
  /\ UNCHANGED <<image, kept, left, segment, whole>>
  /\ crossed \subseteq crossed'
  /\ \A b \in Episodes \ {e} : solver'[b] = solver[b]
  /\ run'[e].at = "agent" => run'[e].from = Nobody
  /\ run'[e].at \in {"claim", "verify", "agent", "over"}

(* Each way into an episode - fresh, from a snapshot, on a kept sandbox - is an entry. *)
LEMMA EntriesEnter ==
  ASSUME ContinuationTypeOK, RunsAreInOrder, NEW e \in Episodes
  PROVE  /\ FreshEpisode(e) =>
              /\ Entered(e) /\ run'[e].at = "agent" /\ run'[e].box = e
              /\ solver'[e].marker = Nobody /\ crossed' = crossed
         /\ \A s \in Episodes : BootSnapshot(e, s) =>
              /\ Entered(e) /\ run'[e].at = "claim" /\ run'[e].box = e /\ run'[e].from = s
              /\ kept[s] = "snapshot" /\ solver'[e] = image[s] /\ crossed' = crossed
         /\ \A s \in Episodes, way \in {"run", "reverify"} : Attach(e, s, way) =>
              /\ Entered(e) /\ solver' = solver /\ run'[e].from = s /\ kept[s] = "retained"
              /\ \/ run'[e].at = "over" /\ crossed' = crossed
                 \/ /\ run'[e].at \in {"claim", "verify"} /\ run'[e].box = Box(s) /\ Holds(Box(s), s)
                    /\ \/ Using(Box(s)) = {} /\ crossed' = crossed
                       \/ Box(s) \in crossed'
<1>1. ASSUME FreshEpisode(e)
      PROVE  /\ Entered(e) /\ run'[e].at = "agent" /\ run'[e].box = e
             /\ solver'[e].marker = Nobody /\ crossed' = crossed
  <2>1. Enter(e, "run", Nobody, e, "agent") /\ run[e].at = "idle" BY <1>1 DEF FreshEpisode
  <2>2. /\ run'[e].at = "agent" /\ run'[e].from = Nobody /\ run'[e].box = e
        /\ \A d \in Episodes \ {e} : run'[d] = run[d]
    BY <2>1, EnterEffect
  <2>3. solver' = [solver EXCEPT ![e] = [NoSolver EXCEPT !.there = TRUE]]
    BY <1>1 DEF FreshEpisode
  <2>4. \A b \in Episodes \ {e} : solver'[b] = solver[b] BY <2>3 DEF ContinuationTypeOK
  <2>5. solver'[e].marker = Nobody BY <2>3 DEF ContinuationTypeOK, NoSolver
  <2>6. QED BY <1>1, <2>1, <2>2, <2>4, <2>5 DEF FreshEpisode, Entered
<1>2. ASSUME NEW s \in Episodes, BootSnapshot(e, s)
      PROVE  /\ Entered(e) /\ run'[e].at = "claim" /\ run'[e].box = e /\ run'[e].from = s
             /\ kept[s] = "snapshot" /\ solver'[e] = image[s] /\ crossed' = crossed
  <2>1. Enter(e, "run", s, e, "claim") /\ run[e].at = "idle" BY <1>2 DEF BootSnapshot
  <2>2. /\ run'[e].at = "claim" /\ run'[e].from = s /\ run'[e].box = e
        /\ \A d \in Episodes \ {e} : run'[d] = run[d]
    BY <2>1, EnterEffect
  <2>3. solver'[e] = image[s] /\ \A b \in Episodes \ {e} : solver'[b] = solver[b]
    BY <1>2 DEF BootSnapshot, ContinuationTypeOK
  <2>4. QED BY <1>2, <2>1, <2>2, <2>3 DEF BootSnapshot, Entered
<1>3. ASSUME NEW s \in Episodes, NEW way \in {"run", "reverify"}, Attach(e, s, way)
      PROVE  /\ Entered(e) /\ solver' = solver /\ run'[e].from = s /\ kept[s] = "retained"
             /\ \/ run'[e].at = "over" /\ crossed' = crossed
                \/ /\ run'[e].at \in {"claim", "verify"} /\ run'[e].box = Box(s) /\ Holds(Box(s), s)
                   /\ \/ Using(Box(s)) = {} /\ crossed' = crossed
                      \/ Box(s) \in crossed'
  <2>1. Box(s) \in Episodes BY <1>3, BoxesAreSandboxes DEF Attach
  <2>2. PICK b \in {Box(s), Nobody}, at \in {"claim", "verify", "over"} :
           /\ Enter(e, way, s, b, at)
           /\ at = "over" => crossed' = crossed
           /\ at # "over" => b = Box(s) /\ Holds(Box(s), s)
           /\ at # "over" => crossed' = IF Using(Box(s)) = {} THEN crossed ELSE crossed \cup {Box(s)}
    BY <1>3 DEF Attach
  <2>3. /\ run'[e].at = at /\ run'[e].from = s /\ run'[e].box = b
        /\ \A d \in Episodes \ {e} : run'[d] = run[d]
    BY <2>1, <2>2, EnterEffect
  <2>4. crossed \subseteq crossed' BY <2>2
  <2>5. kept[s] = "retained" /\ run[e].at = "idle" /\ UNCHANGED <<solver, image, kept, left, segment, whole>>
    BY <1>3 DEF Attach
  <2>6. Entered(e) BY <2>2, <2>3, <2>4, <2>5 DEF Entered
  <2>7. QED BY <2>2, <2>3, <2>5, <2>6
<1>4. QED BY <1>1, <1>2, <1>3

(* A command at work changes its own records, and its own solver. *)
Worked(e) ==
  /\ Live(e) /\ crossed' = crossed
  /\ run'[e].box = run[e].box /\ run'[e].from = run[e].from /\ run'[e].kind = run[e].kind
  /\ \A d \in Episodes \ {e} :
       /\ run'[d] = run[d] /\ kept'[d] = kept[d] /\ left'[d] = left[d] /\ image'[d] = image[d]
       /\ segment'[d] = segment[d] /\ whole'[d] = whole[d]
  /\ \A b \in Episodes \ {Box(e)} : solver'[b] = solver[b]
  /\ solver'[Box(e)].there =>
       /\ solver[Box(e)].there
       /\ \/ solver'[Box(e)] = solver[Box(e)]
          \/ solver'[Box(e)].marker = e
          \/ run[e].at = "agent" /\ solver'[Box(e)].marker = solver[Box(e)].marker

AtWork(e) ==
  \/ Claim(e) \/ (\E look \in Looks : Act(e, look)) \/ Parse(e) \/ ConversionFails(e)
  \/ Sanitize(e) \/ Retain(e) \/ TakeSnapshot(e) \/ DestroySolver(e) \/ Reverify(e) \/ KillCommand(e)

(* Each step of an episode at work changes only what that episode may change. *)
LEMMA WorkIsWorked ==
  ASSUME ContinuationTypeOK, RunsAreInOrder, NEW e \in Episodes, AtWork(e)
  PROVE  Worked(e)
<1>0. \A b \in Episodes : solver[b] \in Solvers BY DEF ContinuationTypeOK
<1>1. ASSUME NEW from \in Stages, NEW to \in Stages, At(e, from, to), from \notin {"idle", "over"}
      PROVE  /\ Live(e) /\ Box(e) \in Episodes
             /\ run'[e].box = run[e].box /\ run'[e].from = run[e].from /\ run'[e].kind = run[e].kind
             /\ \A d \in Episodes \ {e} : run'[d] = run[d]
  <2>1. Live(e) BY <1>1 DEF At, Live
  <2>2. Box(e) \in Episodes BY <2>1, BoxesAreSandboxes
  <2>3. QED BY <1>1, <2>1, <2>2, StageEffect DEF At
<1>2. ASSUME Claim(e) PROVE Worked(e)
  <2>1. At(e, "claim", "agent") /\ UNCHANGED <<image, kept, left, segment, whole, crossed>>
        /\ solver[Box(e)].there
    BY <1>2 DEF Claim
  <2>2. /\ Live(e) /\ Box(e) \in Episodes
        /\ run'[e].box = run[e].box /\ run'[e].from = run[e].from /\ run'[e].kind = run[e].kind
        /\ \A d \in Episodes \ {e} : run'[d] = run[d]
    BY <1>1, <2>1 DEF Stages
  <2>3. solver' = [solver EXCEPT ![Box(e)].marker = e] BY <1>2 DEF Claim, Claimed
  <2>4. solver'[Box(e)].marker = e /\ \A b \in Episodes \ {Box(e)} : solver'[b] = solver[b]
    BY <1>0, <2>2, <2>3 DEF ContinuationTypeOK, Solvers
  <2>5. QED BY <2>1, <2>2, <2>4 DEF Worked
<1>3. ASSUME NEW look \in Looks, Act(e, look) PROVE Worked(e)
  <2>1. /\ run[e].at = "agent" /\ UNCHANGED <<image, run, kept, left, segment, whole, crossed>>
        /\ solver[Box(e)].there
    BY <1>3 DEF Act
  <2>2. Live(e) /\ Box(e) \in Episodes BY <2>1, BoxesAreSandboxes DEF Live
  <2>3. solver' = [solver EXCEPT ![Box(e)].session = Append(@, [by |-> e, look |-> look])]
    BY <1>3 DEF Act
  <2>4. /\ solver'[Box(e)].marker = solver[Box(e)].marker
        /\ \A b \in Episodes \ {Box(e)} : solver'[b] = solver[b]
    BY <1>0, <2>2, <2>3 DEF ContinuationTypeOK, Solvers
  <2>5. QED BY <2>1, <2>2, <2>4 DEF Worked
<1>4. ASSUME Parse(e) PROVE Worked(e)
  <2>1. At(e, "agent", "sanitize") /\ UNCHANGED <<solver, image, kept, left, crossed>>
        /\ solver[Box(e)].there
    BY <1>4 DEF Parse
  <2>2. \A d \in Episodes \ {e} : segment'[d] = segment[d] /\ whole'[d] = whole[d]
    BY <1>4 DEF Parse, ContinuationTypeOK
  <2>3. QED BY <1>1, <2>1, <2>2 DEF Worked, Stages
<1>5. ASSUME ConversionFails(e) PROVE Worked(e)
  <2>1. At(e, "agent", "sanitize") /\ UNCHANGED <<solver, image, kept, left, whole, crossed>>
    BY <1>5 DEF ConversionFails
  <2>2. \A d \in Episodes \ {e} : segment'[d] = segment[d]
    BY <1>5 DEF ConversionFails, ContinuationTypeOK
  <2>3. QED BY <1>1, <2>1, <2>2 DEF Worked, Stages
<1>6. ASSUME Sanitize(e) PROVE Worked(e)
  <2>1. At(e, "sanitize", "leave") /\ UNCHANGED <<image, kept, left, segment, whole, crossed>>
        /\ solver[Box(e)].there
    BY <1>6 DEF Sanitize
  <2>2. /\ Live(e) /\ Box(e) \in Episodes
        /\ run'[e].box = run[e].box /\ run'[e].from = run[e].from /\ run'[e].kind = run[e].kind
        /\ \A d \in Episodes \ {e} : run'[d] = run[d]
    BY <1>1, <2>1 DEF Stages
  <2>3. solver' = [solver EXCEPT ![Box(e)].marker = e] BY <1>6 DEF Sanitize
  <2>4. solver'[Box(e)].marker = e /\ \A b \in Episodes \ {Box(e)} : solver'[b] = solver[b]
    BY <1>0, <2>2, <2>3 DEF ContinuationTypeOK, Solvers
  <2>5. QED BY <2>1, <2>2, <2>4 DEF Worked
<1>7. ASSUME Retain(e) PROVE Worked(e)
  <2>1. At(e, "leave", "over") /\ UNCHANGED <<solver, image, segment, whole, crossed>>
    BY <1>7 DEF Retain
  <2>2. \A d \in Episodes \ {e} : kept'[d] = kept[d] /\ left'[d] = left[d]
    BY <1>7 DEF Retain, ContinuationTypeOK
  <2>3. QED BY <1>1, <2>1, <2>2 DEF Worked, Stages
<1>8. ASSUME TakeSnapshot(e) PROVE Worked(e)
  <2>1. At(e, "leave", "over") /\ UNCHANGED <<segment, whole, crossed>>
    BY <1>8 DEF TakeSnapshot
  <2>2. \A d \in Episodes \ {e} : kept'[d] = kept[d] /\ left'[d] = left[d] /\ image'[d] = image[d]
    BY <1>8 DEF TakeSnapshot, ContinuationTypeOK
  <2>3. Box(e) \in Episodes BY <1>1, <2>1 DEF Stages
  <2>4. ~solver'[Box(e)].there /\ \A b \in Episodes \ {Box(e)} : solver'[b] = solver[b]
    BY <1>8, <2>3 DEF TakeSnapshot, ContinuationTypeOK, NoSolver
  <2>5. QED BY <1>1, <2>1, <2>2, <2>4 DEF Worked, Stages
<1>9. ASSUME DestroySolver(e) PROVE Worked(e)
  <2>1. NoRecords(e) /\ Live(e) /\ UNCHANGED <<image, kept, left, crossed>>
    BY <1>9 DEF DestroySolver, Live
  <2>2. Box(e) \in Episodes BY <2>1, BoxesAreSandboxes
  <2>3. ~solver'[Box(e)].there /\ \A b \in Episodes \ {Box(e)} : solver'[b] = solver[b]
    BY <1>9, <2>2 DEF DestroySolver, ContinuationTypeOK, NoSolver
  <2>4. QED BY <2>1, <2>3, NoRecordsEffect DEF Worked
<1>10. ASSUME Reverify(e) PROVE Worked(e)
  <2>1. At(e, "verify", "over") /\ UNCHANGED <<image, kept, left, segment, whole, crossed>>
    BY <1>10 DEF Reverify
  <2>2. Box(e) \in Episodes BY <1>1, <2>1 DEF Stages
  <2>3. solver' = solver \/ /\ ~solver'[Box(e)].there
                            /\ \A b \in Episodes \ {Box(e)} : solver'[b] = solver[b]
    BY <1>10, <2>2 DEF Reverify, ContinuationTypeOK, NoSolver
  <2>4. QED BY <1>1, <2>1, <2>3 DEF Worked, Stages
<1>11. ASSUME KillCommand(e) PROVE Worked(e)
  <2>1. NoRecords(e) /\ Live(e) /\ UNCHANGED <<solver, image, kept, left, crossed>>
    BY <1>11 DEF KillCommand, Live
  <2>2. QED BY <2>1, NoRecordsEffect DEF Worked
<1>12. QED
  BY <1>2, <1>3, <1>4, <1>5, <1>6, <1>7, <1>8, <1>9, <1>10, <1>11 DEF AtWork

(* What the others find after a step of a command: their stages, solvers    *)
(* and segments, as they were.                                              *)
LEMMA WorkKeepsUsersAlone ==
  ASSUME ContinuationTypeOK, UsersAreAlone, NEW e \in Episodes, Worked(e)
  PROVE  UsersAreAlone'
<1>1. \A d \in Episodes : run'[d].box = run[d].box /\ (Live(d)' => Live(d))
  BY DEF Worked, Live
<1>2. crossed' = crossed BY DEF Worked
<1>3. QED BY <1>1, <1>2 DEF UsersAreAlone, Box

(* An episode at work leaves what the others found and hold as it was. *)
LEMMA WorkLeavesTheOthers ==
  ASSUME ContinuationTypeOK, RunsAreInOrder, UsersAreAlone, SolversKeepTheirStage,
         SegmentsMeetSessions, SegmentsAreOwn, NEW e \in Episodes, Worked(e),
         NEW d \in Episodes \ {e}
  PROVE  AtItsStage(d)' /\ StillAsLeft(d)' /\ MeetsSession(d)' /\ SegmentIsOwn(d)'
<1>0. /\ Box(d) \in Episodes \cup {Nobody} /\ Box(e) \in Episodes
      /\ run[d].from \in Episodes \cup {Nobody} /\ Live(e) /\ Nobody \notin Episodes
      /\ kept[d] # "none" => Box(d) \in Episodes
      /\ Live(d) => Box(d) \in Episodes
  BY BoxesAreSandboxes, NobodyIsNoEpisode DEF Worked, ContinuationTypeOK, Runs, Box
<1>1. /\ run'[d] = run[d] /\ kept'[d] = kept[d] /\ left'[d] = left[d] /\ image'[d] = image[d]
      /\ segment'[d] = segment[d] /\ whole'[d] = whole[d] /\ crossed' = crossed
      /\ Box(d)' = Box(d) /\ Live(d)' = Live(d)
  BY DEF Worked, Box, Live
<1>2. kept[e] = "none" /\ run[d].from # e
  BY <1>0 DEF RunsAreInOrder, RunInOrder, Live
<1>3. run[d].from # Nobody =>
        /\ run[d].from \in Episodes /\ left'[run[d].from] = left[run[d].from]
        /\ whole'[run[d].from] = whole[run[d].from] /\ run'[run[d].from].box = run[run[d].from].box
  BY <1>0, <1>2 DEF Worked
<1>4. (Live(d) /\ Box(d) \notin crossed) => solver'[Box(d)] = solver[Box(d)]
  BY <1>0 DEF UsersAreAlone, Worked
<1>5. AtItsStage(d)'
  <2>1. AtItsStage(d) BY DEF SolversKeepTheirStage
  <2>2. run[d].at \in {"claim", "verify"} => run[d].from # Nobody
    BY DEF RunsAreInOrder, RunInOrder
  <2>3. QED BY <1>1, <1>3, <1>4, <2>1, <2>2 DEF AtItsStage
<1>6. StillAsLeft(d)'
  <2>1. StillAsLeft(d) BY DEF SolversKeepTheirStage
  <2>2. kept'[d] = "snapshot" => image'[d].session = left'[d] BY <1>1, <2>1 DEF StillAsLeft
  <2>3. ASSUME kept'[d] = "retained", Box(d)' \notin crossed', Holds(Box(d), d)'
        PROVE  solver'[Box(d)].session = left'[d]
    <3>1. CASE Box(d) # Box(e)
      <4>1. solver'[Box(d)] = solver[Box(d)] BY <1>0, <1>1, <2>3, <3>1 DEF Worked
      <4>2. QED BY <1>1, <2>1, <2>3, <4>1 DEF StillAsLeft, Holds
    <3>2. CASE Box(d) = Box(e)
      <4>1. solver'[Box(e)].there /\ solver'[Box(e)].marker = d BY <1>1, <2>3, <3>2 DEF Holds
      <4>2. solver[Box(e)].there BY <4>1 DEF Worked
      <4>3. AtItsStage(e) BY DEF SolversKeepTheirStage
      <4>4. run[e].at = "agent" => solver[Box(e)].marker # d
        BY <1>0, <1>1, <2>3, <3>2, <4>2, <4>3 DEF AtItsStage
      <4>5. solver'[Box(e)] = solver[Box(e)] BY <4>1, <4>4 DEF Worked
      <4>6. QED BY <1>1, <2>1, <2>3, <3>2, <4>5 DEF StillAsLeft, Holds
    <3>3. QED BY <3>1, <3>2
  <2>4. QED BY <1>1, <2>2, <2>3 DEF StillAsLeft
<1>7. EndsAt(d, left[d])' <=> EndsAt(d, left[d])
  BY <1>1 DEF EndsAt, NativeStart
<1>8. MeetsSession(d)'
  <2>1. MeetsSession(d) BY DEF SegmentsMeetSessions
  <2>2. CASE Live(d) /\ Box(d) \notin crossed
    <3>1. solver'[Box(d)] = solver[Box(d)] BY <1>4, <2>2
    <3>2. EndsAt(d, solver[Box(d)].session)' <=> EndsAt(d, solver[Box(d)].session)
      BY <1>1, <3>1 DEF EndsAt, NativeStart
    <3>3. run[d].from # Nobody =>
            (OwnFrom(d, solver[Box(d)].session, Len(left[run[d].from]))'
              <=> OwnFrom(d, solver[Box(d)].session, Len(left[run[d].from])))
      BY <1>1, <1>3, <3>1 DEF OwnFrom
    <3>4. QED BY <1>1, <1>7, <2>1, <3>1, <3>2, <3>3 DEF MeetsSession
  <2>3. CASE ~Live(d)
    BY <1>1, <1>7, <2>1, <2>3 DEF MeetsSession, Live
  <2>4. CASE Box(d) \in crossed BY <1>1, <2>4 DEF MeetsSession
  <2>5. QED BY <2>2, <2>3, <2>4
<1>9. SegmentIsOwn(d)'
  <2>1. SegmentIsOwn(d) BY DEF SegmentsAreOwn
  <2>2. QED BY <1>1, <1>3, <2>1 DEF SegmentIsOwn, Box
<1>10. QED BY <1>5, <1>6, <1>8, <1>9

(* ... and what it finds itself. *)
LEMMA WorkKeepsItsOwn ==
  ASSUME ContinuationTypeOK, RunsAreInOrder, UsersAreAlone, SolversKeepTheirStage,
         SegmentsMeetSessions, SegmentsAreOwn, NEW e \in Episodes, Worked(e), AtWork(e)
  PROVE  AtItsStage(e)' /\ StillAsLeft(e)' /\ MeetsSession(e)' /\ SegmentIsOwn(e)'
<1>0. /\ Box(e) \in Episodes /\ run[e].from \in Episodes \cup {Nobody} /\ Live(e)
      /\ Nobody \notin Episodes /\ Box(e)' = Box(e) /\ crossed' = crossed
      /\ run'[e].from = run[e].from /\ run'[e].kind = run[e].kind
      /\ solver[Box(e)] \in Solvers /\ segment[e] \in Segments
  BY BoxesAreSandboxes, NobodyIsNoEpisode DEF Worked, ContinuationTypeOK, Runs, Box
<1>1. kept[e] = "none" /\ run[e].from # e
  BY <1>0 DEF RunsAreInOrder, RunInOrder, Live
<1>2. run[e].from # Nobody =>
        /\ run[e].from \in Episodes /\ left'[run[e].from] = left[run[e].from]
        /\ whole'[run[e].from] = whole[run[e].from] /\ run'[run[e].from].box = run[run[e].from].box
  BY <1>0, <1>1 DEF Worked
<1>3. AtItsStage(e) /\ MeetsSession(e) /\ SegmentIsOwn(e)
  BY DEF SolversKeepTheirStage, SegmentsMeetSessions, SegmentsAreOwn
<1>4. segment'[e] = segment[e] => SegmentIsOwn(e)'
  BY <1>0, <1>2, <1>3 DEF SegmentIsOwn, Box
<1>5. kept'[e] = "none" => StillAsLeft(e)' BY DEF StillAsLeft
<1>6. run'[e].at = "over" => AtItsStage(e)' BY DEF AtItsStage, Live
<1>7. run'[e].at = "over" /\ kept'[e] = "none" => MeetsSession(e)' BY DEF MeetsSession
<1>8. ~segment'[e].resumed => SegmentIsOwn(e)' BY DEF SegmentIsOwn
<1>9. CASE Claim(e)
  <2>1. /\ run[e].at = "claim" /\ run'[e].at = "agent" /\ UNCHANGED <<kept, segment, whole, left>>
        /\ solver[Box(e)].there
    BY <1>9, StageEffect DEF Claim, At, Stages
  <2>2. solver' = [solver EXCEPT ![Box(e)].marker = e] BY <1>9 DEF Claim, Claimed
  <2>3. solver'[Box(e)].marker = e /\ solver'[Box(e)].session = solver[Box(e)].session
    BY <1>0, <2>2 DEF ContinuationTypeOK, Solvers
  <2>4. AtItsStage(e)' BY <1>0, <2>1, <2>3 DEF AtItsStage
  <2>5. Box(e) \notin crossed => solver'[Box(e)].session = left'[run[e].from]
    BY <1>0, <1>3, <2>1, <2>3 DEF AtItsStage
  <2>6. (Box(e) \notin crossed /\ run[e].from # Nobody)
          => OwnFrom(e, solver[Box(e)].session, Len(left[run[e].from]))'
    <3>1. solver[Box(e)].session \in Seq(SessionSteps) BY <1>0 DEF Solvers
    <3>2. SUFFICES ASSUME Box(e) \notin crossed
                   PROVE  OwnFrom(e, solver[Box(e)].session, Len(left[run[e].from]))'
      OBVIOUS
    <3>3. solver'[Box(e)].session = left'[run'[e].from] /\ Len(solver'[Box(e)].session) \in Nat
      BY <1>0, <2>3, <2>5, <3>1, <3>2
    <3>4. QED BY <1>0, <3>3 DEF OwnFrom, Box
  <2>7. MeetsSession(e)' BY <1>0, <1>1, <2>1, <2>6 DEF MeetsSession
  <2>8. QED BY <1>1, <1>4, <1>5, <2>1, <2>4, <2>7
<1>10. ASSUME NEW look \in Looks, Act(e, look)
       PROVE  AtItsStage(e)' /\ StillAsLeft(e)' /\ MeetsSession(e)' /\ SegmentIsOwn(e)'
  <2>1. /\ run[e].at = "agent" /\ UNCHANGED <<image, run, kept, left, segment, whole, crossed>>
        /\ solver[Box(e)].there
    BY <1>10 DEF Act
  <2> DEFINE t == [by |-> e, look |-> look]
             q == solver[Box(e)].session
  <2>2. solver' = [solver EXCEPT ![Box(e)].session = Append(@, t)] BY <1>10 DEF Act
  <2>3. solver'[Box(e)].marker = solver[Box(e)].marker /\ solver'[Box(e)].session = Append(q, t)
    BY <1>0, <2>2 DEF ContinuationTypeOK, Solvers
  <2>4. AtItsStage(e)' BY <1>0, <1>3, <2>1, <2>3 DEF AtItsStage
  <2>5. ASSUME Box(e) \notin crossed, run[e].from # Nobody
        PROVE  OwnFrom(e, solver[Box(e)].session, Len(left[run[e].from]))'
    <3>1. OwnFrom(e, q, Len(left[run[e].from])) BY <1>3, <2>1, <2>5 DEF MeetsSession
    <3>2. q \in Seq(SessionSteps) /\ t \in SessionSteps /\ t.by = e
      BY <1>0 DEF Solvers, SessionSteps
    <3>3. Len(left[run[e].from]) \in Nat BY <1>2, <2>5 DEF ContinuationTypeOK
    <3> DEFINE n == Len(left[run[e].from])
    <3> HIDE DEF t, q, n
    <3>4. /\ Len(Append(q, t)) = Len(q) + 1 /\ Len(q) \in Nat
          /\ \A i \in 1 .. Len(q) : Append(q, t)[i] = q[i]
          /\ Append(q, t)[Len(q) + 1] = t
      BY <3>2, AppendProperties
    <3>5. n \in Nat /\ n <= Len(q) /\ \A i \in n + 1 .. Len(q) : q[i].by = e
      BY <3>1, <3>3 DEF OwnFrom, n
    <3>6. \A i \in n + 1 .. Len(q) + 1 : Append(q, t)[i].by = e
      <4>1. TAKE i \in n + 1 .. Len(q) + 1
      <4>2. CASE i = Len(q) + 1 BY <3>2, <3>4, <4>2
      <4>3. CASE i # Len(q) + 1
        <5>1. i \in n + 1 .. Len(q) /\ i \in 1 .. Len(q) BY <3>4, <3>5, <4>3
        <5>2. QED BY <3>4, <3>5, <5>1
      <4>4. QED BY <4>2, <4>3
    <3>7. OwnFrom(e, Append(q, t), n) BY <3>4, <3>5, <3>6 DEF OwnFrom
    <3>8. n = Len(left'[run'[e].from]) BY <2>1 DEF n
    <3>9. solver'[Box(e)'].session = Append(q, t) BY <1>0, <2>3 DEF q, t
    <3>10. QED BY <3>7, <3>8, <3>9 DEF OwnFrom
  <2>6. MeetsSession(e)' BY <1>0, <1>1, <2>1, <2>5 DEF MeetsSession
  <2>7. QED BY <1>1, <1>4, <1>5, <2>1, <2>4, <2>6
<1>11. CASE Parse(e)
  <2> DEFINE q == solver[Box(e)].session
             s == run[e].from
  <2>1. /\ run[e].at = "agent" /\ run'[e].at = "sanitize" /\ UNCHANGED <<solver, kept, left>>
        /\ solver[Box(e)].there
    BY <1>11, StageEffect DEF Parse, At, Stages
  <2>2. q \in Seq(SessionSteps) /\ Len(q) \in Nat BY <1>0 DEF Solvers
  <2>3. PICK n \in 0 .. Len(q) :
          /\ segment' = [segment EXCEPT ![e] =
               IF s = Nobody THEN [steps |-> SubSeq(q, 1, n), resumed |-> FALSE, start |-> 0]
                             ELSE ContinuedSegment(SubSeq(q, 1, n), s)]
          /\ whole' = [whole EXCEPT ![e] = n = Len(q)]
    BY <1>11 DEF Parse
  <2> DEFINE parsed == SubSeq(q, 1, n)
             c == ContinuedSegment(parsed, s)
             end == NativeStart(s) + Len(segment[s].steps)
  <2>4. /\ parsed \in Seq(SessionSteps) /\ Len(parsed) = n /\ \A i \in 1 .. n : parsed[i] = q[i]
    BY <2>2, Parts
  <2>5. s # Nobody => segment'[e] = c BY <2>3 DEF ContinuationTypeOK
  <2>6. s = Nobody => segment'[e] = [steps |-> parsed, resumed |-> FALSE, start |-> 0]
    BY <2>3 DEF ContinuationTypeOK
  <2>7. whole'[e] <=> n = Len(q) BY <2>3 DEF ContinuationTypeOK
  <2> HIDE DEF parsed
  <2>8. s # Nobody =>
          /\ c.resumed
          /\ c.start = Unknown \/ /\ NativeStart(s) # Unknown /\ c.start = end /\ end \in 0 .. Len(parsed)
                                  /\ Len(c.steps) = Len(parsed) - end
                                  /\ \A i \in 1 .. Len(c.steps) : c.steps[i] = parsed[end + i]
    BY <1>2, <2>4, SegmentsAreCut
  <2> HIDE DEF c, end, q
  <2>9. AtItsStage(e)'
    <3>1. Box(e) \notin crossed => solver[Box(e)].marker \in {Nobody, e}
      BY <1>0, <1>3, <2>1 DEF AtItsStage
    <3>2. QED BY <1>0, <2>1, <3>1 DEF AtItsStage
  <2>10. EndsAt(e, q)'
    <3>1. SUFFICES ASSUME n = Len(q), NativeStart(e)' # Unknown
                   PROVE  NativeStart(e)' + Len(segment'[e].steps) = Len(q)
      BY <2>1, <2>7 DEF EndsAt, q, Box, Worked
    <3>2. CASE s = Nobody
      <4>1. segment'[e].steps = parsed /\ NativeStart(e)' = 0 BY <2>6, <3>2 DEF NativeStart
      <4>2. QED BY <2>2, <2>4, <3>1, <4>1
    <3>3. CASE s # Nobody
      <4>1. NativeStart(e)' = c.start BY <2>5, <2>8, <3>3 DEF NativeStart
      <4>2. c.start = end /\ end \in 0 .. Len(parsed) /\ Len(c.steps) = Len(parsed) - end
        BY <2>8, <3>1, <3>3, <4>1
      <4>3. QED BY <2>2, <2>4, <2>5, <3>1, <3>3, <4>1, <4>2
    <3>4. QED BY <3>2, <3>3
  <2>11. MeetsSession(e)'
    <3>1. solver'[Box(e)'].session = q BY <1>0, <2>1 DEF q
    <3>2. EndsAt(e, solver[Box(e)].session)' BY <2>10, <3>1 DEF EndsAt, q
    <3>3. QED BY <1>1, <2>1, <3>2 DEF MeetsSession
  <2>12. SegmentIsOwn(e)'
    <3>1. SUFFICES ASSUME s # Nobody, segment'[e].start # Unknown, whole[s],
                          Box(e) \notin crossed, Box(s) \notin crossed
                   PROVE  \A i \in 1 .. Len(segment'[e].steps) : segment'[e].steps[i].by = e
      BY <1>0, <1>2 DEF SegmentIsOwn, Box
    <3>2. segment'[e] = c BY <2>5, <3>1
    <3>3. /\ NativeStart(s) # Unknown /\ end \in 0 .. Len(parsed)
          /\ Len(c.steps) = Len(parsed) - end
          /\ \A i \in 1 .. Len(c.steps) : c.steps[i] = parsed[end + i]
      BY <2>8, <3>1, <3>2
    <3>4. MeetsSession(s) /\ kept[s] # "none"
      BY <1>2, <3>1 DEF SegmentsMeetSessions, RunsAreInOrder, RunInOrder
    <3>5. end = Len(left[s]) BY <3>1, <3>3, <3>4 DEF MeetsSession, EndsAt, end
    <3>6. OwnFrom(e, q, Len(left[s])) BY <1>3, <2>1, <3>1 DEF MeetsSession, q
    <3>7. \A i \in 1 .. Len(c.steps) : end + i \in end + 1 .. Len(q) /\ end + i \in 1 .. n
      BY <2>2, <2>4, <3>3
    <3>8. \A i \in 1 .. Len(c.steps) : c.steps[i] = q[end + i] /\ q[end + i].by = e
      BY <2>4, <3>3, <3>5, <3>6, <3>7 DEF OwnFrom
    <3>9. QED BY <3>2, <3>8
  <2>13. QED BY <1>1, <1>5, <2>1, <2>9, <2>11, <2>12
<1>12. CASE ConversionFails(e)
  <2>1. /\ run[e].at = "agent" /\ run'[e].at = "sanitize" /\ UNCHANGED <<solver, kept, left, whole>>
    BY <1>12, StageEffect DEF ConversionFails, At, Stages
  <2>2. PICK look \in Looks :
          segment' = [segment EXCEPT ![e] =
            [steps |-> <<[by |-> e, look |-> look]>>, resumed |-> FALSE, start |-> 0]]
    BY <1>12 DEF ConversionFails
  <2>3. ~segment'[e].resumed BY <2>2 DEF ContinuationTypeOK
  <2>4. ~whole'[e] BY <2>1 DEF RunsAreInOrder, RunInOrder
  <2>5. AtItsStage(e)' BY <1>0, <1>3, <2>1 DEF AtItsStage, Live
  <2>6. MeetsSession(e)' BY <1>1, <2>1, <2>4 DEF MeetsSession, EndsAt
  <2>7. QED BY <1>1, <1>5, <1>8, <2>1, <2>3, <2>5, <2>6
<1>13. CASE Sanitize(e)
  <2>1. /\ run[e].at = "sanitize" /\ run'[e].at = "leave" /\ UNCHANGED <<kept, left, whole, segment>>
        /\ solver[Box(e)].there
    BY <1>13, StageEffect DEF Sanitize, At, Stages
  <2>2. solver' = [solver EXCEPT ![Box(e)].marker = e] BY <1>13 DEF Sanitize
  <2>3. solver'[Box(e)].session = solver[Box(e)].session
    BY <1>0, <2>2 DEF ContinuationTypeOK, Solvers
  <2>4. AtItsStage(e)' BY <2>1 DEF AtItsStage
  <2>5. Box(e) \notin crossed => EndsAt(e, solver[Box(e)].session)
    BY <1>3, <2>1 DEF MeetsSession
  <2>6. EndsAt(e, solver[Box(e)].session)' <=> EndsAt(e, solver[Box(e)].session)
    BY <1>0, <2>1, <2>3 DEF EndsAt, NativeStart
  <2>7. MeetsSession(e)' BY <1>0, <1>1, <2>1, <2>5, <2>6 DEF MeetsSession
  <2>8. QED BY <1>1, <1>4, <1>5, <2>1, <2>4, <2>7
<1>14. ASSUME run[e].at = "leave", run'[e].at = "over", solver[Box(e)].there, UNCHANGED <<segment, whole>>,
              left'[e] = solver[Box(e)].session
       PROVE  MeetsSession(e)'
  <2>1. Box(e) \notin crossed => EndsAt(e, solver[Box(e)].session)
    BY <1>3, <1>14 DEF MeetsSession
  <2>2. EndsAt(e, left[e])' <=> EndsAt(e, solver[Box(e)].session)
    BY <1>14 DEF EndsAt, NativeStart
  <2>3. QED BY <1>0, <1>14, <2>1, <2>2 DEF MeetsSession
<1>15. CASE Retain(e)
  <2>1. /\ run[e].at = "leave" /\ run'[e].at = "over" /\ UNCHANGED <<solver, segment, whole>>
        /\ solver[Box(e)].there
    BY <1>15, StageEffect DEF Retain, At, Stages
  <2>2. kept'[e] = "retained" /\ left'[e] = solver[Box(e)].session
    BY <1>15 DEF Retain, ContinuationTypeOK
  <2>3. StillAsLeft(e)' BY <1>0, <2>1, <2>2 DEF StillAsLeft
  <2>4. QED BY <1>4, <1>6, <1>14, <2>1, <2>2, <2>3
<1>16. CASE TakeSnapshot(e)
  <2>1. /\ run[e].at = "leave" /\ run'[e].at = "over" /\ UNCHANGED <<segment, whole>>
        /\ solver[Box(e)].there
    BY <1>16, StageEffect DEF TakeSnapshot, At, Stages
  <2>2. kept'[e] = "snapshot" /\ left'[e] = solver[Box(e)].session /\ image'[e] = solver[Box(e)]
    BY <1>16 DEF TakeSnapshot, ContinuationTypeOK
  <2>3. StillAsLeft(e)' BY <2>2 DEF StillAsLeft
  <2>4. QED BY <1>4, <1>6, <1>14, <2>1, <2>2, <2>3
<1>17. ASSUME NoRecords(e), UNCHANGED kept
       PROVE  AtItsStage(e)' /\ StillAsLeft(e)' /\ MeetsSession(e)' /\ SegmentIsOwn(e)'
  <2>1. run'[e].at = "over" /\ segment'[e] = NoSegment BY <1>17, NoRecordsEffect
  <2>2. ~segment'[e].resumed BY <2>1 DEF NoSegment
  <2>3. QED BY <1>1, <1>5, <1>6, <1>7, <1>8, <1>17, <2>1, <2>2
<1>18. CASE Reverify(e)
  <2>1. run'[e].at = "over" /\ UNCHANGED <<kept, segment>>
    BY <1>18, StageEffect DEF Reverify, At, Stages
  <2>2. QED BY <1>1, <1>4, <1>5, <1>6, <1>7, <2>1
<1>19. DestroySolver(e) \/ KillCommand(e) => NoRecords(e) /\ UNCHANGED kept
  BY DEF DestroySolver, KillCommand
<1>20. QED
  BY <1>9, <1>10, <1>11, <1>12, <1>13, <1>15, <1>16, <1>17, <1>18, <1>19 DEF AtWork

(* A new command finds what it was let in for, and leaves the others be.    *)
LEMMA EntriesKeepTheInvariant ==
  ASSUME ContinuationInvariant, NEW e \in Episodes,
         \/ FreshEpisode(e)
         \/ \E s \in Episodes : BootSnapshot(e, s) \/ \E way \in {"run", "reverify"} : Attach(e, s, way)
  PROVE  UsersAreAlone' /\ SolversKeepTheirStage' /\ SegmentsMeetSessions' /\ SegmentsAreOwn'
<1>0. ContinuationTypeOK /\ RunsAreInOrder /\ UsersAreAlone /\ SolversKeepTheirStage
      /\ SegmentsMeetSessions /\ SegmentsAreOwn /\ Nobody \notin Episodes
  BY NobodyIsNoEpisode DEF ContinuationInvariant
<1>1. /\ Entered(e)
      /\ \/ run'[e].at = "agent" /\ run'[e].box = e /\ solver'[e].marker = Nobody /\ crossed' = crossed
         \/ \E s \in Episodes : /\ run'[e].at = "claim" /\ run'[e].box = e /\ run'[e].from = s
                                /\ kept[s] = "snapshot" /\ solver'[e] = image[s] /\ crossed' = crossed
         \/ run'[e].at = "over" /\ crossed' = crossed
         \/ \E s \in Episodes :
              /\ solver' = solver /\ run'[e].from = s /\ kept[s] = "retained"
              /\ run'[e].at \in {"claim", "verify"} /\ run'[e].box = Box(s) /\ Holds(Box(s), s)
              /\ \/ Using(Box(s)) = {} /\ crossed' = crossed
                 \/ Box(s) \in crossed'
  BY <1>0, EntriesEnter
<1>2. /\ run[e].at = "idle" /\ UNCHANGED <<image, kept, left, segment, whole>> /\ crossed \subseteq crossed'
      /\ \A b \in Episodes \ {e} : solver'[b] = solver[b]
      /\ \A d \in Episodes \ {e} : run'[d] = run[d]
  BY <1>1 DEF Entered
<1>3. kept[e] = "none" /\ segment[e] = NoSegment /\ Box(e) = Nobody
  BY <1>0, <1>2 DEF RunsAreInOrder, RunInOrder, Box, NoRun
<1>4. \A d \in Episodes \ {e} :
        /\ Box(d) # e /\ run[d].from # e /\ Box(d)' = Box(d) /\ Live(d)' = Live(d)
        /\ Box(d) \in Episodes \cup {Nobody} /\ run[d].from \in Episodes \cup {Nobody}
        /\ Live(d) => Box(d) \in Episodes
        /\ kept[d] # "none" => Box(d) \in Episodes
  BY <1>0, <1>2, <1>3, BoxesAreSandboxes DEF RunsAreInOrder, RunInOrder, Box, Live,
     ContinuationTypeOK, Runs
<1>5. UsersAreAlone'
  <2>1. ASSUME NEW d \in Episodes \ {e}, Live(d), Live(e)', Box(d) = run'[e].box, Box(d) \notin crossed'
        PROVE  FALSE
    <3>1. PICK s \in Episodes : Box(d) = Box(s) /\ (Using(Box(s)) = {} \/ Box(s) \in crossed')
      BY <1>1, <1>4, <2>1 DEF Live
    <3>2. d \in Using(Box(s)) BY <2>1, <3>1 DEF Using, Live
    <3>3. QED BY <2>1, <3>1, <3>2
  <2>2. \A d, c \in Episodes \ {e} :
          (Live(d)' /\ Live(c)' /\ Box(d)' = Box(c)' /\ Box(c)' \notin crossed') => d = c
    BY <1>0, <1>2, <1>4 DEF UsersAreAlone
  <2>3. \A d \in Episodes \ {e} : ~(Live(d)' /\ Live(e)' /\ Box(d)' = Box(e)' /\ Box(e)' \notin crossed')
    BY <1>4, <2>1 DEF Box
  <2>4. QED BY <2>2, <2>3 DEF UsersAreAlone
<1>6. ASSUME NEW d \in Episodes \ {e}
      PROVE  AtItsStage(d)' /\ StillAsLeft(d)' /\ MeetsSession(d)' /\ SegmentIsOwn(d)'
  <2>1. AtItsStage(d) /\ StillAsLeft(d) /\ MeetsSession(d) /\ SegmentIsOwn(d)
    BY <1>0 DEF SolversKeepTheirStage, SegmentsMeetSessions, SegmentsAreOwn
  <2>2. /\ run'[d] = run[d] /\ kept'[d] = kept[d] /\ Box(d)' = Box(d) /\ Live(d)' = Live(d)
        /\ Box(d) \notin crossed' => Box(d) \notin crossed
        /\ Box(d) \in Episodes => solver'[Box(d)] = solver[Box(d)]
    BY <1>2, <1>4
  <2>3. AtItsStage(d)' BY <1>2, <1>4, <2>1, <2>2 DEF AtItsStage
  <2>4. StillAsLeft(d)' BY <1>2, <1>4, <2>1, <2>2 DEF StillAsLeft, Holds
  <2>5. /\ EndsAt(d, left[d])' <=> EndsAt(d, left[d])
        /\ Live(d) => (EndsAt(d, solver[Box(d)].session)' <=> EndsAt(d, solver[Box(d)].session))
        /\ Live(d) => (OwnFrom(d, solver[Box(d)].session, Len(left[run[d].from]))'
                        <=> OwnFrom(d, solver[Box(d)].session, Len(left[run[d].from])))
    BY <1>2, <1>4, <2>2 DEF EndsAt, NativeStart, OwnFrom
  <2>6. MeetsSession(d)'
    <3>1. CASE Live(d) BY <1>4, <2>1, <2>2, <2>5, <3>1 DEF MeetsSession
    <3>2. CASE ~Live(d) BY <2>1, <2>2, <2>5, <3>2 DEF MeetsSession, Live
    <3>3. QED BY <3>1, <3>2
  <2>7. SegmentIsOwn(d)'
    <3>1. run[d].from # Nobody => run[d].from \in Episodes \ {e} BY <1>4
    <3>2. run[d].from # Nobody => run'[run[d].from].box = run[run[d].from].box BY <1>2, <3>1
    <3>3. /\ segment' = segment /\ whole' = whole /\ run'[d] = run[d]
          /\ crossed \subseteq crossed'
      BY <1>2
    <3>4. QED BY <2>1, <3>2, <3>3 DEF SegmentIsOwn, Box
  <2>8. QED BY <2>3, <2>4, <2>6, <2>7
<1>7. AtItsStage(e)' /\ StillAsLeft(e)' /\ MeetsSession(e)' /\ SegmentIsOwn(e)'
  <2>1. StillAsLeft(e)' BY <1>2, <1>3 DEF StillAsLeft
  <2>2. SegmentIsOwn(e)' BY <1>2, <1>3 DEF SegmentIsOwn, NoSegment
  <2>3. MeetsSession(e)'
    <3>1. run'[e].at \notin {"sanitize", "leave"} /\ (run'[e].at = "agent" => run'[e].from = Nobody)
      BY <1>1 DEF Entered
    <3>2. QED BY <1>2, <1>3, <3>1 DEF MeetsSession
  <2>4. AtItsStage(e)'
    <3>1. CASE run'[e].at = "agent" /\ run'[e].box = e /\ solver'[e].marker = Nobody
      BY <3>1 DEF AtItsStage, Box
    <3>2. ASSUME NEW s \in Episodes, run'[e].at = "claim", run'[e].box = e, run'[e].from = s,
                 kept[s] = "snapshot", solver'[e] = image[s]
          PROVE  AtItsStage(e)'
      <4>1. image[s].session = left[s] BY <1>0, <3>2 DEF SolversKeepTheirStage, StillAsLeft
      <4>2. QED BY <1>2, <3>2, <4>1 DEF AtItsStage, Box
    <3>3. CASE run'[e].at = "over" BY <3>3 DEF AtItsStage, Live
    <3>4. ASSUME NEW s \in Episodes, solver' = solver, run'[e].from = s, kept[s] = "retained",
                 run'[e].at \in {"claim", "verify"}, run'[e].box = Box(s), Holds(Box(s), s)
          PROVE  AtItsStage(e)'
      <4>1. Box(s) \notin crossed => solver[Box(s)].session = left[s]
        BY <1>0, <3>4 DEF SolversKeepTheirStage, StillAsLeft
      <4>2. QED BY <1>2, <3>4, <4>1 DEF AtItsStage, Box
    <3>5. QED BY <1>1, <3>1, <3>2, <3>3, <3>4
  <2>5. QED BY <2>1, <2>2, <2>3, <2>4
<1>8. QED
  BY <1>5, <1>6, <1>7 DEF SolversKeepTheirStage, SegmentsMeetSessions, SegmentsAreOwn

(* The solver of an episode is its own from the sandbox to the session, and *)
(* the invariant is kept by every step of every command.                    *)
THEOREM ContinuationInvariantHolds == ContinuationSpec => []ContinuationInvariant
<1>1. ContinuationInit => ContinuationInvariant
  <2> SUFFICES ASSUME ContinuationInit PROVE ContinuationInvariant OBVIOUS
  <2>1. NoSolver \in Solvers BY SolverParts
  <2>2. NoSegment \in Segments /\ NoRun \in Runs /\ <<>> \in Seq(SessionSteps)
    BY DEF NoSegment, Segments, Unknown, NoRun, Runs, Stages
  <2>3. ContinuationTypeOK BY <2>1, <2>2 DEF ContinuationInit, ContinuationTypeOK
  <2>4. \A e \in Episodes : run[e] = NoRun /\ kept[e] = "none" /\ ~whole[e] /\ segment[e] = NoSegment
    BY DEF ContinuationInit
  <2>5. /\ NoRun.at = "idle" /\ NoRun.kind = "none" /\ NoRun.from = Nobody /\ NoRun.box = Nobody
        /\ \A e \in Episodes : run[e].at = "idle" /\ run[e].from = Nobody /\ run[e].box = Nobody
        /\ \A e \in Episodes : ~Live(e)
    <3>1. NoRun.at = "idle" /\ NoRun.kind = "none" /\ NoRun.from = Nobody /\ NoRun.box = Nobody
      BY DEF NoRun
    <3>2. \A e \in Episodes : run[e].at = "idle" /\ run[e].from = Nobody /\ run[e].box = Nobody
      BY <2>4, <3>1
    <3>3. QED BY <3>1, <3>2 DEF Live
  <2>6. RunsAreInOrder BY <2>4, <2>5 DEF RunsAreInOrder, RunInOrder, Box
  <2>7. UsersAreAlone BY <2>5 DEF UsersAreAlone
  <2>8. SolversKeepTheirStage BY <2>4, <2>5 DEF SolversKeepTheirStage, AtItsStage, StillAsLeft
  <2>9. SegmentsMeetSessions BY <2>4 DEF SegmentsMeetSessions, MeetsSession, NoRun
  <2>10. SegmentsAreOwn BY <2>4 DEF SegmentsAreOwn, SegmentIsOwn, NoSegment
  <2>11. QED BY <2>3, <2>6, <2>7, <2>8, <2>9, <2>10 DEF ContinuationInvariant
<1>2. ContinuationInvariant /\ [ContinuationNext]_continuationVars => ContinuationInvariant'
  <2> SUFFICES ASSUME ContinuationInvariant, [ContinuationNext]_continuationVars
               PROVE  ContinuationInvariant'
    OBVIOUS
  <2>1. CASE ContinuationNext
    <3>1. ContinuationTypeOK' /\ RunsAreInOrder'
      BY <2>1, ContinuationTypes, RunsStayInOrder DEF ContinuationInvariant
    <3>2. PICK e \in Episodes :
            \/ AtWork(e)
            \/ FreshEpisode(e)
            \/ \E s \in Episodes : BootSnapshot(e, s) \/ \E way \in {"run", "reverify"} : Attach(e, s, way)
      BY <2>1 DEF ContinuationNext, AtWork
    <3>3. CASE AtWork(e)
      <4>1. Worked(e) BY <3>3, WorkIsWorked DEF ContinuationInvariant
      <4>2. UsersAreAlone' BY <4>1, WorkKeepsUsersAlone DEF ContinuationInvariant
      <4>3. \A d \in Episodes \ {e} :
              AtItsStage(d)' /\ StillAsLeft(d)' /\ MeetsSession(d)' /\ SegmentIsOwn(d)'
        BY <4>1, WorkLeavesTheOthers DEF ContinuationInvariant
      <4>4. AtItsStage(e)' /\ StillAsLeft(e)' /\ MeetsSession(e)' /\ SegmentIsOwn(e)'
        BY <3>3, <4>1, WorkKeepsItsOwn DEF ContinuationInvariant
      <4>5. SolversKeepTheirStage' /\ SegmentsMeetSessions' /\ SegmentsAreOwn'
        BY <4>3, <4>4 DEF SolversKeepTheirStage, SegmentsMeetSessions, SegmentsAreOwn
      <4>6. QED BY <3>1, <4>2, <4>5 DEF ContinuationInvariant
    <3>4. CASE ~AtWork(e)
      BY <3>1, <3>2, <3>4, EntriesKeepTheInvariant DEF ContinuationInvariant
    <3>5. QED BY <3>3, <3>4
  <2>2. CASE UNCHANGED continuationVars
    BY <2>2 DEF continuationVars, ContinuationInvariant, ContinuationTypeOK, RunsAreInOrder,
       RunInOrder,
                UsersAreAlone, SolversKeepTheirStage, AtItsStage, StillAsLeft, SegmentsMeetSessions,
                MeetsSession, SegmentsAreOwn, SegmentIsOwn, Box, Live, Holds, EndsAt, OwnFrom, NativeStart
  <2>3. QED BY <2>1, <2>2
<1>3. QED BY <1>1, <1>2, PTL DEF ContinuationSpec

(* A command that was let in finds the agent state its source left.         *)
THEOREM SourcesAreAsLeftHolds == ContinuationSpec => []SourcesAreAsLeft
<1>1. ContinuationInvariant => SourcesAreAsLeft
  BY DEF ContinuationInvariant, SolversKeepTheirStage, AtItsStage, SourcesAreAsLeft, Live
<1>2. QED BY <1>1, ContinuationInvariantHolds, PTL

(* A trajectory cut out after a source that was read whole is its episode's *)
(* own, down any chain of commands.                                         *)
THEOREM SegmentsAreOwnHolds == ContinuationSpec => []SegmentsAreOwn
<1>1. ContinuationInvariant => SegmentsAreOwn BY DEF ContinuationInvariant
<1>2. QED BY <1>1, ContinuationInvariantHolds, PTL

-----------------------------------------------------------------------------
(* Recorded evidence (EvidenceStore)                                      *)

EvidenceSpec == EvidenceInit /\ [][EvidenceNext]_evidenceVars

(* The lines of a trace, a command's output and the trajectory's conversion. *)
Blobs == Commands \X Nat
LineKinds == {"command_started", "command_finished", "partial_output_recovered",
              "fragment", "glued"}
Recorders == {"none", "running", "unlinked", "stored", "finished", "interrupted", "recovering"}
Lines == [seq : Nat \cup {-1}, kind : LineKinds, blob : Blobs \cup {<<>>}]
Conversions == [at : {"agent", "tokens", "links", "linked", "given_up"},
                tokens : SUBSET ModelCalls, written : BOOLEAN, linked : SUBSET ModelCalls,
                references : {"unchecked", "whole", "refused"}]
Sizes == Nat \cup {-1}

EvidenceTypeOK ==
  /\ trace \in Seq(Lines) /\ nextSeq \in Sizes
  /\ partial \in [Commands -> Sizes] /\ held \in [Commands -> Sizes]
  /\ command \in [Commands -> Recorders]
  /\ torn \in BOOLEAN /\ steps \in Conversions

Bad(line) == line.seq = -1

(* A line is what some append meant it to be, or says that it is not. *)
LinesAreKnown == \A i \in 1 .. Len(trace) :
  IF Bad(trace[i]) THEN trace[i] \in {Fragment, Glued}
                   ELSE trace[i].kind \notin {"fragment", "glued"}

(* What a line names is in place, and its command will not be recorded again. *)
LinesAreBacked == \A i \in 1 .. Len(trace) : trace[i].blob # <<>> =>
  trace[i].blob \in blobs /\ command[trace[i].blob[1]] = "finished"

NamedOnce == \A i, j \in 1 .. Len(trace) :
  trace[i].blob = trace[j].blob /\ trace[i].blob # <<>> => i = j

(* The first n lines are whole and numbered, and the next is not. *)
SoundUpTo(n) == /\ \A i \in 1 .. n : trace[i].seq = i - 1
                /\ n = Len(trace) \/ Bad(trace[n + 1])

LinesAreNumbered ==
  /\ \E n \in 0 .. Len(trace) : SoundUpTo(n)
  /\ Open /\ (\A i \in 1 .. Len(trace) : ~Bad(trace[i])) => nextSeq = Len(trace)

UntornIsWhole == ~torn => /\ \A i \in 1 .. Len(trace) : ~Bad(trace[i])
                          /\ steps.references # "refused"

(* What a command's terminal event is about to name is in place. *)
HeldIsStored == \A c \in Commands :
  /\ command[c] = "stored" /\ held[c] > 0 => <<c, held[c]>> \in blobs
  /\ command[c] = "recovering" /\ held[c] > 0 => <<c, held[c]>> \in blobs
  /\ command[c] = "recovering" /\ partial[c] > 0 => <<c, partial[c]>> \in blobs
  /\ command[c] = "interrupted" => held[c] = -1

StepsAreBacked ==
  /\ steps.at = "tokens" => Payload \in blobs
  /\ steps.written => Payload \in blobs
  /\ steps.at \in {"links", "linked"} => steps.written
  /\ steps.linked # {} => steps.written

EvidenceInvariant ==
  /\ EvidenceTypeOK /\ LinesAreKnown /\ LinesAreBacked /\ NamedOnce
  /\ LinesAreNumbered /\ UntornIsWhole /\ HeldIsStored /\ StepsAreBacked

-----------------------------------------------------------------------------
(* All lines but the last. *)
LEMMA FrontOfLines ==
  ASSUME NEW S, NEW q \in Seq(S), Len(q) > 0
  PROVE  LET front == SubSeq(q, 1, Len(q) - 1)
         IN  /\ front \in Seq(S) /\ Len(front) = Len(q) - 1
             /\ \A i \in 1 .. Len(q) - 1 : front[i] = q[i]
<1> DEFINE n == Len(q) - 1
           front == SubSeq(q, 1, n)
<1>1. n \in Nat /\ n + 1 = Len(q) BY LenProperties
<1>2. \A i \in 1 .. n : q[i] \in S BY <1>1, ElementOfSeq
<1> HIDE DEF n
<1>3. /\ front \in Seq(S) /\ Len(front) = n
      /\ \A i \in 1 .. n : front[i] = q[i]
  BY <1>1, <1>2, SubSeqProperties
<1>4. QED BY <1>3 DEF n

(* A line that is appended, on its own or to the fragment at the end. *)
LEMMA ExtendedEffect ==
  ASSUME EvidenceTypeOK, NEW line \in Lines, trace' = Extended(line)
  PROVE  /\ trace' \in Seq(Lines)
         /\ \/ /\ Len(trace) > 0 /\ Len(trace') = Len(trace)
               /\ trace[Len(trace)] = Fragment /\ trace'[Len(trace)] \in {Fragment, Glued}
               /\ \A i \in 1 .. Len(trace) - 1 : trace'[i] = trace[i]
            \/ /\ Len(trace') = Len(trace) + 1
               /\ trace'[Len(trace) + 1] = line
               /\ \A i \in 1 .. Len(trace) : trace'[i] = trace[i]
<1>1. trace \in Seq(Lines) /\ Len(trace) \in Nat BY DEF EvidenceTypeOK
<1>2. Fragment \in Lines /\ Glued \in Lines
  <2>1. -1 \in Nat \cup {-1} OBVIOUS
  <2>2. "fragment" \in LineKinds /\ "glued" \in LineKinds BY Zenon DEF LineKinds
  <2>3. <<>> \in Blobs \cup {<<>>} OBVIOUS
  <2>4. QED BY <2>1, <2>2, <2>3, Zenon DEF Fragment, Glued, Lines
<1>3. CASE trace # <<>> /\ trace[Len(trace)] = Fragment
  <2> DEFINE last == IF line = Fragment THEN Fragment ELSE Glued
             front == SubSeq(trace, 1, Len(trace) - 1)
  <2>1. trace' = Append(front, last) BY <1>3 DEF Extended, Front
  <2>2. last \in {Fragment, Glued} /\ last \in Lines BY <1>2
  <2>3. Len(trace) > 0 BY <1>1, <1>3, EmptySeq
  <2>4. /\ front \in Seq(Lines) /\ Len(front) = Len(trace) - 1
        /\ \A i \in 1 .. Len(trace) - 1 : front[i] = trace[i]
    BY <1>1, <2>3, FrontOfLines
  <2> HIDE DEF last, front
  <2>5. /\ Append(front, last) \in Seq(Lines) /\ Len(Append(front, last)) = Len(trace)
        /\ Append(front, last)[Len(trace)] = last
        /\ \A i \in 1 .. Len(trace) - 1 : Append(front, last)[i] = front[i]
    BY <1>1, <2>2, <2>3, <2>4, AppendProperties
  <2>6. QED BY <1>3, <2>1, <2>2, <2>3, <2>4, <2>5
<1>4. CASE ~(trace # <<>> /\ trace[Len(trace)] = Fragment)
  <2>1. trace' = Append(trace, line) BY <1>4 DEF Extended
  <2>2. QED BY <1>1, <2>1, AppendProperties
<1>5. QED BY <1>3, <1>4

(* How many lines can be read, and what the next opening makes of them. *)
LEMMA SoundLinesAreReadable ==
  ASSUME EvidenceTypeOK, LinesAreKnown, NEW n \in 0 .. Len(trace), SoundUpTo(n)
  PROVE  /\ Readable \in Seq(Lines) /\ Len(Readable) = n
         /\ \A i \in 1 .. n : Readable[i] = trace[i]
         /\ n = Len(trace) => Readable = trace
<1> DEFINE bad == {i \in 1 .. Len(trace) : trace[i] \in {Fragment, Glued}}
           first == CHOOSE i \in bad : \A j \in bad : i <= j
<1>1. trace \in Seq(Lines) /\ Len(trace) \in Nat BY DEF EvidenceTypeOK
<1>2. \A i \in 1 .. n : trace[i].seq # -1 BY DEF SoundUpTo
<1>3. \A i \in 1 .. Len(trace) : trace[i] \in {Fragment, Glued} => trace[i].seq = -1
  BY DEF Fragment, Glued
<1>4. \A i \in bad : i > n BY <1>2, <1>3
<1>5. Readable = IF bad = {} THEN trace ELSE SubSeq(trace, 1, first - 1) BY DEF Readable
<1>6. CASE n = Len(trace)
  <2>1. bad = {} BY <1>1, <1>4, <1>6
  <2> HIDE DEF bad, first
  <2>2. QED BY <1>1, <1>5, <1>6, <2>1
<1>7. CASE n # Len(trace)
  <2>1. n + 1 \in 1 .. Len(trace) /\ trace[n + 1].seq = -1 BY <1>1, <1>7 DEF SoundUpTo, Bad
  <2>2. n + 1 \in bad BY <2>1 DEF LinesAreKnown, Bad
  <2>3. first = n + 1 BY <1>4, <2>2
  <2> HIDE DEF bad, first
  <2>4. Readable = SubSeq(trace, 1, n) BY <1>5, <2>2, <2>3
  <2>5. \A i \in 1 .. n : trace[i] \in Lines BY <1>1, ElementOfSeq
  <2>6. QED BY <1>1, <1>7, <2>4, <2>5, SubSeqProperties
<1>8. QED BY <1>6, <1>7

(* The next opening numbers on from the last line it can read. *)
LEMMA NextOpeningNumbersOn ==
  ASSUME EvidenceTypeOK, LinesAreKnown, NEW n \in 0 .. Len(trace), SoundUpTo(n)
  PROVE  ExistingNextSeq = n
<1> DEFINE seqs == {Readable[i].seq : i \in 1 .. Len(Readable)}
           last == CHOOSE m \in seqs : \A i \in 1 .. Len(Readable) : Readable[i].seq <= m
<1>1. Readable \in Seq(Lines) /\ Len(Readable) = n /\ \A i \in 1 .. n : Readable[i] = trace[i]
  BY SoundLinesAreReadable
<1>2. n \in Nat BY DEF EvidenceTypeOK
<1>3. \A i \in 1 .. n : Readable[i].seq = i - 1 BY <1>1 DEF SoundUpTo
<1>4. CASE n = 0
  <2>1. Readable = <<>> BY <1>1, <1>4, EmptySeq
  <2>2. QED BY <1>4, <2>1 DEF ExistingNextSeq
<1>5. CASE n # 0
  <2>1. Readable # <<>> BY <1>1, <1>2, <1>5, EmptySeq
  <2>2. n - 1 \in seqs BY <1>1, <1>2, <1>3, <1>5
  <2>3. \A m \in seqs : \E i \in 1 .. n : m = i - 1 BY <1>1, <1>3
  <2>4. \A i \in 1 .. Len(Readable) : Readable[i].seq <= n - 1 BY <1>1, <1>2, <1>3
  <2>5. last \in seqs /\ \A i \in 1 .. Len(Readable) : Readable[i].seq <= last
    BY <2>2, <2>4
  <2>6. Readable[n].seq = n - 1 /\ n \in 1 .. Len(Readable) BY <1>1, <1>2, <1>3, <1>5
  <2>7. ExistingNextSeq = 1 + last BY <2>1, Zenon DEF ExistingNextSeq
  <2> HIDE DEF seqs, last
  <2>8. last = n - 1 BY <1>2, <2>3, <2>5, <2>6
  <2>9. QED BY <1>2, <2>7, <2>8
<1>6. QED BY <1>4, <1>5

-----------------------------------------------------------------------------
(* What a line that is logged leaves true: c is the command whose last line *)
(* it is, if it names a blob.                                               *)
LEMMA LoggedLineIsGood ==
  ASSUME EvidenceInvariant, Open, NEW c \in Commands, NEW what \in LineKinds \ {"fragment", "glued"},
         NEW blob \in Blobs \cup {<<>>}, NEW v \in Recorders, Log(what, blob),
         command[c] # "finished", command' = [command EXCEPT ![c] = v],
         blob # <<>> => blob \in blobs /\ blob[1] = c /\ v = "finished",
         UNCHANGED <<blobs, torn, steps>>
  PROVE  /\ trace' \in Seq(Lines) /\ nextSeq' \in Sizes
         /\ LinesAreKnown' /\ LinesAreBacked' /\ NamedOnce' /\ LinesAreNumbered' /\ UntornIsWhole'
<1> DEFINE line == [seq |-> nextSeq, kind |-> what, blob |-> blob]
<1>1. /\ trace \in Seq(Lines) /\ Len(trace) \in Nat /\ nextSeq \in Nat
      /\ \A i \in 1 .. Len(trace) : trace[i] \in Lines
  <2>1. trace \in Seq(Lines) /\ nextSeq \in Sizes BY DEF EvidenceInvariant, EvidenceTypeOK
  <2>2. QED BY <2>1, ElementOfSeq DEF Open, Sizes
<1>2. trace' = Extended(line) /\ nextSeq' = nextSeq + 1 BY DEF Log
<1>3. line \in Lines /\ line.seq = nextSeq /\ line.kind = what /\ line.blob = blob
  BY <1>1 DEF Lines
<1>4. ~Bad(line) /\ line.kind \notin {"fragment", "glued"} BY <1>1, <1>3 DEF Bad
<1> HIDE DEF line
<1>5. /\ trace' \in Seq(Lines)
      /\ \/ /\ Len(trace) > 0 /\ Len(trace') = Len(trace)
            /\ trace[Len(trace)] = Fragment /\ trace'[Len(trace)] \in {Fragment, Glued}
            /\ \A i \in 1 .. Len(trace) - 1 : trace'[i] = trace[i]
         \/ /\ Len(trace') = Len(trace) + 1
            /\ trace'[Len(trace) + 1] = line
            /\ \A i \in 1 .. Len(trace) : trace'[i] = trace[i]
  BY <1>2, <1>3, ExtendedEffect DEF EvidenceInvariant
<1>6. /\ \A x \in {Fragment, Glued} : Bad(x) /\ x.blob = <<>> 
      /\ nextSeq' \in Sizes
  BY <1>1, <1>2 DEF Fragment, Glued, Bad, Sizes
<1>7. \A d \in Commands : command[d] = "finished" => command'[d] = "finished"
  BY DEF EvidenceInvariant, EvidenceTypeOK
<1>8. \A i \in 1 .. Len(trace) : trace[i].blob # <<>> =>
        /\ trace[i].blob \in Blobs /\ trace[i].blob \in blobs
        /\ command[trace[i].blob[1]] = "finished" /\ trace[i].blob # blob
  BY <1>1 DEF EvidenceInvariant, LinesAreBacked, Lines
<1>9. CASE /\ Len(trace) > 0 /\ Len(trace') = Len(trace)
           /\ trace[Len(trace)] = Fragment /\ trace'[Len(trace)] \in {Fragment, Glued}
           /\ \A i \in 1 .. Len(trace) - 1 : trace'[i] = trace[i]
  <2>1. \A i \in 1 .. Len(trace) : i = Len(trace) \/ i \in 1 .. Len(trace) - 1 BY <1>1
  <2>2. LinesAreKnown' BY <1>5, <1>6, <1>9, <2>1 DEF EvidenceInvariant, LinesAreKnown, Bad
  <2>3. LinesAreBacked'
    BY <1>6, <1>7, <1>8, <1>9, <2>1 DEF LinesAreBacked, Blobs
  <2>4. NamedOnce' BY <1>6, <1>9, <2>1 DEF EvidenceInvariant, NamedOnce
  <2>5. Bad(trace[Len(trace)]) /\ Bad(trace'[Len(trace)]) /\ Len(trace) \in 1 .. Len(trace)
    BY <1>1, <1>6, <1>9
  <2>6. PICK n \in 0 .. Len(trace) : SoundUpTo(n) BY DEF EvidenceInvariant, LinesAreNumbered
  <2>7. n # Len(trace) BY <1>1, <2>5, <2>6 DEF SoundUpTo, Bad
  <2>8. SoundUpTo(n)'
    <3>1. n + 1 \in 1 .. Len(trace) /\ Bad(trace[n + 1]) BY <1>1, <2>6, <2>7 DEF SoundUpTo
    <3>2. \A i \in 1 .. n : trace'[i].seq = i - 1
      <4>1. \A i \in 1 .. n : i \in 1 .. Len(trace) - 1 BY <1>1, <3>1
      <4>2. \A i \in 1 .. n : trace[i].seq = i - 1 BY <2>6 DEF SoundUpTo
      <4>3. \A i \in 1 .. n : trace'[i] = trace[i] BY <1>9, <4>1
      <4>4. QED BY <4>2, <4>3
    <3>3. Bad(trace'[n + 1]) BY <1>9, <2>1, <2>5, <3>1 DEF Bad
    <3>4. QED BY <3>2, <3>3 DEF SoundUpTo, Bad
  <2>9. LinesAreNumbered' BY <1>9, <2>5, <2>6, <2>8 DEF LinesAreNumbered, Bad
  <2>10. UntornIsWhole' BY <2>5 DEF EvidenceInvariant, UntornIsWhole
  <2>11. QED BY <1>5, <1>6, <2>2, <2>3, <2>4, <2>9, <2>10
<1>10. CASE /\ Len(trace') = Len(trace) + 1
            /\ trace'[Len(trace) + 1] = line
            /\ \A i \in 1 .. Len(trace) : trace'[i] = trace[i]
  <2>1. \A i \in 1 .. Len(trace') : i = Len(trace) + 1 \/ i \in 1 .. Len(trace) BY <1>1, <1>10
  <2>2. LinesAreKnown' BY <1>4, <1>10, <2>1 DEF EvidenceInvariant, LinesAreKnown, Bad
  <2>3. LinesAreBacked'
    <3>1. ASSUME NEW i \in 1 .. Len(trace'), trace'[i].blob # <<>>
          PROVE  trace'[i].blob \in blobs /\ command'[trace'[i].blob[1]] = "finished"
      <4>1. CASE i \in 1 .. Len(trace) BY <1>7, <1>8, <1>10, <3>1, <4>1 DEF Blobs
      <4>2. CASE i = Len(trace) + 1
        <5>1. trace'[i].blob = blob BY <1>3, <1>10, <4>2
        <5>2. command'[c] = v BY DEF EvidenceInvariant, EvidenceTypeOK
        <5>3. QED BY <3>1, <5>1, <5>2
      <4>3. QED BY <2>1, <4>1, <4>2
    <3>2. QED BY <3>1 DEF LinesAreBacked
  <2>4. NamedOnce'
    <3>1. ASSUME NEW i \in 1 .. Len(trace'), NEW j \in 1 .. Len(trace'),
                 trace'[i].blob = trace'[j].blob, trace'[i].blob # <<>>
          PROVE  i = j
      <4>1. \A k \in 1 .. Len(trace) : trace'[k].blob # <<>> => trace'[k].blob # blob
        BY <1>8, <1>10
      <4>2. trace'[Len(trace) + 1].blob = blob BY <1>3, <1>10
      <4>3. CASE i \in 1 .. Len(trace) /\ j \in 1 .. Len(trace)
        BY <1>10, <3>1, <4>3 DEF EvidenceInvariant, NamedOnce
      <4>4. QED BY <2>1, <3>1, <4>1, <4>2, <4>3
    <3>2. QED BY <3>1 DEF NamedOnce
  <2>5. LinesAreNumbered'
    <3>1. PICK n \in 0 .. Len(trace) : SoundUpTo(n) BY DEF EvidenceInvariant, LinesAreNumbered
    <3>2. CASE n = Len(trace)
      <4>1. \A i \in 1 .. Len(trace) : ~Bad(trace[i]) BY <1>1, <3>1, <3>2 DEF SoundUpTo, Bad
      <4>2. nextSeq = Len(trace) BY <4>1 DEF EvidenceInvariant, LinesAreNumbered
      <4>3. \A i \in 1 .. Len(trace') : trace'[i].seq = i - 1
        <5>1. \A i \in 1 .. Len(trace) : trace'[i].seq = i - 1 BY <1>10, <3>1, <3>2 DEF SoundUpTo
        <5>2. trace'[Len(trace) + 1].seq = Len(trace) + 1 - 1 BY <1>1, <1>3, <1>10, <4>2
        <5>3. QED BY <2>1, <5>1, <5>2
      <4>4. PICK m \in Nat : m = Len(trace') BY <1>1, <1>10
      <4>5. SoundUpTo(m)' BY <4>3, <4>4 DEF SoundUpTo
      <4>6. nextSeq' = Len(trace') /\ m \in 0 .. Len(trace') BY <1>1, <1>2, <1>10, <4>2, <4>4
      <4>7. QED BY <4>5, <4>6 DEF LinesAreNumbered
    <3>3. CASE n # Len(trace)
      <4>1. n + 1 \in 1 .. Len(trace) /\ Bad(trace[n + 1]) BY <1>1, <3>1, <3>3 DEF SoundUpTo
      <4>2. SoundUpTo(n)'
        <5>1. \A i \in 1 .. n : trace'[i].seq = i - 1
          <6>1. \A i \in 1 .. n : i \in 1 .. Len(trace) BY <1>1
          <6>2. \A i \in 1 .. n : trace[i].seq = i - 1 BY <3>1 DEF SoundUpTo
          <6>3. \A i \in 1 .. n : trace'[i] = trace[i] BY <1>10, <6>1
          <6>4. QED BY <6>2, <6>3
        <5>2. Bad(trace'[n + 1]) BY <1>10, <4>1
        <5>3. QED BY <5>1, <5>2 DEF SoundUpTo, Bad
      <4>3. n \in 0 .. Len(trace') BY <1>1, <1>10
      <4>4. n + 1 \in 1 .. Len(trace') /\ Bad(trace'[n + 1]) BY <1>1, <1>10, <4>1
      <4>5. QED BY <4>2, <4>3, <4>4 DEF LinesAreNumbered, Bad
    <3>4. QED BY <3>2, <3>3
  <2>6. UntornIsWhole' BY <1>4, <1>10, <2>1 DEF EvidenceInvariant, UntornIsWhole, Bad
  <2>7. QED BY <1>5, <1>6, <2>2, <2>3, <2>4, <2>5, <2>6
<1>11. QED BY <1>5, <1>9, <1>10

(* What holds of the trace when no line is appended to it. *)
LEMMA UntouchedTraceIsGood ==
  ASSUME EvidenceInvariant, trace' = trace,
         nextSeq' \in {nextSeq, -1, ExistingNextSeq},
         blobs \subseteq blobs', torn' = torn,
         \A c \in Commands : command[c] = "finished" => command'[c] = "finished",
         torn \/ steps'.references # "refused"
  PROVE  /\ trace' \in Seq(Lines) /\ nextSeq' \in Sizes
         /\ LinesAreKnown' /\ LinesAreBacked' /\ NamedOnce' /\ LinesAreNumbered' /\ UntornIsWhole'
<1>1. /\ trace \in Seq(Lines) /\ Len(trace) \in Nat /\ nextSeq \in Sizes
      /\ \A i \in 1 .. Len(trace) : trace[i] \in Lines
  <2>1. trace \in Seq(Lines) /\ nextSeq \in Sizes BY DEF EvidenceInvariant, EvidenceTypeOK
  <2>2. QED BY <2>1, ElementOfSeq
<1>2. PICK n \in 0 .. Len(trace) : SoundUpTo(n) BY DEF EvidenceInvariant, LinesAreNumbered
<1>3. ExistingNextSeq = n /\ n \in Nat
  BY <1>1, <1>2, NextOpeningNumbersOn DEF EvidenceInvariant
<1>4. nextSeq' \in Sizes BY <1>1, <1>3 DEF Sizes
<1>5. LinesAreKnown' /\ NamedOnce' BY DEF EvidenceInvariant, LinesAreKnown, NamedOnce, Bad
<1>6. LinesAreBacked'
  <2>1. \A i \in 1 .. Len(trace) : trace[i].blob # <<>> => trace[i].blob[1] \in Commands
    BY <1>1 DEF Lines, Blobs
  <2>2. QED BY <2>1 DEF EvidenceInvariant, LinesAreBacked
<1>7. LinesAreNumbered'
  <2>1. SoundUpTo(n)' BY <1>2 DEF SoundUpTo, Bad
  <2>2. ASSUME Open', \A i \in 1 .. Len(trace) : ~Bad(trace[i]) PROVE nextSeq' = Len(trace)
    <3>1. n = Len(trace)
      <4>1. n # Len(trace) => n + 1 \in 1 .. Len(trace) /\ Bad(trace[n + 1])
        BY <1>1, <1>2 DEF SoundUpTo
      <4>2. QED BY <2>2, <4>1
    <3>2. nextSeq' # -1 BY <2>2 DEF Open
    <3>3. CASE nextSeq' = nextSeq
      BY <2>2, <3>3 DEF EvidenceInvariant, LinesAreNumbered, Open
    <3>4. QED BY <1>3, <3>1, <3>2, <3>3
  <2>3. QED BY <1>2, <2>1, <2>2 DEF LinesAreNumbered, Bad
<1>8. UntornIsWhole' BY DEF EvidenceInvariant, UntornIsWhole, Bad
<1>9. QED BY <1>1, <1>4, <1>5, <1>6, <1>7, <1>8

(* An append that is torn leaves what was whole as it was. *)
LEMMA TornLineIsHarmless ==
  ASSUME EvidenceInvariant, trace' = Extended(Fragment), nextSeq' = -1, torn' = TRUE,
         UNCHANGED blobs,
         \A c \in Commands : command[c] = "finished" => command'[c] = "finished"
  PROVE  /\ trace' \in Seq(Lines) /\ nextSeq' \in Sizes
         /\ LinesAreKnown' /\ LinesAreBacked' /\ NamedOnce' /\ LinesAreNumbered' /\ UntornIsWhole'
<1>1. /\ trace \in Seq(Lines) /\ Len(trace) \in Nat
      /\ \A i \in 1 .. Len(trace) : trace[i] \in Lines
  <2>1. trace \in Seq(Lines) BY DEF EvidenceInvariant, EvidenceTypeOK
  <2>2. QED BY <2>1, ElementOfSeq
<1>2. Fragment \in Lines /\ \A x \in {Fragment, Glued} : Bad(x) /\ x.blob = <<>>
  <2>1. -1 \in Nat \cup {-1} /\ <<>> \in Blobs \cup {<<>>} OBVIOUS
  <2>2. "fragment" \in LineKinds BY Zenon DEF LineKinds
  <2>3. Fragment \in Lines BY <2>1, <2>2, Zenon DEF Fragment, Lines
  <2>4. QED BY <2>3 DEF Fragment, Glued, Bad
<1>3. /\ trace' \in Seq(Lines)
      /\ \/ /\ Len(trace) > 0 /\ Len(trace') = Len(trace)
            /\ trace[Len(trace)] = Fragment /\ trace'[Len(trace)] \in {Fragment, Glued}
            /\ \A i \in 1 .. Len(trace) - 1 : trace'[i] = trace[i]
         \/ /\ Len(trace') = Len(trace) + 1
            /\ trace'[Len(trace) + 1] = Fragment
            /\ \A i \in 1 .. Len(trace) : trace'[i] = trace[i]
  BY <1>2, ExtendedEffect DEF EvidenceInvariant
<1>4. /\ Len(trace') \in Nat /\ Len(trace') >= Len(trace)
      /\ \A i \in 1 .. Len(trace') :
           \/ i \in 1 .. Len(trace) /\ trace'[i] = trace[i]
           \/ trace'[i] \in {Fragment, Glued} /\ (i \in 1 .. Len(trace) => Bad(trace[i]))
  BY <1>1, <1>2, <1>3
<1>5. LinesAreKnown' BY <1>2, <1>4 DEF EvidenceInvariant, LinesAreKnown, Bad
<1>6. LinesAreBacked'
  <2>1. \A i \in 1 .. Len(trace) : trace[i].blob # <<>> => trace[i].blob[1] \in Commands
    BY <1>1 DEF Lines, Blobs
  <2>2. ASSUME NEW i \in 1 .. Len(trace'), trace'[i].blob # <<>>
        PROVE  trace'[i].blob \in blobs /\ command'[trace'[i].blob[1]] = "finished"
    <3>1. i \in 1 .. Len(trace) /\ trace'[i] = trace[i] BY <1>2, <1>4, <2>2
    <3>2. QED BY <2>1, <2>2, <3>1 DEF EvidenceInvariant, LinesAreBacked
  <2>3. QED BY <2>2 DEF LinesAreBacked
<1>7. NamedOnce'
  <2>1. \A i \in 1 .. Len(trace') : trace'[i].blob # <<>> => i \in 1 .. Len(trace) /\ trace'[i] = trace[i]
    BY <1>2, <1>4
  <2>2. QED BY <2>1 DEF EvidenceInvariant, NamedOnce
<1>8. LinesAreNumbered'
  <2>1. PICK n \in 0 .. Len(trace) : SoundUpTo(n) BY DEF EvidenceInvariant, LinesAreNumbered
  <2>2. \A i \in 1 .. n : i \in 1 .. Len(trace) /\ i \in 1 .. Len(trace') BY <1>1, <1>4
  <2>3. \A i \in 1 .. n : trace[i].seq = i - 1 BY <2>1 DEF SoundUpTo
  <2>4. \A i \in 1 .. n : trace'[i] = trace[i]
    BY <1>4, <2>2, <2>3 DEF Bad
  <2>5. n = Len(trace') \/ Bad(trace'[n + 1])
    <3>1. CASE n = Len(trace) BY <1>1, <1>2, <1>3, <3>1
    <3>2. CASE n # Len(trace)
      <4>1. n + 1 \in 1 .. Len(trace) /\ Bad(trace[n + 1]) BY <1>1, <2>1, <3>2 DEF SoundUpTo
      <4>2. n + 1 \in 1 .. Len(trace') BY <1>1, <1>4, <4>1
      <4>3. trace'[n + 1] = trace[n + 1] \/ trace'[n + 1] \in {Fragment, Glued} BY <1>4, <4>2
      <4>4. QED BY <1>2, <4>1, <4>3
    <3>3. QED BY <3>1, <3>2
  <2>6. SoundUpTo(n)' BY <2>3, <2>4, <2>5 DEF SoundUpTo, Bad
  <2>7. n \in 0 .. Len(trace') BY <1>1, <1>4
  <2>8. ~Open' BY DEF Open
  <2>9. QED BY <2>6, <2>7, <2>8 DEF LinesAreNumbered
<1>9. UntornIsWhole' BY DEF UntornIsWhole
<1>10. QED BY <1>3, <1>5, <1>6, <1>7, <1>8, <1>9 DEF Sizes

-----------------------------------------------------------------------------
(* Each step of a command's recorder keeps the invariant. *)
LEMMA RecorderKeepsTheInvariant ==
  ASSUME EvidenceInvariant, NEW c \in Commands,
         Start(c) \/ Write(c) \/ Unlink(c) \/ PutBlob(c) \/ Finish(c)
  PROVE  EvidenceInvariant'
<1>1. EvidenceTypeOK /\ HeldIsStored /\ StepsAreBacked BY DEF EvidenceInvariant
<1>2. steps' = steps /\ torn' = torn /\ (torn \/ steps.references # "refused")
  BY DEF Start, Write, Unlink, PutBlob, Finish, EvidenceInvariant, UntornIsWhole
<1>3. CASE Start(c)
  <2>1. /\ Open /\ command[c] = "none" /\ Log("command_started", <<>>)
        /\ command' = [command EXCEPT ![c] = "running"]
        /\ UNCHANGED <<partial, blobs, held, torn, steps>>
    BY <1>3 DEF Start
  <2>2. "command_started" \in LineKinds \ {"fragment", "glued"} /\ "running" \in Recorders
    BY DEF LineKinds, Recorders
  <2>3. /\ trace' \in Seq(Lines) /\ nextSeq' \in Sizes
        /\ LinesAreKnown' /\ LinesAreBacked' /\ NamedOnce' /\ LinesAreNumbered' /\ UntornIsWhole'
    BY <2>1, <2>2, LoggedLineIsGood
  <2>4. HeldIsStored' BY <1>1, <2>1 DEF HeldIsStored, EvidenceTypeOK
  <2>5. StepsAreBacked' BY <1>1, <2>1 DEF StepsAreBacked
  <2>6. EvidenceTypeOK' BY <1>1, <2>1, <2>2, <2>3 DEF EvidenceTypeOK
  <2>7. QED BY <2>3, <2>4, <2>5, <2>6 DEF EvidenceInvariant
<1>4. CASE Finish(c)
  <2> DEFINE blob == IF held[c] > 0 THEN <<c, held[c]>> ELSE <<>>
  <2>1. /\ Open /\ command[c] = "stored" /\ Log("command_finished", blob)
        /\ command' = [command EXCEPT ![c] = "finished"] /\ held' = [held EXCEPT ![c] = -1]
        /\ UNCHANGED <<partial, blobs, torn, steps>>
    BY <1>4 DEF Finish, Finishable
  <2>2. "command_finished" \in LineKinds \ {"fragment", "glued"} /\ "finished" \in Recorders
    BY DEF LineKinds, Recorders
  <2>3. blob \in Blobs \cup {<<>>} /\ (blob # <<>> => blob \in blobs /\ blob[1] = c)
    <3>1. held[c] > 0 => held[c] \in Nat /\ <<c, held[c]>> \in blobs
      <4>1. held[c] \in Sizes BY <1>1 DEF EvidenceTypeOK
      <4>2. held[c] > 0 => held[c] \in Nat BY <4>1 DEF Sizes
      <4>3. held[c] > 0 => <<c, held[c]>> \in blobs BY <1>1, <2>1, Zenon DEF HeldIsStored
      <4>4. QED BY <4>2, <4>3
    <3>2. <<c, held[c]>>[1] = c OBVIOUS
    <3>3. CASE held[c] > 0
      <4>1. blob = <<c, held[c]>> BY <3>3
      <4>2. <<c, held[c]>> \in Blobs BY <3>1, <3>3 DEF Blobs
      <4>3. QED BY <3>1, <3>2, <3>3, <4>1, <4>2, Zenon
    <3>4. CASE ~(held[c] > 0) BY <3>4
    <3>5. QED BY <3>3, <3>4
  <2> HIDE DEF blob
  <2>4. /\ trace' \in Seq(Lines) /\ nextSeq' \in Sizes
        /\ LinesAreKnown' /\ LinesAreBacked' /\ NamedOnce' /\ LinesAreNumbered' /\ UntornIsWhole'
    BY <2>1, <2>2, <2>3, LoggedLineIsGood
  <2>5. HeldIsStored' BY <1>1, <2>1 DEF HeldIsStored, EvidenceTypeOK
  <2>6. StepsAreBacked' BY <1>1, <2>1 DEF StepsAreBacked
  <2>7. EvidenceTypeOK' BY <1>1, <2>1, <2>2, <2>4 DEF EvidenceTypeOK, Sizes
  <2>8. QED BY <2>4, <2>5, <2>6, <2>7 DEF EvidenceInvariant
<1>5. CASE Write(c) \/ Unlink(c) \/ PutBlob(c)
  <2>1. /\ trace' = trace /\ nextSeq' = nextSeq /\ blobs \subseteq blobs'
        /\ \A d \in Commands : command[d] = "finished" => command'[d] = "finished"
    BY <1>1, <1>5 DEF Write, Unlink, PutBlob, EvidenceTypeOK
  <2>2. /\ trace' \in Seq(Lines) /\ nextSeq' \in Sizes
        /\ LinesAreKnown' /\ LinesAreBacked' /\ NamedOnce' /\ LinesAreNumbered' /\ UntornIsWhole'
    BY <1>2, <2>1, UntouchedTraceIsGood
  <2>3. StepsAreBacked' BY <1>1, <1>2, <2>1 DEF StepsAreBacked
  <2>4. CASE Write(c)
    <3>1. \A n \in Sizes : n + 1 \in Sizes BY DEF Sizes
    <3>2. partial' \in [Commands -> Sizes] /\ partial[c] \in Sizes /\ 1 \in Sizes
      BY <1>1, <2>4, <3>1 DEF Write, EvidenceTypeOK, Sizes
    <3>3. EvidenceTypeOK' BY <1>1, <2>2, <2>4, <3>2 DEF Write, EvidenceTypeOK
    <3>4. HeldIsStored' BY <1>1, <2>4 DEF Write, HeldIsStored, EvidenceTypeOK
    <3>5. QED BY <2>2, <2>3, <3>3, <3>4 DEF EvidenceInvariant
  <2>5. CASE Unlink(c)
    <3>1. EvidenceTypeOK' BY <1>1, <2>2, <2>5 DEF Unlink, EvidenceTypeOK, Recorders, Sizes
    <3>2. HeldIsStored' BY <1>1, <2>5 DEF Unlink, HeldIsStored, EvidenceTypeOK
    <3>3. QED BY <2>2, <2>3, <3>1, <3>2 DEF EvidenceInvariant
  <2>6. CASE PutBlob(c)
    <3>1. EvidenceTypeOK' BY <1>1, <2>2, <2>6 DEF PutBlob, EvidenceTypeOK, Recorders
    <3>2. HeldIsStored' BY <1>1, <2>6 DEF PutBlob, HeldIsStored, EvidenceTypeOK
    <3>3. QED BY <2>2, <2>3, <3>1, <3>2 DEF EvidenceInvariant
  <2>7. QED BY <1>5, <2>4, <2>5, <2>6
<1>6. QED BY <1>3, <1>4, <1>5

(* So does each step of the recovery of what a crash left. *)
LEMMA RecoveryKeepsTheInvariant ==
  ASSUME EvidenceInvariant, NEW c \in Commands,
         RecoverPut(c) \/ RecoverUnlink(c) \/ RecoverLog(c)
  PROVE  EvidenceInvariant'
<1>1. EvidenceTypeOK /\ HeldIsStored /\ StepsAreBacked BY DEF EvidenceInvariant
<1>2. steps' = steps /\ torn' = torn /\ (torn \/ steps.references # "refused")
  BY DEF RecoverPut, RecoverUnlink, RecoverLog, EvidenceInvariant, UntornIsWhole
<1>3. CASE RecoverLog(c)
  <2> DEFINE blob == <<c, held[c]>>
  <2>1. /\ Open /\ command[c] = "recovering" /\ held[c] > 0 /\ Log("partial_output_recovered", blob)
        /\ command' = [command EXCEPT ![c] = "finished"] /\ held' = [held EXCEPT ![c] = -1]
        /\ UNCHANGED <<partial, blobs, torn, steps>>
    BY <1>3 DEF RecoverLog
  <2>2. "partial_output_recovered" \in LineKinds \ {"fragment", "glued"} /\ "finished" \in Recorders
    BY DEF LineKinds, Recorders
  <2>3. blob \in Blobs \cup {<<>>} /\ blob \in blobs /\ blob[1] = c
    <3>1. held[c] \in Nat /\ <<c, held[c]>> \in blobs
      <4>1. held[c] \in Sizes BY <1>1 DEF EvidenceTypeOK
      <4>2. held[c] \in Nat BY <2>1, <4>1 DEF Sizes
      <4>3. <<c, held[c]>> \in blobs BY <1>1, <2>1, Zenon DEF HeldIsStored
      <4>4. QED BY <4>2, <4>3
    <3>2. blob[1] = c OBVIOUS
    <3>3. blob \in Blobs BY <3>1 DEF Blobs
    <3>4. QED BY <3>1, <3>2, <3>3
  <2> HIDE DEF blob
  <2>4. /\ trace' \in Seq(Lines) /\ nextSeq' \in Sizes
        /\ LinesAreKnown' /\ LinesAreBacked' /\ NamedOnce' /\ LinesAreNumbered' /\ UntornIsWhole'
    BY <2>1, <2>2, <2>3, LoggedLineIsGood
  <2>5. HeldIsStored' BY <1>1, <2>1 DEF HeldIsStored, EvidenceTypeOK
  <2>6. StepsAreBacked' BY <1>1, <2>1 DEF StepsAreBacked
  <2>7. EvidenceTypeOK' BY <1>1, <2>1, <2>2, <2>4 DEF EvidenceTypeOK, Sizes
  <2>8. QED BY <2>4, <2>5, <2>6, <2>7 DEF EvidenceInvariant
<1>4. CASE RecoverPut(c) \/ RecoverUnlink(c)
  <2>1. /\ trace' = trace /\ nextSeq' = nextSeq /\ blobs \subseteq blobs'
        /\ \A d \in Commands : command[d] = "finished" => command'[d] = "finished"
    BY <1>1, <1>4 DEF RecoverPut, RecoverUnlink, EvidenceTypeOK
  <2>2. /\ trace' \in Seq(Lines) /\ nextSeq' \in Sizes
        /\ LinesAreKnown' /\ LinesAreBacked' /\ NamedOnce' /\ LinesAreNumbered' /\ UntornIsWhole'
    BY <1>2, <2>1, UntouchedTraceIsGood
  <2>3. StepsAreBacked' BY <1>1, <1>2, <2>1 DEF StepsAreBacked
  <2>4. CASE RecoverPut(c)
    <3>1. EvidenceTypeOK' BY <1>1, <2>2, <2>4 DEF RecoverPut, EvidenceTypeOK, Recorders
    <3>2. /\ held' = held /\ partial' = partial /\ held[c] = -1
          /\ blobs' = blobs \cup {<<c, partial[c]>>} /\ command'[c] = "recovering"
          /\ \A d \in Commands \ {c} : command'[d] = command[d]
      BY <1>1, <2>4 DEF RecoverPut, EvidenceTypeOK, HeldIsStored
    <3>3. HeldIsStored' BY <1>1, <3>2 DEF HeldIsStored
    <3>4. QED BY <2>2, <2>3, <3>1, <3>3 DEF EvidenceInvariant
  <2>5. CASE RecoverUnlink(c)
    <3>1. EvidenceTypeOK' BY <1>1, <2>2, <2>5 DEF RecoverUnlink, EvidenceTypeOK, Sizes
    <3>2. /\ command' = command /\ blobs' = blobs /\ partial'[c] = -1 /\ held'[c] = partial[c]
          /\ command[c] = "recovering" /\ partial[c] > 0
          /\ \A d \in Commands \ {c} : held'[d] = held[d] /\ partial'[d] = partial[d]
      BY <1>1, <2>5 DEF RecoverUnlink, EvidenceTypeOK
    <3>3. HeldIsStored'
      <4>1. <<c, partial[c]>> \in blobs BY <1>1, <3>2, Zenon DEF HeldIsStored
      <4>2. <<c, held'[c]>> \in blobs' BY <3>2, <4>1, Zenon
      <4>3. ~(-1 > 0) /\ "recovering" # "interrupted" /\ "recovering" # "stored" OBVIOUS
      <4>4. ASSUME NEW d \in Commands \ {c}
            PROVE  /\ command'[d] = "stored" /\ held'[d] > 0 => <<d, held'[d]>> \in blobs'
                   /\ command'[d] = "recovering" /\ held'[d] > 0 => <<d, held'[d]>> \in blobs'
                   /\ command'[d] = "recovering" /\ partial'[d] > 0 => <<d, partial'[d]>> \in blobs'
                   /\ command'[d] = "interrupted" => held'[d] = -1
        <5>1. command'[d] = command[d] /\ held'[d] = held[d] /\ partial'[d] = partial[d] /\ blobs' = blobs
          BY <3>2
        <5>2. QED BY <1>1, <5>1, Zenon DEF HeldIsStored
      <4>5. QED BY <3>2, <4>2, <4>3, <4>4, Zenon DEF HeldIsStored
    <3>4. QED BY <2>2, <2>3, <3>1, <3>3 DEF EvidenceInvariant
  <2>6. QED BY <1>4, <2>4, <2>5
<1>5. QED BY <1>3, <1>4

(* A crash and the next opening of the directory. *)
LEMMA CrashKeepsTheInvariant ==
  ASSUME EvidenceInvariant, Crash
  PROVE  EvidenceInvariant'
<1>1. EvidenceTypeOK /\ HeldIsStored /\ StepsAreBacked /\ UntornIsWhole BY DEF EvidenceInvariant
<1>2. /\ nextSeq' = -1 /\ partial' = partial /\ blobs' = blobs
      /\ held' = [c \in Commands |-> -1]
      /\ command' = [c \in Commands |-> IF command[c] \in {"none", "finished"}
                                          THEN command[c] ELSE "interrupted"]
      /\ steps' = [steps EXCEPT !.at = IF @ = "linked" THEN @ ELSE "given_up",
                                !.references = "unchecked"]
      /\ \/ trace' = trace /\ torn' = torn
         \/ trace' = Extended(Fragment) /\ torn' = TRUE
  BY DEF Crash
<1>3. \A c \in Commands : command'[c] \in {"none", "finished", "interrupted"}
                          /\ (command[c] = "finished" => command'[c] = "finished")
  BY <1>2
<1>4. /\ steps' \in Conversions /\ steps'.references = "unchecked"
      /\ steps'.written = steps.written /\ steps'.linked = steps.linked
      /\ steps'.at = IF steps.at = "linked" THEN "linked" ELSE "given_up"
  <2>1. steps \in Conversions BY <1>1 DEF EvidenceTypeOK
  <2>2. CASE steps.at = "linked"
    <3>1. steps' = [steps EXCEPT !.references = "unchecked"] BY <1>2, <2>1, <2>2 DEF Conversions
    <3>2. QED BY <2>1, <2>2, <3>1 DEF Conversions
  <2>3. CASE steps.at # "linked"
    <3>1. steps' = [steps EXCEPT !.at = "given_up", !.references = "unchecked"]
      BY <1>2, <2>1, <2>3 DEF Conversions
    <3>2. QED BY <2>1, <2>3, <3>1 DEF Conversions
  <2>4. QED BY <2>2, <2>3
<1>5. /\ trace' \in Seq(Lines) /\ nextSeq' \in Sizes
      /\ LinesAreKnown' /\ LinesAreBacked' /\ NamedOnce' /\ LinesAreNumbered' /\ UntornIsWhole'
  <2>1. CASE trace' = trace /\ torn' = torn
    BY <1>2, <1>3, <1>4, <2>1, UntouchedTraceIsGood
  <2>2. CASE trace' = Extended(Fragment) /\ torn' = TRUE
    BY <1>2, <1>3, <2>2, TornLineIsHarmless
  <2>3. QED BY <1>2, <2>1, <2>2
<1>6. command' \in [Commands -> Recorders] /\ held' \in [Commands -> Sizes] /\ torn' \in BOOLEAN
  <2>1. command' \in [Commands -> Recorders] BY <1>1, <1>2 DEF EvidenceTypeOK, Recorders
  <2>2. held' \in [Commands -> Sizes] BY <1>2 DEF Sizes
  <2>3. torn' \in BOOLEAN BY <1>1, <1>2 DEF EvidenceTypeOK
  <2>4. QED BY <2>1, <2>2, <2>3
<1>7. EvidenceTypeOK' BY <1>1, <1>2, <1>4, <1>5, <1>6 DEF EvidenceTypeOK
<1>8. HeldIsStored' BY <1>2, <1>3 DEF HeldIsStored
<1>9. StepsAreBacked' BY <1>1, <1>2, <1>4 DEF StepsAreBacked
<1>10. QED BY <1>5, <1>7, <1>8, <1>9 DEF EvidenceInvariant

(* The recorder started again reads what the crash left, and goes on behind it. *)
LEMMA ReopenKeepsTheInvariant ==
  ASSUME EvidenceInvariant, Reopen
  PROVE  EvidenceInvariant'
<1>1. EvidenceTypeOK /\ HeldIsStored /\ StepsAreBacked /\ UntornIsWhole BY DEF EvidenceInvariant
<1>2. nextSeq' = ExistingNextSeq
      /\ UNCHANGED <<trace, partial, blobs, command, held, torn, crashes, steps>>
  BY DEF Reopen
<1>3. /\ trace' \in Seq(Lines) /\ nextSeq' \in Sizes
      /\ LinesAreKnown' /\ LinesAreBacked' /\ NamedOnce' /\ LinesAreNumbered' /\ UntornIsWhole'
  BY <1>1, <1>2, UntouchedTraceIsGood DEF UntornIsWhole
<1>4. HeldIsStored' /\ StepsAreBacked' BY <1>1, <1>2 DEF HeldIsStored, StepsAreBacked
<1>5. EvidenceTypeOK' BY <1>1, <1>2, <1>3 DEF EvidenceTypeOK
<1>6. QED BY <1>3, <1>4, <1>5 DEF EvidenceInvariant

(* As long as no append was torn, every reference of the episode resolves. *)
LEMMA UntornReferencesResolve ==
  ASSUME EvidenceInvariant, ~torn
  PROVE  Resolve
<1>1. \A i \in 1 .. Len(trace) : ~Bad(trace[i]) BY DEF EvidenceInvariant, UntornIsWhole
<1>2. \A i \in 1 .. Len(trace) : trace[i].kind # "glued"
  BY <1>1 DEF EvidenceInvariant, LinesAreKnown
<1>3. \A i \in 1 .. Len(trace) : trace[i].blob # <<>> => trace[i].blob \in blobs
  BY DEF EvidenceInvariant, LinesAreBacked
<1>4. QED BY <1>2, <1>3 DEF Resolve, EvidenceInvariant, StepsAreBacked

(* The trajectory, its links, and the check of the references. *)
LEMMA TrajectoryKeepsTheInvariant ==
  ASSUME EvidenceInvariant,
         \/ ParseTrajectory \/ WriteTrajectory \/ VerifyReferences
         \/ \E m \in ModelCalls : TakeTokens(m) \/ LinkCall(m)
  PROVE  EvidenceInvariant'
<1>1. EvidenceTypeOK /\ HeldIsStored /\ StepsAreBacked /\ UntornIsWhole BY DEF EvidenceInvariant
<1>2. UNCHANGED recorderVars /\ blobs \subseteq blobs'
  BY DEF ParseTrajectory, WriteTrajectory, VerifyReferences, TakeTokens, LinkCall
<1>3. /\ steps' \in Conversions /\ StepsAreBacked'
      /\ torn \/ steps'.references # "refused"
  <2>1. steps \in Conversions /\ (torn \/ steps.references # "refused")
    BY <1>1 DEF EvidenceTypeOK, UntornIsWhole
  <2>2. CASE ParseTrajectory
    <3>1. blobs' = blobs \cup {Payload} /\ steps' = [steps EXCEPT !.at = "tokens"]
      BY <2>2 DEF ParseTrajectory
    <3>2. /\ steps' \in Conversions /\ steps'.at = "tokens" /\ steps'.written = steps.written
          /\ steps'.linked = steps.linked /\ steps'.references = steps.references
      BY <2>1, <3>1 DEF Conversions
    <3>3. Payload' = Payload BY DEF Payload
    <3>4. QED BY <1>1, <2>1, <3>1, <3>2, <3>3 DEF StepsAreBacked
  <2>3. CASE WriteTrajectory
    <3>1. /\ steps.at = "tokens" /\ blobs' = blobs
          /\ steps' = [steps EXCEPT !.at = "links", !.written = TRUE]
      BY <2>3 DEF WriteTrajectory
    <3>2. /\ steps' \in Conversions /\ steps'.at = "links" /\ steps'.written
          /\ steps'.references = steps.references
      BY <2>1, <3>1 DEF Conversions
    <3>3. Payload' = Payload BY DEF Payload
    <3>4. QED BY <1>1, <2>1, <3>1, <3>2, <3>3 DEF StepsAreBacked
  <2>4. CASE VerifyReferences
    <3>1. /\ blobs' = blobs
          /\ steps' = [steps EXCEPT !.references = IF Resolve THEN "whole" ELSE "refused"]
      BY <2>4 DEF VerifyReferences
    <3>2. /\ steps' \in Conversions /\ steps'.at = steps.at /\ steps'.written = steps.written
          /\ steps'.linked = steps.linked
          /\ steps'.references = IF Resolve THEN "whole" ELSE "refused"
      BY <2>1, <3>1 DEF Conversions
    <3>3. torn \/ Resolve BY UntornReferencesResolve
    <3>4. Payload' = Payload BY DEF Payload
    <3>5. QED BY <1>1, <3>1, <3>2, <3>3, <3>4 DEF StepsAreBacked
  <2>5. ASSUME NEW m \in ModelCalls, TakeTokens(m) \/ LinkCall(m)
        PROVE  /\ steps' \in Conversions /\ StepsAreBacked'
               /\ torn \/ steps'.references # "refused"
    <3>1. blobs' = blobs /\ Payload' = Payload BY <2>5 DEF TakeTokens, LinkCall, Payload
    <3>2. CASE TakeTokens(m)
      <4>1. /\ steps.at = "tokens"
            /\ steps' \in {[steps EXCEPT !.tokens = @ \ {m}], [steps EXCEPT !.at = "given_up"]}
        BY <3>2 DEF TakeTokens
      <4>2. /\ steps' \in Conversions /\ steps'.at \in {"tokens", "given_up"}
            /\ steps'.written = steps.written /\ steps'.linked = steps.linked
            /\ steps'.references = steps.references
        BY <2>1, <4>1 DEF Conversions
      <4>3. QED BY <1>1, <2>1, <3>1, <4>1, <4>2 DEF StepsAreBacked
    <3>3. CASE LinkCall(m)
      <4>1. PICK linked \in SUBSET ModelCalls :
              /\ steps.at = "links"
              /\ steps' = [steps EXCEPT !.linked = linked, !.at = IF linked = ModelCalls THEN "linked" ELSE @]
        <5>1. steps.linked \cup {m} \in SUBSET ModelCalls BY <2>1 DEF Conversions
        <5>2. QED BY <3>3, <5>1 DEF LinkCall
      <4>2. /\ steps' \in Conversions /\ steps'.at \in {"linked", "links"}
            /\ steps'.written = steps.written /\ steps'.references = steps.references
        BY <2>1, <4>1 DEF Conversions
      <4>3. QED BY <1>1, <2>1, <3>1, <4>1, <4>2 DEF StepsAreBacked
    <3>4. QED BY <2>5, <3>2, <3>3
  <2>6. QED BY <2>2, <2>3, <2>4, <2>5
<1>4. /\ trace' = trace /\ nextSeq' = nextSeq /\ torn' = torn /\ command' = command
      /\ held' = held /\ partial' = partial
  BY <1>2 DEF recorderVars
<1>5. /\ trace' \in Seq(Lines) /\ nextSeq' \in Sizes
      /\ LinesAreKnown' /\ LinesAreBacked' /\ NamedOnce' /\ LinesAreNumbered' /\ UntornIsWhole'
  BY <1>2, <1>3, <1>4, UntouchedTraceIsGood
<1>6. HeldIsStored' BY <1>1, <1>2, <1>4 DEF HeldIsStored
<1>7. EvidenceTypeOK' BY <1>1, <1>3, <1>4, <1>5 DEF EvidenceTypeOK
<1>8. QED BY <1>3, <1>5, <1>6, <1>7 DEF EvidenceInvariant

(* Whatever is torn, put twice or given up, what the records name is in     *)
(* place: the invariant of an episode's record, across every crash and      *)
(* every opening of its directory.                                          *)
THEOREM EvidenceInvariantHolds == EvidenceSpec => []EvidenceInvariant
<1>1. EvidenceInit => EvidenceInvariant
  <2> SUFFICES ASSUME EvidenceInit PROVE EvidenceInvariant OBVIOUS
  <2>1. trace = <<>> /\ Len(trace) = 0 /\ trace \in Seq(Lines) /\ nextSeq = 0
    BY EmptySeq DEF EvidenceInit
  <2>2. \A i \in 1 .. Len(trace) : FALSE BY <2>1
  <2>3. LinesAreKnown /\ LinesAreBacked /\ NamedOnce
    BY <2>2 DEF LinesAreKnown, LinesAreBacked, NamedOnce
  <2>4. SoundUpTo(0) /\ 0 \in 0 .. Len(trace) BY <2>1 DEF SoundUpTo
  <2>5. LinesAreNumbered BY <2>1, <2>4 DEF LinesAreNumbered
  <2>6. EvidenceTypeOK
    <3>1. -1 \in Sizes /\ 0 \in Sizes BY DEF Sizes
    <3>2. partial \in [Commands -> Sizes] /\ held \in [Commands -> Sizes]
      BY <3>1 DEF EvidenceInit
    <3>3. command \in [Commands -> Recorders] /\ torn \in BOOLEAN BY DEF EvidenceInit, Recorders
    <3>4. steps \in Conversions BY DEF EvidenceInit, Conversions
    <3>5. QED BY <2>1, <3>1, <3>2, <3>3, <3>4 DEF EvidenceTypeOK
  <2>7. UntornIsWhole BY <2>2 DEF EvidenceInit, UntornIsWhole
  <2>8. HeldIsStored BY DEF EvidenceInit, HeldIsStored
  <2>9. StepsAreBacked BY DEF EvidenceInit, StepsAreBacked
  <2>10. QED BY <2>3, <2>5, <2>6, <2>7, <2>8, <2>9 DEF EvidenceInvariant
<1>2. EvidenceInvariant /\ [EvidenceNext]_evidenceVars => EvidenceInvariant'
  <2> SUFFICES ASSUME EvidenceInvariant, [EvidenceNext]_evidenceVars
               PROVE  EvidenceInvariant'
    OBVIOUS
  <2>1. CASE Crash BY <2>1, CrashKeepsTheInvariant
  <2>2. CASE Reopen BY <2>2, ReopenKeepsTheInvariant
  <2>3. CASE \/ ParseTrajectory \/ WriteTrajectory \/ VerifyReferences
             \/ \E m \in ModelCalls : TakeTokens(m) \/ LinkCall(m)
    BY <2>3, TrajectoryKeepsTheInvariant
  <2>4. ASSUME NEW c \in Commands,
               \/ Start(c) \/ Write(c) \/ Unlink(c) \/ PutBlob(c) \/ Finish(c)
               \/ RecoverPut(c) \/ RecoverUnlink(c) \/ RecoverLog(c)
        PROVE  EvidenceInvariant'
    BY <2>4, RecorderKeepsTheInvariant, RecoveryKeepsTheInvariant
  <2>5. CASE UNCHANGED evidenceVars
    <3>1. UNCHANGED <<trace, nextSeq, partial, blobs, command, held, torn, steps>>
      BY <2>5 DEF evidenceVars
    <3>2. /\ trace' \in Seq(Lines) /\ nextSeq' \in Sizes
          /\ LinesAreKnown' /\ LinesAreBacked' /\ NamedOnce' /\ LinesAreNumbered' /\ UntornIsWhole'
      BY <3>1, UntouchedTraceIsGood DEF EvidenceInvariant, UntornIsWhole
    <3>3. QED BY <3>1, <3>2 DEF EvidenceInvariant, EvidenceTypeOK, HeldIsStored, StepsAreBacked
  <2>6. QED BY <2>1, <2>2, <2>3, <2>4, <2>5 DEF EvidenceNext
<1>3. QED BY <1>1, <1>2, PTL DEF EvidenceSpec

(* A record that can be read names a blob that is there, no output is       *)
(* recorded twice, the records that can be read are numbered from zero      *)
(* without a gap, and nothing is refused that no torn append explains.      *)
THEOREM EvidenceResolvesHolds == EvidenceSpec => []EvidenceResolves
<1>1. EvidenceInvariant => EvidenceResolves
  <2> SUFFICES ASSUME EvidenceInvariant PROVE EvidenceResolves OBVIOUS
  <2>1. PICK n \in 0 .. Len(trace) : SoundUpTo(n) BY DEF EvidenceInvariant, LinesAreNumbered
  <2>2. Len(trace) \in Nat BY DEF EvidenceInvariant, EvidenceTypeOK
  <2>3. /\ Len(Readable) = n /\ \A i \in 1 .. n : Readable[i] = trace[i]
        /\ n = Len(trace) => Readable = trace
    BY <2>1, SoundLinesAreReadable DEF EvidenceInvariant
  <2>4. \A i \in 1 .. n : i \in 1 .. Len(trace) BY <2>2
  <2>5. \A i \in 1 .. n : /\ Readable[i].blob # <<>> => Readable[i].blob \in blobs
                          /\ Readable[i].seq = i - 1
    BY <2>1, <2>3, <2>4 DEF EvidenceInvariant, LinesAreBacked, SoundUpTo
  <2>6. \A i, j \in 1 .. n : Readable[i].blob = Readable[j].blob /\ Readable[i].blob # <<>> => i = j
    BY <2>3, <2>4 DEF EvidenceInvariant, NamedOnce
  <2>7. ~torn => Readable = trace /\ steps.references # "refused"
    <3>1. ASSUME ~torn, n # Len(trace) PROVE FALSE
      <4>1. n + 1 \in 1 .. Len(trace) /\ Bad(trace[n + 1]) BY <2>1, <2>2, <3>1 DEF SoundUpTo
      <4>2. QED BY <3>1, <4>1 DEF EvidenceInvariant, UntornIsWhole
    <3>2. QED BY <2>3, <3>1 DEF EvidenceInvariant, UntornIsWhole
  <2>8. (steps.linked # {} => steps.written) /\ (steps.written => Payload \in blobs)
    BY DEF EvidenceInvariant, StepsAreBacked
  <2>9. QED BY <2>3, <2>5, <2>6, <2>7, <2>8 DEF EvidenceResolves
<1>2. QED BY <1>1, EvidenceInvariantHolds, PTL

-----------------------------------------------------------------------------
(* Judge calls (Judges).                                                     *)
Outcomes == {"completed", "rejected"} \cup Transient \cup Unusable
Attempts == [mode : {"initial", "schema_repair", "retry"}, prompt : Nat,
             outcome : Outcomes, session : Nat]
Asks     == [kind : {"none", "llm", "codex-cli", "claude-code"}, attempts : Seq(Attempts),
             repair : BOOLEAN, repairs : Nat, failures : Nat, session : Nat, until : Int,
             limit : Int, end : {"none", "open", "failed", "completed"}]

UnusableIn(attempts) == {i \in DOMAIN attempts : attempts[i].outcome \in Unusable}

(* While a call is open, each attempt failed in a way another can mend, and  *)
(* those that were no verdict have been counted.                             *)
JudgesInvariant ==
  /\ budget \in Int /\ clock \in Nat /\ ask \in Asks
  /\ verifier \in {"asking", "sent", "waiting"} => ask.end = "open"
  /\ ask.end = "open" =>
       /\ ask.repairs <= Repairs
       /\ Cardinality(UnusableIn(ask.attempts)) = ask.repairs
(* What a step may do to a call that is open.                                *)
Patient == ask.end = "open" /\ ask'.end = "failed" => Exhausted

(* A call whose last attempt had the outcome o, not yet counted as a repair. *)
Tried(tried, o) ==
  /\ tried \in Asks /\ tried.end = "open" /\ tried.repairs <= Repairs
  /\ tried.attempts # <<>> /\ tried.attempts[Len(tried.attempts)].outcome = o
  /\ Cardinality(UnusableIn(tried.attempts)) = tried.repairs + (IF o \in Unusable THEN 1 ELSE 0)

-----------------------------------------------------------------------------
(* One more attempt is one more answer without a verdict, or none. *)
LEMMA AttemptsAreCounted ==
  ASSUME NEW q \in Seq(Attempts), NEW a \in Attempts
  PROVE  LET s == Append(q, a)
         IN  /\ s \in Seq(Attempts) /\ s # <<>> /\ s[Len(s)] = a
             /\ Cardinality(UnusableIn(q)) \in Nat
             /\ Cardinality(UnusableIn(s))
                  = Cardinality(UnusableIn(q)) + (IF a.outcome \in Unusable THEN 1 ELSE 0)
<1> DEFINE s == Append(q, a)
           n == Len(q) + 1
<1>1. /\ s \in Seq(Attempts) /\ s # <<>> /\ Len(s) = n /\ s[n] = a
      /\ \A i \in 1 .. Len(q) : s[i] = q[i]
  BY AppendProperties
<1>2. /\ Len(q) \in Nat /\ DOMAIN q = 1 .. Len(q) BY LenProperties
<1>3. DOMAIN s = 1 .. n BY <1>1, LenProperties
<1>4. UnusableIn(s) = IF a.outcome \in Unusable THEN UnusableIn(q) \cup {n} ELSE UnusableIn(q)
  BY <1>1, <1>2, <1>3 DEF UnusableIn
<1>5. n \notin UnusableIn(q) BY <1>2 DEF UnusableIn
<1>6. IsFiniteSet(UnusableIn(q))
  <2>1. IsFiniteSet(1 .. Len(q)) BY <1>2, FS_Interval
  <2>2. UnusableIn(q) \subseteq 1 .. Len(q) BY <1>2 DEF UnusableIn
  <2>3. QED BY <2>1, <2>2, FS_Subset
<1>7. Cardinality(UnusableIn(q)) \in Nat BY <1>6, FS_CardinalityType
<1>8. Cardinality(UnusableIn(q) \cup {n}) = Cardinality(UnusableIn(q)) + 1
  BY <1>5, <1>6, FS_AddElement
<1> HIDE DEF s
<1>9. QED BY <1>1, <1>4, <1>7, <1>8 DEF s

(* The attempt that is made is counted once, whatever came of it. *)
LEMMA AttemptIsTried ==
  ASSUME JudgesInvariant, verifier = "sent", NEW o \in Outcomes
  PROVE  Tried(Attempted(o), o)
<1> DEFINE a == [mode |-> Mode, prompt |-> Prompt, outcome |-> o, session |-> ask.session]
<1>1. ask \in Asks /\ ask.attempts \in Seq(Attempts) /\ ask.session \in Nat /\ Len(ask.attempts) \in Nat
  BY LenProperties DEF JudgesInvariant, Asks
<1>2. a \in Attempts /\ a.outcome = o BY <1>1 DEF Attempts, Mode, Prompt
<1>3. Attempted(o) = [ask EXCEPT !.attempts = Append(ask.attempts, a)] BY DEF Attempted
<1> HIDE DEF a
<1>4. /\ Append(ask.attempts, a) \in Seq(Attempts) /\ Append(ask.attempts, a) # <<>>
      /\ Append(ask.attempts, a)[Len(Append(ask.attempts, a))] = a
      /\ Cardinality(UnusableIn(Append(ask.attempts, a)))
           = Cardinality(UnusableIn(ask.attempts)) + (IF o \in Unusable THEN 1 ELSE 0)
  BY <1>1, <1>2, AttemptsAreCounted
<1> DEFINE s == Append(ask.attempts, a)
           tried == [ask EXCEPT !.attempts = s]
<1> HIDE DEF s
<1>5. /\ tried \in Asks /\ tried.attempts = s /\ tried.repairs = ask.repairs /\ tried.end = ask.end
  BY <1>1, <1>4 DEF Asks, s
<1> HIDE DEF tried
<1>6. ask.end = "open" /\ ask.repairs <= Repairs /\ Cardinality(UnusableIn(ask.attempts)) = ask.repairs
  BY DEF JudgesInvariant
<1>7. Tried(tried, o) BY <1>2, <1>4, <1>5, <1>6 DEF Tried, s
<1>8. QED BY <1>3, <1>7 DEF tried, s

(* A change that leaves the attempts and their count alone.                  *)
LEMMA TriedStays ==
  ASSUME NEW tried, NEW o, Tried(tried, o), NEW new \in Asks,
         new.attempts = tried.attempts, new.repairs = tried.repairs, new.end = tried.end
  PROVE  Tried(new, o)
BY DEF Tried

(* Giving up on these conditions is giving up with patience. *)
LEMMA GivesUp ==
  ASSUME JudgesInvariant, NEW tried, NEW o, Tried(tried, o), GiveUp(tried),
         \/ o = "rejected"
         \/ o \in Unusable /\ (tried.repairs = Repairs \/ (Agentic /\ tried.session = 0))
         \/ o \notin Unusable /\ IF Deadline THEN TimeLeft < MaxDelay ELSE tried.failures > PlainRetries
  PROVE  JudgesInvariant' /\ Patient
<1> DEFINE new == [tried EXCEPT !.end = "failed"]
<1>1. /\ new \in Asks /\ new.attempts = tried.attempts /\ new.repairs = tried.repairs
      /\ new.session = tried.session /\ new.failures = tried.failures /\ new.end = "failed"
  BY DEF Tried, Asks
<1>2. ask' = new /\ verifier' = "raised" /\ UNCHANGED <<budget, clock>> BY DEF GiveUp
<1> HIDE DEF new
<1>3. JudgesInvariant' BY <1>1, <1>2 DEF JudgesInvariant
<1>4. Exhausted
  <2>1. ask'.attempts[Len(ask'.attempts)].outcome = o BY <1>1, <1>2 DEF Tried
  <2>2. Cardinality(UnusableIn(ask'.attempts)) = tried.repairs + (IF o \in Unusable THEN 1 ELSE 0)
    BY <1>1, <1>2 DEF Tried
  <2>3. o = "rejected" => o \notin Unusable BY DEF Unusable
  <2>4. CASE o = "rejected" BY <2>1, <2>4 DEF Exhausted, Unusable
  <2>5. CASE o \in Unusable
    BY <1>1, <1>2, <2>1, <2>2, <2>3, <2>5 DEF Exhausted, UnusableIn
  <2>6. CASE o \notin Unusable /\ o # "rejected"
    <3>1. IF Deadline THEN TimeLeft < MaxDelay ELSE ask'.failures > PlainRetries
      BY <1>1, <1>2, <2>6
    <3>2. QED BY <2>1, <2>6, <3>1 DEF Exhausted
  <2>7. QED BY <2>4, <2>5, <2>6
<1>5. QED BY <1>3, <1>4 DEF Patient

(* A judgement that goes on keeps the count of its repairs. *)
LEMMA GoesOn ==
  ASSUME JudgesInvariant, NEW new \in Asks, NEW state, Continue(new, state),
         new.end = "open", new.repairs <= Repairs,
         Cardinality(UnusableIn(new.attempts)) = new.repairs
  PROVE  JudgesInvariant' /\ Patient
BY DEF JudgesInvariant, Continue, Patient

(* After a transient failure the wait is made, or the budget covers none. *)
LEMMA WaitsOrGivesUp ==
  ASSUME JudgesInvariant, NEW tried, NEW o \in Transient, Tried(tried, o), WaitToRetry(tried)
  PROVE  JudgesInvariant' /\ Patient
<1>1. PICK delay \in 1 .. MaxDelay :
        IF MayRetry(tried.failures, delay)
          THEN Continue([tried EXCEPT !.until = After(delay)], "waiting")
          ELSE GiveUp(tried)
  BY DEF WaitToRetry
<1>2. budget \in Int /\ clock \in Nat /\ delay \in Int /\ delay <= MaxDelay
  BY JudgesAssumption DEF JudgesInvariant
<1>3. o \notin Unusable /\ tried \in Asks /\ tried.failures \in Nat
  BY DEF Transient, Unusable, Tried, Asks
<1>4. CASE MayRetry(tried.failures, delay)
  <2> DEFINE new == [tried EXCEPT !.until = After(delay)]
  <2>1. After(delay) \in Int BY <1>2 DEF After
  <2>2. /\ new \in Asks /\ new.attempts = tried.attempts /\ new.repairs = tried.repairs
        /\ new.end = "open"
    BY <2>1, <1>3 DEF Asks, Tried
  <2>3. Continue(new, "waiting") BY <1>1, <1>4
  <2> HIDE DEF new
  <2>4. tried.repairs \in Nat BY <1>3 DEF Asks
  <2>5. QED BY <1>3, <2>2, <2>3, <2>4, GoesOn DEF Tried
<1>5. CASE ~MayRetry(tried.failures, delay)
  <2>1. GiveUp(tried) BY <1>1, <1>5
  <2>2. IF Deadline THEN TimeLeft < MaxDelay ELSE tried.failures > PlainRetries
    BY <1>2, <1>3, <1>5, JudgesAssumption DEF MayRetry, TimeLeft
  <2>3. QED BY <1>3, <2>1, <2>2, GivesUp
<1>6. QED BY <1>4, <1>5

(* A verdict ends the judgement. *)
LEMMA Succeeds ==
  ASSUME JudgesInvariant, NEW tried, NEW o, Tried(tried, o), Completes(tried)
  PROVE  JudgesInvariant' /\ Patient
<1> DEFINE new == [tried EXCEPT !.end = "completed"]
<1>1. new \in Asks /\ new.end = "completed" BY DEF Tried, Asks
<1>2. ask' = new /\ verifier' = "working" /\ UNCHANGED <<budget, clock>> BY DEF Completes
<1> HIDE DEF new
<1>3. QED BY <1>1, <1>2 DEF JudgesInvariant, Patient

(* No judgement has made no attempt. *)
LEMMA NoAskIsTyped == NoAsk \in Asks /\ NoAsk.attempts = <<>> /\ NoAsk.repairs = 0
<1>1. PICK q : q = <<>> OBVIOUS
<1>2. q \in Seq(Attempts) BY <1>1, EmptySeq
<1>3. NoAsk = [kind |-> "none", attempts |-> q, repair |-> FALSE, repairs |-> 0,
               failures |-> 0, session |-> 0, until |-> 0, limit |-> MaxLimit, end |-> "none"]
  BY <1>1 DEF NoAsk
<1>4. NoAsk \in Asks /\ NoAsk.attempts = q /\ NoAsk.repairs = 0
  BY <1>2, <1>3, JudgesAssumption DEF Asks
<1>5. QED BY <1>1, <1>4

(* A call that fails outside of the attempts ends the judgement. *)
LEMMA FailedCallEnds ==
  ASSUME JudgesInvariant, NEW status, NEW by, FailsWith(status, by)
  PROVE  JudgesInvariant' /\ Patient
<1> DEFINE new == [NoAsk EXCEPT !.limit = ask.limit]
<1>1. ask.limit \in Int BY DEF JudgesInvariant, Asks
<1>2. new \in Asks /\ new.end = "none"
  <2>1. NoAsk.end = "none" BY DEF NoAsk
  <2>2. QED BY <1>1, <2>1, NoAskIsTyped DEF Asks
<1>3. ask' = new /\ verifier' = "raised" /\ UNCHANGED <<budget, clock>> BY DEF FailsWith
<1> HIDE DEF new
<1>4. QED BY <1>2, <1>3 DEF JudgesInvariant, Patient

(* A judgement begins with no attempt. *)
LEMMA CallBegins ==
  ASSUME JudgesInvariant, NEW k \in {"llm", "codex-cli", "claude-code"}, Ask(k)
  PROVE  JudgesInvariant' /\ Patient
<1> DEFINE new == [NoAsk EXCEPT !.kind = k, !.end = "open", !.limit = ask.limit]
<1>1. ask.limit \in Int BY DEF JudgesInvariant, Asks
<1>2. /\ new \in Asks /\ new.end = "open" /\ new.attempts = <<>> /\ new.repairs = 0
  BY <1>1, NoAskIsTyped DEF Asks
<1>3. CASE ask' = new /\ verifier' = "asking" /\ UNCHANGED <<budget, clock>>
  <2> HIDE DEF new
  <2>1. UnusableIn(new.attempts) = {} BY <1>2 DEF UnusableIn
  <2>2. Cardinality(UnusableIn(new.attempts)) = 0 BY <2>1, FS_EmptySet
  <2>3. QED BY <1>2, <1>3, <2>2, JudgesAssumption DEF JudgesInvariant, Patient
<1>4. CASE FailsWith("failed", "judge") BY <1>4, FailedCallEnds
<1>5. QED BY <1>3, <1>4 DEF Ask

(* What a model or an agent can answer is one of the outcomes. *)
LEMMA OutcomesAreKnown ==
  /\ LlmOutcomes \subseteq Outcomes
  /\ \A e \in Exits : \A n, x : AgentOutcome(e, n, x) \in {"failed", "rejected", "completed", "invalid"}
<1>1. ASSUME NEW t \in Transport, NEW e \in StreamEnds, NEW x \in Texts
      PROVE  LlmOutcome(t, e, x) \in Outcomes
  <2>1. Post(t) \in {"answered", "rejected", "timed_out", "failed"} BY DEF Post
  <2>2. ReadStream(e) \in {"answered", "failed"} BY DEF ReadStream
  <2>3. ResponseText(x) \in {"completed", "refused", "invalid"} BY DEF ResponseText
  <2>4. QED BY <2>1, <2>2, <2>3 DEF LlmOutcome, Outcomes, Transient, Unusable
<1>2. ASSUME NEW e \in Exits, NEW n, NEW x
      PROVE  AgentOutcome(e, n, x) \in {"failed", "rejected", "completed", "invalid"}
  <2>1. e \in {"no_start", "error", "ended"} BY DEF Exits
  <2>2. QED BY <2>1 DEF AgentOutcome
<1>3. QED BY <1>1, <1>2 DEF LlmOutcomes

(* The loop of a model Judge over what its call gave. *)
LEMMA LlmIsPatient ==
  ASSUME JudgesInvariant, LlmAnswered
  PROVE  JudgesInvariant' /\ Patient
<1>1. PICK o \in LlmOutcomes :
        LET tried == Attempted(o) IN
        CASE o = "completed" -> Completes(tried)
          [] o \in Transient -> WaitToRetry([tried EXCEPT !.failures = @ + 1])
          [] o \in Unusable /\ ask.repairs < Repairs ->
               Continue([tried EXCEPT !.repairs = @ + 1, !.repair = (o = "invalid")], "asking")
          [] OTHER -> GiveUp(tried)
  BY DEF LlmAnswered
<1> DEFINE tried == Attempted(o)
<1>2. o \in Outcomes BY OutcomesAreKnown
<1>3. verifier = "sent" /\ ask.kind = "llm" BY DEF LlmAnswered
<1>4. Tried(tried, o) /\ tried \in Asks BY <1>2, <1>3, AttemptIsTried DEF Tried
<1>5. tried.repairs = ask.repairs /\ ask.repairs <= Repairs /\ ask.repairs \in Nat
  BY <1>3 DEF Attempted, JudgesInvariant, Asks
<1>6. "completed" \notin Transient /\ "completed" \notin Unusable /\ \A x \in Transient : x \notin Unusable
  BY DEF Transient, Unusable
<1> HIDE DEF tried
<1>7. CASE o = "completed"
  <2>1. Completes(tried) BY <1>1, <1>6, <1>7 DEF tried
  <2>2. QED BY <1>4, <2>1, Succeeds
<1>8. CASE o \in Transient
  <2> DEFINE new == [tried EXCEPT !.failures = @ + 1]
  <2>1. WaitToRetry(new) BY <1>1, <1>6, <1>8 DEF tried
  <2>2. /\ new \in Asks /\ new.attempts = tried.attempts /\ new.repairs = tried.repairs
        /\ new.end = tried.end
    BY <1>4 DEF Asks
  <2> HIDE DEF new
  <2>3. Tried(new, o) BY <1>4, <2>2, TriedStays
  <2>4. QED BY <1>8, <2>1, <2>3, WaitsOrGivesUp
<1>9. CASE o \in Unusable /\ ask.repairs < Repairs
  <2> DEFINE flag == (o = "invalid")
             n    == tried.repairs + 1
             new  == [tried EXCEPT !.repairs = n, !.repair = flag]
  <2>1. Continue(new, "asking") BY <1>1, <1>6, <1>9 DEF tried
  <2>6. flag \in BOOLEAN /\ n \in Nat /\ tried.end = "open" BY <1>4 DEF Asks, Tried
  <2> HIDE DEF flag, n
  <2>2. /\ new \in Asks /\ new.attempts = tried.attempts /\ new.repairs = n
        /\ new.end = "open"
    BY <1>4, <2>6 DEF Asks
  <2> HIDE DEF new
  <2>3. Cardinality(UnusableIn(new.attempts)) = new.repairs BY <1>4, <1>9, <2>2 DEF Tried, n
  <2>4. new.repairs <= Repairs BY <1>5, <1>9, <2>2, JudgesAssumption DEF n
  <2>5. QED BY <2>1, <2>2, <2>3, <2>4, GoesOn
<1>10. CASE o = "rejected" \/ (o \in Unusable /\ ~(ask.repairs < Repairs))
  <2>1. "rejected" \notin Transient /\ "rejected" \notin Unusable /\ "rejected" # "completed"
    BY DEF Transient, Unusable
  <2>2. GiveUp(tried) BY <1>1, <1>6, <1>10, <2>1 DEF tried
  <2>3. o = "rejected" \/ (o \in Unusable /\ tried.repairs = Repairs)
    BY <1>5, <1>10, JudgesAssumption
  <2>4. QED BY <1>4, <2>2, <2>3, GivesUp
<1>11. QED BY <1>2, <1>7, <1>8, <1>9, <1>10 DEF Outcomes

(* A new session of an agent Judge keeps the count of the attempts. *)
LEMMA FreshSessionIsTried ==
  ASSUME NEW tried, NEW o, Tried(tried, o)
  PROVE  Tried(FreshSession(tried), o)
<1> DEFINE n   == tried.failures + 1
           new == [tried EXCEPT !.failures = n, !.session = 0, !.repair = FALSE]
<1>1. tried \in Asks /\ n \in Nat BY DEF Tried, Asks
<1>2. FreshSession(tried) = new BY <1>1 DEF FreshSession, Asks
<1> HIDE DEF n
<1>3. /\ new \in Asks /\ new.attempts = tried.attempts /\ new.repairs = tried.repairs
      /\ new.end = tried.end
  BY <1>1 DEF Asks
<1> HIDE DEF new
<1>4. Tried(new, o) BY <1>3, TriedStays
<1>5. QED BY <1>2, <1>4

(* The loop of an agent Judge over how its process ended. *)
LEMMA AgentIsPatient ==
  ASSUME JudgesInvariant, AgentAnswered \/ AgentTimesOut
  PROVE  JudgesInvariant' /\ Patient
<1>1. verifier = "sent" /\ Agentic BY DEF AgentAnswered, AgentTimesOut
<1>2. CASE AgentTimesOut
  <2>1. "timed_out" \in Transient /\ "timed_out" \in Outcomes BY DEF Transient, Outcomes
  <2>2. Tried(FreshSession(Attempted("timed_out")), "timed_out")
    BY <1>1, <2>1, AttemptIsTried, FreshSessionIsTried
  <2>3. QED BY <1>2, <2>1, <2>2, WaitsOrGivesUp DEF AgentTimesOut
<1>3. CASE AgentAnswered
  <2>1. PICK e \in Exits, n \in NamedSessions, x \in {"valid", "off_schema"} :
          LET o == AgentOutcome(e, n, x)
              tried == [Attempted(o) EXCEPT !.session = Session(n)] IN
          CASE o = "completed" -> Completes(tried)
            [] o = "failed"    -> WaitToRetry(FreshSession(tried))
            [] o = "invalid" /\ Session(n) # 0 /\ ask.repairs < Repairs ->
                 Continue([tried EXCEPT !.repairs = @ + 1, !.repair = TRUE], "asking")
            [] OTHER -> GiveUp(tried)
    BY <1>3 DEF AgentAnswered
  <2> DEFINE o     == AgentOutcome(e, n, x)
             tried == [Attempted(o) EXCEPT !.session = Session(n)]
  <2>2. o \in {"failed", "rejected", "completed", "invalid"} BY OutcomesAreKnown
  <2>3. o \in Outcomes BY <2>2 DEF Outcomes, Transient, Unusable
  <2> HIDE DEF o
  <2>4. Session(n) \in Nat
    <3>1. ask.session \in Nat /\ Len(ask.attempts) \in Nat
      BY LenProperties DEF JudgesInvariant, Asks
    <3>2. QED BY <3>1 DEF Session
  <2>5. Tried(Attempted(o), o) BY <1>1, <2>3, AttemptIsTried
  <2>6. /\ tried \in Asks /\ tried.attempts = Attempted(o).attempts
        /\ tried.repairs = Attempted(o).repairs /\ tried.end = Attempted(o).end
        /\ tried.session = Session(n)
    BY <2>4, <2>5 DEF Tried, Asks
  <2>7. Attempted(o).repairs = ask.repairs BY DEF Attempted, JudgesInvariant, Asks
  <2>8. ask.repairs <= Repairs /\ ask.repairs \in Nat BY <1>1 DEF JudgesInvariant, Asks
  <2> HIDE DEF tried
  <2>9. Tried(tried, o) BY <2>5, <2>6, TriedStays
  <2>10. CASE o = "completed"
    <3>1. Completes(tried) BY <2>1, <2>10 DEF tried, o
    <3>2. QED BY <2>9, <3>1, Succeeds
  <2>11. CASE o = "failed"
    <3>1. WaitToRetry(FreshSession(tried)) BY <2>1, <2>11 DEF tried, o
    <3>2. o \in Transient BY <2>11 DEF Transient
    <3>3. QED BY <2>9, <3>1, <3>2, FreshSessionIsTried, WaitsOrGivesUp
  <2>12. CASE o = "invalid" /\ Session(n) # 0 /\ ask.repairs < Repairs
    <3> DEFINE m   == tried.repairs + 1
               new == [tried EXCEPT !.repairs = m, !.repair = TRUE]
    <3>1. Continue(new, "asking") BY <2>1, <2>12 DEF tried, o
    <3>7. tried \in Asks /\ tried.end = "open" /\ m \in Nat BY <2>9 DEF Asks, Tried
    <3> HIDE DEF m
    <3>2. /\ new \in Asks /\ new.attempts = tried.attempts /\ new.repairs = m
          /\ new.end = "open"
      BY <3>7 DEF Asks
    <3> HIDE DEF new
    <3>3. o \in Unusable BY <2>12 DEF Unusable
    <3>4. Cardinality(UnusableIn(new.attempts)) = new.repairs BY <2>9, <3>2, <3>3 DEF Tried, m
    <3>5. new.repairs <= Repairs BY <2>6, <2>7, <2>8, <2>12, <3>2, JudgesAssumption DEF m
    <3>6. QED BY <3>1, <3>2, <3>4, <3>5, GoesOn
  <2>13. CASE o = "rejected" \/ (o = "invalid" /\ ~(Session(n) # 0 /\ ask.repairs < Repairs))
    <3>1. GiveUp(tried) BY <2>1, <2>13 DEF tried, o
    <3>2. \/ o = "rejected"
          \/ o \in Unusable /\ (tried.repairs = Repairs \/ (Agentic /\ tried.session = 0))
      BY <1>1, <2>6, <2>7, <2>8, <2>13, JudgesAssumption DEF Unusable
    <3>3. QED BY <2>9, <3>1, <3>2, GivesUp
  <2>14. QED BY <2>2, <2>10, <2>11, <2>12, <2>13
<1>4. QED BY <1>2, <1>3

(* Without time left an agent Judge is not asked again.                      *)
LEMMA SendIsPatient ==
  ASSUME JudgesInvariant, Send
  PROVE  JudgesInvariant' /\ Patient
<1>1. /\ verifier = "asking" /\ ask \in Asks /\ ask.end = "open" /\ budget \in Int /\ clock \in Nat
      /\ ask.attempts \in Seq(Attempts) /\ Len(ask.attempts) \in Nat
      /\ Cardinality(UnusableIn(ask.attempts)) = ask.repairs
  BY LenProperties DEF Send, JudgesInvariant, Asks
<1>2. CASE Agentic /\ Index > 1 /\ Deadline /\ TimeLeft <= 0 /\ GiveUp(ask)
  <2> DEFINE new == [ask EXCEPT !.end = "failed"]
  <2>1. new \in Asks /\ new.end = "failed" /\ new.attempts = ask.attempts BY <1>1 DEF Asks
  <2>2. ask' = new /\ verifier' = "raised" /\ UNCHANGED <<budget, clock>> BY <1>2 DEF GiveUp
  <2> HIDE DEF new
  <2>3. JudgesInvariant' BY <1>1, <2>1, <2>2 DEF JudgesInvariant
  <2>4. TimeLeft < MaxDelay BY <1>1, <1>2, JudgesAssumption DEF TimeLeft
  <2>5. Exhausted BY <1>2, <2>4 DEF Exhausted
  <2>6. QED BY <2>3, <2>5 DEF Patient
<1>3. CASE Continue([ask EXCEPT
             !.session = IF ask.kind = "claude-code" /\ @ = 0 THEN Index ELSE @,
             !.until   = After(IF TimeLeft > 1 THEN TimeLeft ELSE 1)], "sent")
  <2> DEFINE session == IF ask.kind = "claude-code" /\ ask.session = 0 THEN Index ELSE ask.session
             until   == After(IF TimeLeft > 1 THEN TimeLeft ELSE 1)
             new     == [ask EXCEPT !.session = session, !.until = until]
  <2>1. session \in Nat BY <1>1 DEF Index, Asks
  <2>2. TimeLeft \in Int BY <1>1, JudgesAssumption DEF TimeLeft
  <2>3. until \in Int BY <1>1, <2>2 DEF After
  <2>4. Continue(new, "sent") BY <1>3
  <2> HIDE DEF session, until
  <2>5. /\ new \in Asks /\ new.end = "open" /\ new.attempts = ask.attempts /\ new.repairs = ask.repairs
    BY <1>1, <2>1, <2>3 DEF Asks
  <2> HIDE DEF new
  <2>6. new.repairs <= Repairs BY <1>1, <2>5 DEF JudgesInvariant
  <2>7. QED BY <1>1, <2>4, <2>5, <2>6, GoesOn
<1>4. QED BY <1>2, <1>3 DEF Send

(* Every step of a Judge keeps the count, and gives up with patience only. *)
LEMMA JudgesStep ==
  ASSUME JudgesInvariant, JudgesNext
  PROVE  JudgesInvariant' /\ Patient
<1>1. CASE Misasked BY <1>1, FailedCallEnds DEF Misasked
<1>2. CASE ClockSet BY <1>2, FailedCallEnds DEF ClockSet
<1>3. CASE \E k \in {"llm", "codex-cli", "claude-code"} : Ask(k) BY <1>3, CallBegins
<1>4. CASE LowerLimit
  <2> DEFINE new == [ask EXCEPT !.limit = @ - 1]
  <2>1. ask \in Asks /\ ask.end = "open" BY <1>4 DEF LowerLimit, JudgesInvariant
  <2>2. /\ new \in Asks /\ new.end = "open" /\ new.attempts = ask.attempts /\ new.repairs = ask.repairs
    BY <2>1 DEF Asks
  <2>3. Continue(new, "sent") BY <1>4 DEF LowerLimit
  <2> HIDE DEF new
  <2>4. QED BY <2>1, <2>2, <2>3, GoesOn DEF JudgesInvariant
<1>5. CASE Wake
  <2>1. Continue(ask, "asking") /\ ask.end = "open" BY <1>5 DEF Wake, JudgesInvariant
  <2>2. QED BY <2>1, GoesOn DEF JudgesInvariant
<1>6. CASE Tick BY <1>6 DEF Tick, callVars, JudgesInvariant, Patient
<1>7. CASE WriteRecord \/ WriteReward \/ WriteFails \/ WriteRewardAlone \/ Handle \/ Exit \/ Killed
           \/ ConcludeVerification
  BY <1>7 DEF WriteRecord, WriteReward, WriteFails, WriteRewardAlone, Handle, Exit, Killed,
              ConcludeVerification, callVars, JudgesInvariant, Patient
<1>8. QED
  BY <1>1, <1>2, <1>3, <1>4, <1>5, <1>6, <1>7, SendIsPatient, LlmIsPatient, AgentIsPatient
  DEF JudgesNext

(* JudgesInvariant holds of every verifier: an open call has counted each     *)
(* answer that was no verdict, and no more of them than it may repair.       *)
THEOREM JudgesInvariantHolds == JudgesSpec => []JudgesInvariant
<1>1. JudgesInit => JudgesInvariant
  <2> SUFFICES ASSUME JudgesInit PROVE JudgesInvariant OBVIOUS
  <2>1. budget \in Int BY JudgesAssumption DEF JudgesInit
  <2>2. NoAsk.end = "none" BY DEF NoAsk
  <2>3. QED BY <2>1, <2>2, NoAskIsTyped DEF JudgesInit, JudgesInvariant
<1>2. JudgesInvariant /\ [JudgesNext]_judgeVars => JudgesInvariant'
  <2>1. ASSUME JudgesInvariant, UNCHANGED judgeVars PROVE JudgesInvariant'
    BY <2>1 DEF judgeVars, callVars, JudgesInvariant
  <2>2. QED BY <2>1, JudgesStep
<1>3. QED BY <1>1, <1>2, PTL DEF JudgesSpec

(* A Judge gives up only when nothing is left to try, whatever its budget,    *)
(* its repairs and the order in which its attempts fail.                     *)
THEOREM JudgesArePatientHolds == JudgesSpec => JudgesArePatient
<1>1. JudgesInvariant /\ [JudgesNext]_judgeVars
        => [ask.end = "open" /\ ask'.end = "failed" => Exhausted]_judgeVars
  BY JudgesStep DEF Patient
<1>2. QED BY <1>1, JudgesInvariantHolds, PTL DEF JudgesSpec, JudgesArePatient

-----------------------------------------------------------------------------
(* The subagents of a solver (Delegations)                                *)

(* What the calls and the history of a session are made of. *)
CallRecords == [by : Nat, to : Nat \ {0}, goal : Goals, process : {1, 2}]
EventRecords == [is : {"call", "says", "answer"}, of : Nat]
DelegationsTypeOK ==
  /\ cli \in Spawners /\ calls \in Seq(CallRecords) /\ history \in Seq(EventRecords)
  /\ process \in {1, 2} /\ told.made \in BOOLEAN

(* The children are numbered as they come, and a child is asked by its parent alone. *)
ChildrenAreCounted == \E n \in 0 .. Len(calls) : Children = 1 .. n
ParentsStay == \A c \in Children : \A k \in CallsTo(c) : calls[k].by = Parent(c)
(* Claude's children have none; OpenHands resumes a child in the process that began it. *)
ClaudeIsFlat == cli = "claude_code" => \A k \in DOMAIN calls : calls[k].by = 0
TasksStay ==
  cli = "openhands_cli" =>
    \A c \in Children : \A k \in CallsTo(c) : calls[k].process = calls[FirstTo(c)].process
(* What was called and answered is in the history, in the processes there were. *)
CallsHappened ==
  /\ \A k \in DOMAIN calls : Happened("call", k) /\ calls[k].process <= process
  /\ \A i \in DOMAIN history :
       IF history[i].is = "says" THEN history[i].of \in Children ELSE history[i].of \in DOMAIN calls
(* A child that speaks while a call is open was called in the process of that call. *)
Joined(k, c) == \E m \in CallsTo(c) : calls[m].process = calls[k].process
SaysAreJoined ==
  \A p, i \in DOMAIN history : \A k \in DOMAIN calls, c \in Children :
    history[p] = Event("call", k) /\ p <= i /\ history[i] = Event("says", c) =>
      /\ k \notin Answered /\ calls[k].process = process => Joined(k, c)
      /\ \A q \in DOMAIN history : i <= q /\ history[q] = Event("answer", k) => Joined(k, c)

(* The inductive invariant.  DelegationsAreTold is about one conversion; why the links it
   makes are right depends on all that was called, said and answered before it. *)
DelegationsInvariant ==
  /\ DelegationsTypeOK /\ ChildrenAreCounted /\ ParentsStay /\ ClaudeIsFlat /\ TasksStay
  /\ CallsHappened /\ SaysAreJoined /\ DelegationsAreTold

(* A set of naturals has a least one. *)
LEMMA LeastNatural ==
  ASSUME NEW T, T \subseteq Nat, T # {}
  PROVE  \E m \in T : \A k \in T : m <= k
<1> DEFINE Less == {p \in Nat \X Nat : p[1] < p[2]}
<1>1. IsWellFoundedOn(Less, Nat)
  <2>1. Less = OpToRel(<, Nat) BY DEF OpToRel
  <2>2. QED BY <2>1, NatLessThanWellFounded, Zenon
<1> HIDE DEF Less
<1>2. PICK m \in T : \A k \in T : ~ (<<k, m>> \in Less) BY <1>1, WFMin, Zenon
<1>3. \A k \in Nat : k < m => <<k, m>> \in Less BY DEF Less
<1>4. ASSUME NEW k \in T PROVE m <= k
  <2>1. k \in Nat /\ m \in Nat OBVIOUS
  <2>2. ~ (k < m) BY <1>2, <1>3, <2>1
  <2>3. QED BY <2>1, <2>2
<1>5. QED BY <1>4

(* The first call to a child is one of the calls to it, and before the others. *)
LEMMA FirstOfCalls ==
  ASSUME calls \in Seq(CallRecords), NEW c \in Children
  PROVE  /\ FirstTo(c) \in CallsTo(c) /\ FirstTo(c) \in DOMAIN calls /\ calls[FirstTo(c)].to = c
         /\ \A l \in CallsTo(c) : FirstTo(c) <= l
<1>1. CallsTo(c) \subseteq Nat /\ CallsTo(c) # {} /\ CallsTo(c) \subseteq DOMAIN calls
  BY DEF CallsTo, Children
<1>2. \E k \in CallsTo(c) : \A l \in CallsTo(c) : k <= l BY <1>1, LeastNatural
<1>3. FirstTo(c) \in CallsTo(c) /\ \A l \in CallsTo(c) : FirstTo(c) <= l
  <2>1. FirstTo(c) = CHOOSE k \in CallsTo(c) : \A l \in CallsTo(c) : k <= l BY DEF FirstTo
  <2>2. QED BY <1>2, <2>1, Zenon
<1>4. QED BY <1>1, <1>3 DEF CallsTo

(* A call more changes nothing of the calls there are, nor which of them was first. *)
LEMMA CallsGrow ==
  ASSUME calls \in Seq(CallRecords), NEW e \in CallRecords, calls' = Append(calls, e)
  PROVE  /\ calls' \in Seq(CallRecords) /\ Len(calls) \in Nat /\ Len(calls') = Len(calls) + 1
         /\ DOMAIN calls = 1 .. Len(calls) /\ DOMAIN calls' = 1 .. Len(calls) + 1
         /\ calls'[Len(calls) + 1] = e
         /\ \A k \in DOMAIN calls : k \in DOMAIN calls' /\ calls'[k] = calls[k]
         /\ \A k \in DOMAIN calls' : k \in DOMAIN calls \/ k = Len(calls) + 1
         /\ Children' = Children \cup {e.to}
         /\ \A c : CallsTo(c) \subseteq CallsTo(c)'
         /\ \A c \in Children : FirstTo(c)' = FirstTo(c)
         /\ e.to \notin Children => FirstTo(e.to)' = Len(calls) + 1
<1>1. /\ calls' \in Seq(CallRecords) /\ Len(calls) \in Nat /\ Len(calls') = Len(calls) + 1
      /\ DOMAIN calls = 1 .. Len(calls) /\ DOMAIN calls' = 1 .. Len(calls) + 1
      /\ calls'[Len(calls) + 1] = e
      /\ \A k \in DOMAIN calls : calls'[k] = calls[k]
  BY AppendProperties
<1>2. /\ \A k \in DOMAIN calls : k \in DOMAIN calls'
      /\ \A k \in DOMAIN calls' : k \in DOMAIN calls \/ k = Len(calls) + 1
      /\ Len(calls) + 1 \in DOMAIN calls'
  BY <1>1
<1>3. Children' = Children \cup {e.to} BY <1>1, <1>2 DEF Children
<1>4. ASSUME NEW c PROVE CallsTo(c) \subseteq CallsTo(c)' BY <1>1, <1>2 DEF CallsTo
<1>5. ASSUME NEW c \in Children PROVE FirstTo(c)' = FirstTo(c)
  <2>1. /\ FirstTo(c) \in CallsTo(c) /\ FirstTo(c) \in DOMAIN calls
        /\ \A l \in CallsTo(c) : FirstTo(c) <= l
    BY FirstOfCalls
  <2>2. FirstTo(c) \in CallsTo(c)' BY <1>4, <2>1
  <2>3. ASSUME NEW l \in CallsTo(c)' PROVE FirstTo(c) <= l /\ l \in Nat
    <3>1. l \in DOMAIN calls' /\ calls'[l].to = c BY DEF CallsTo
    <3>2. CASE l \in DOMAIN calls
      <4>1. l \in CallsTo(c) BY <1>1, <3>1, <3>2 DEF CallsTo
      <4>2. QED BY <1>1, <2>1, <3>2, <4>1
    <3>3. CASE l = Len(calls) + 1 BY <1>1, <2>1, <3>3
    <3>4. QED BY <1>2, <3>1, <3>2, <3>3
  <2>4. ASSUME NEW m \in CallsTo(c)', \A l \in CallsTo(c)' : m <= l PROVE m = FirstTo(c)
    <3>1. m <= FirstTo(c) /\ FirstTo(c) <= m /\ m \in Nat BY <2>2, <2>3, <2>4
    <3>2. FirstTo(c) \in Nat BY <1>1, <2>1
    <3>3. QED BY <3>1, <3>2
  <2>5. FirstTo(c)' = CHOOSE k \in CallsTo(c)' : \A l \in CallsTo(c)' : k <= l BY DEF FirstTo
  <2>6. \E m \in CallsTo(c)' : \A l \in CallsTo(c)' : m <= l BY <2>2, <2>3
  <2>7. QED BY <2>4, <2>5, <2>6, Zenon
<1>6. ASSUME e.to \notin Children PROVE FirstTo(e.to)' = Len(calls) + 1
  <2>1. CallsTo(e.to)' = {Len(calls) + 1}
    <3>1. \A l \in CallsTo(e.to)' : l = Len(calls) + 1
      BY <1>1, <1>2, <1>6 DEF CallsTo, Children
    <3>2. Len(calls) + 1 \in CallsTo(e.to)' BY <1>1, <1>2 DEF CallsTo
    <3>3. QED BY <3>1, <3>2
  <2>2. Len(calls) + 1 <= Len(calls) + 1 BY <1>1
  <2>3. FirstTo(e.to)' = CHOOSE k \in CallsTo(e.to)' : \A l \in CallsTo(e.to)' : k <= l BY DEF FirstTo
  <2>4. QED BY <2>1, <2>2, <2>3, Zenon
<1>7. QED BY <1>1, <1>2, <1>3, <1>4, <1>5, <1>6

(* What comes more in the history leaves what was there. *)
LEMMA HistoryGrows ==
  ASSUME history \in Seq(EventRecords), NEW e \in EventRecords, history' = Append(history, e)
  PROVE  /\ history' \in Seq(EventRecords) /\ Len(history) \in Nat
         /\ DOMAIN history = 1 .. Len(history) /\ DOMAIN history' = 1 .. Len(history) + 1
         /\ history'[Len(history) + 1] = e
         /\ \A i \in DOMAIN history : i \in DOMAIN history' /\ history'[i] = history[i] /\ i <= Len(history)
         /\ \A i \in DOMAIN history' : i \in DOMAIN history \/ i = Len(history) + 1
         /\ \A is, of : Happened(is, of)' <=> Happened(is, of) \/ e = Event(is, of)
<1>1. /\ history' \in Seq(EventRecords) /\ Len(history) \in Nat
      /\ DOMAIN history = 1 .. Len(history) /\ DOMAIN history' = 1 .. Len(history) + 1
      /\ history'[Len(history) + 1] = e
      /\ \A i \in DOMAIN history : history'[i] = history[i]
  BY AppendProperties
<1>2. /\ \A i \in DOMAIN history : i \in DOMAIN history' /\ i <= Len(history)
      /\ \A i \in DOMAIN history' : i \in DOMAIN history \/ i = Len(history) + 1
      /\ Len(history) + 1 \in DOMAIN history'
  BY <1>1
<1>3. ASSUME NEW is, NEW of PROVE Happened(is, of)' <=> Happened(is, of) \/ e = Event(is, of)
  <2>1. Event(is, of)' = Event(is, of) BY DEF Event
  <2>2. Happened(is, of)' <=> \E i \in DOMAIN history' : history'[i] = Event(is, of)
    BY <2>1 DEF Happened
  <2>3. QED BY <1>1, <1>2, <2>2 DEF Happened
<1>4. QED BY <1>1, <1>2, <1>3

(* The numbers of the children there are; the next one is new. *)
LEMMA NextChildIsNew ==
  ASSUME DelegationsTypeOK, ChildrenAreCounted
  PROVE  /\ Cardinality(Children) \in 0 .. Len(calls) /\ Children = 1 .. Cardinality(Children)
         /\ Cardinality(Children) + 1 \notin Children /\ 0 \notin Children
         /\ Cardinality(Children) + 1 \in Nat \ {0} /\ Children \subseteq Nat
<1>1. PICK n \in 0 .. Len(calls) : Children = 1 .. n BY DEF ChildrenAreCounted
<1>2. n \in Nat /\ Cardinality(1 .. n) = n BY FS_Interval
<1>3. QED BY <1>1, <1>2

(* A new child has the next number; one that is asked again has its parent and, with
   OpenHands, its process. *)
LEMMA CallKeeps ==
  ASSUME DelegationsInvariant, Call PROVE DelegationsInvariant'
<1>1. /\ DelegationsTypeOK /\ ChildrenAreCounted /\ ParentsStay /\ ClaudeIsFlat /\ TasksStay
      /\ CallsHappened /\ SaysAreJoined
  BY DEF DelegationsInvariant
<1>2. /\ cli' = cli /\ process' = process /\ told' = told /\ ~ told.made BY DEF Call
<1>3a. PICK a \in {0} \cup (IF cli \in Nesting THEN Children ELSE {}) :
         \E c \in {Cardinality(Children) + 1} \cup
              (IF cli \in Resuming THEN {d \in Resumable : Parent(d) = a /\ ~Working(d)} ELSE {}) :
         \E g \in (IF cli = "hermes" THEN Goals ELSE {CHOOSE g \in Goals : TRUE}) :
           /\ calls' = Append(calls, [by |-> a, to |-> c, goal |-> g, process |-> process])
           /\ history' = Append(history, Event("call", Len(calls) + 1))
  BY DEF Call
<1>3b. PICK c \in {Cardinality(Children) + 1} \cup
              (IF cli \in Resuming THEN {d \in Resumable : Parent(d) = a /\ ~Working(d)} ELSE {}) :
         \E g \in (IF cli = "hermes" THEN Goals ELSE {CHOOSE g \in Goals : TRUE}) :
           /\ calls' = Append(calls, [by |-> a, to |-> c, goal |-> g, process |-> process])
           /\ history' = Append(history, Event("call", Len(calls) + 1))
  BY <1>3a
<1>3. PICK g \in (IF cli = "hermes" THEN Goals ELSE {CHOOSE g \in Goals : TRUE}) :
           /\ calls' = Append(calls, [by |-> a, to |-> c, goal |-> g, process |-> process])
           /\ history' = Append(history, Event("call", Len(calls) + 1))
  BY <1>3b
<1>4. c = Cardinality(Children) + 1 \/ (c \in Children /\ c \in Resumable /\ Parent(c) = a)
  BY <1>3 DEF Resumable
<1>5. /\ Cardinality(Children) \in 0 .. Len(calls) /\ Children = 1 .. Cardinality(Children)
      /\ Cardinality(Children) + 1 \notin Children /\ 0 \notin Children
      /\ Cardinality(Children) + 1 \in Nat \ {0} /\ Children \subseteq Nat
  BY <1>1, NextChildIsNew
<1>6. a \in Nat /\ c \in Nat \ {0} /\ g \in Goals /\ process \in {1, 2}
  <2>1. g \in Goals BY DelegationsAssumption, <1>3
  <2>2. QED BY <1>1, <1>3, <1>4, <1>5, <2>1 DEF DelegationsTypeOK
<1> DEFINE e == [by |-> a, to |-> c, goal |-> g, process |-> process]
<1>7. e \in CallRecords /\ e.by = a /\ e.to = c /\ e.process = process /\ calls' = Append(calls, e)
  BY <1>3, <1>6 DEF CallRecords
<1> HIDE DEF e
<1>8. /\ calls' \in Seq(CallRecords) /\ Len(calls) \in Nat /\ Len(calls') = Len(calls) + 1
      /\ DOMAIN calls = 1 .. Len(calls) /\ DOMAIN calls' = 1 .. Len(calls) + 1
      /\ calls'[Len(calls) + 1] = e
      /\ \A k \in DOMAIN calls : k \in DOMAIN calls' /\ calls'[k] = calls[k]
      /\ \A k \in DOMAIN calls' : k \in DOMAIN calls \/ k = Len(calls) + 1
      /\ Children' = Children \cup {c}
      /\ \A d : CallsTo(d) \subseteq CallsTo(d)'
      /\ \A d \in Children : FirstTo(d)' = FirstTo(d)
      /\ c \notin Children => FirstTo(c)' = Len(calls) + 1
  BY <1>1, <1>7, CallsGrow DEF DelegationsTypeOK
<1>9. Event("call", Len(calls) + 1) \in EventRecords BY <1>8 DEF Event, EventRecords
<1>10. /\ history' \in Seq(EventRecords) /\ Len(history) \in Nat
       /\ DOMAIN history = 1 .. Len(history) /\ DOMAIN history' = 1 .. Len(history) + 1
       /\ history'[Len(history) + 1] = Event("call", Len(calls) + 1)
       /\ \A i \in DOMAIN history : i \in DOMAIN history' /\ history'[i] = history[i] /\ i <= Len(history)
       /\ \A i \in DOMAIN history' : i \in DOMAIN history \/ i = Len(history) + 1
       /\ \A is, of : Happened(is, of)' <=> Happened(is, of) \/ Event("call", Len(calls) + 1) = Event(is, of)
  BY <1>1, <1>3, <1>9, HistoryGrows DEF DelegationsTypeOK
<1>11. DelegationsTypeOK' BY <1>1, <1>2, <1>8, <1>10 DEF DelegationsTypeOK
<1>12. ChildrenAreCounted'
  <2>1. CASE c = Cardinality(Children) + 1
    <3>1. Children' = 1 .. Cardinality(Children) + 1 BY <1>5, <1>8, <2>1
    <3>2. Cardinality(Children) + 1 \in 0 .. Len(calls') BY <1>5, <1>8
    <3>3. QED BY <3>1, <3>2 DEF ChildrenAreCounted
  <2>2. CASE c \in Children
    <3>1. Children' = Children BY <1>8, <2>2
    <3>2. Cardinality(Children) \in 0 .. Len(calls') BY <1>5, <1>8
    <3>3. QED BY <1>5, <3>1, <3>2 DEF ChildrenAreCounted
  <2>3. QED BY <1>4, <2>1, <2>2
<1>13. ASSUME NEW d \in Children
       PROVE  Parent(d)' = Parent(d) /\ calls'[FirstTo(d)'] = calls[FirstTo(d)]
  <2>1. FirstTo(d) \in DOMAIN calls BY <1>1, FirstOfCalls DEF DelegationsTypeOK
  <2>2. QED BY <1>8, <2>1 DEF Parent
<1>14. ASSUME NEW k \in DOMAIN calls
       PROVE  k \in DOMAIN calls' /\ calls'[k] = calls[k] /\ calls[k].to \in Children
  BY <1>8 DEF Children
<1>15. ASSUME NEW d \in Children', NEW k \in CallsTo(d)'
       PROVE  /\ k \in DOMAIN calls' /\ calls'[k].to = d
              /\ \/ d \in Children /\ k \in CallsTo(d) /\ calls'[k] = calls[k]
                 \/ d = c /\ c \in Children /\ k = Len(calls) + 1
                 \/ d = c /\ c \notin Children /\ k = Len(calls) + 1 /\ FirstTo(d)' = k
  <2>1. k \in DOMAIN calls' /\ calls'[k].to = d BY DEF CallsTo
  <2>2. CASE k \in DOMAIN calls
    <3>1. calls'[k] = calls[k] /\ calls[k].to = d /\ d \in Children BY <1>14, <2>1, <2>2
    <3>2. k \in CallsTo(d) BY <2>2, <3>1 DEF CallsTo
    <3>3. QED BY <2>1, <3>1, <3>2
  <2>3. CASE k = Len(calls) + 1
    <3>1. d = c BY <1>7, <1>8, <2>1, <2>3
    <3>2. QED BY <1>8, <2>1, <2>3, <3>1
  <2>4. QED BY <1>8, <2>1, <2>2, <2>3
<1>21. ParentsStay'
  <2>1. ASSUME NEW d \in Children', NEW k \in CallsTo(d)' PROVE calls'[k].by = Parent(d)'
    <3>1. CASE d \in Children /\ k \in CallsTo(d) /\ calls'[k] = calls[k]
      BY <1>1, <1>13, <3>1 DEF ParentsStay
    <3>2. CASE d = c /\ c \in Children /\ k = Len(calls) + 1
      <4>1. Parent(d)' = Parent(c) /\ Parent(c) = a BY <1>4, <1>5, <1>13, <3>2
      <4>2. QED BY <1>7, <1>8, <3>2, <4>1
    <3>3. CASE FirstTo(d)' = k BY <3>3 DEF Parent
    <3>4. QED BY <1>15, <3>1, <3>2, <3>3
  <2>2. QED BY <2>1 DEF ParentsStay
<1>16. ClaudeIsFlat'
  <2>1. ASSUME cli = "claude_code", NEW k \in DOMAIN calls' PROVE calls'[k].by = 0
    <3>1. a = 0 BY <1>3, <2>1 DEF Nesting
    <3>2. QED BY <1>1, <1>7, <1>8, <2>1, <3>1 DEF ClaudeIsFlat
  <2>2. QED BY <1>2, <2>1 DEF ClaudeIsFlat
<1>17. TasksStay'
  <2>1. ASSUME cli = "openhands_cli", NEW d \in Children', NEW k \in CallsTo(d)'
        PROVE  calls'[k].process = calls'[FirstTo(d)'].process
    <3>1. CASE d \in Children /\ k \in CallsTo(d) /\ calls'[k] = calls[k]
      BY <1>1, <1>13, <2>1, <3>1 DEF TasksStay
    <3>2. CASE d = c /\ c \in Children /\ k = Len(calls) + 1
      <4>1. calls[FirstTo(c)].process = process BY <1>4, <1>5, <2>1, <3>2 DEF Resumable
      <4>2. calls'[FirstTo(d)'] = calls[FirstTo(c)] BY <1>13, <3>2
      <4>3. QED BY <1>7, <1>8, <3>2, <4>1, <4>2
    <3>3. CASE FirstTo(d)' = k BY <3>3
    <3>4. QED BY <1>15, <3>1, <3>2, <3>3
  <2>2. QED BY <1>2, <2>1 DEF TasksStay
<1>18. CallsHappened'
  <2>1. ASSUME NEW k \in DOMAIN calls' PROVE Happened("call", k)' /\ calls'[k].process <= process
    BY <1>1, <1>6, <1>7, <1>8, <1>10, <2>1 DEF CallsHappened
  <2>2. ASSUME NEW i \in DOMAIN history'
        PROVE  IF history'[i].is = "says" THEN history'[i].of \in Children' ELSE history'[i].of \in DOMAIN calls'
    <3>1. CASE i \in DOMAIN history BY <1>1, <1>8, <1>10, <3>1 DEF CallsHappened
    <3>2. CASE i = Len(history) + 1 BY <1>8, <1>10, <3>2 DEF Event
    <3>3. QED BY <1>10, <3>1, <3>2
  <2>3. QED BY <1>2, <2>1, <2>2 DEF CallsHappened
<1>19. SaysAreJoined'
  <2>1. \A k : k \in Answered => k \in Answered' BY <1>8, <1>10 DEF Answered
  <2>2. ASSUME NEW k \in DOMAIN calls, NEW d, Joined(k, d) PROVE Joined(k, d)'
    BY <1>8, <1>14, <2>2 DEF Joined, CallsTo
  <2>3. ASSUME NEW p \in DOMAIN history', NEW i \in DOMAIN history',
               NEW k \in DOMAIN calls', NEW d \in Children',
               history'[p] = Event("call", k), p <= i, history'[i] = Event("says", d)
        PROVE  /\ k \notin Answered' /\ calls'[k].process = process => Joined(k, d)'
               /\ \A q \in DOMAIN history' : i <= q /\ history'[q] = Event("answer", k) => Joined(k, d)'
    <3>1. i \in DOMAIN history BY <1>10, <2>3 DEF Event
    <3>2. p \in DOMAIN history BY <1>10, <2>3, <3>1
    <3>3. history[p] = Event("call", k) /\ history[i] = Event("says", d) BY <1>10, <2>3, <3>1, <3>2
    <3>4. k \in DOMAIN calls /\ d \in Children
      BY <1>1, <3>1, <3>2, <3>3 DEF CallsHappened, Event
    <3>5. ASSUME k \notin Answered', calls'[k].process = process PROVE Joined(k, d)
      BY <1>1, <1>14, <2>1, <2>3, <3>1, <3>2, <3>3, <3>4, <3>5 DEF SaysAreJoined
    <3>6. ASSUME NEW q \in DOMAIN history', i <= q, history'[q] = Event("answer", k) PROVE Joined(k, d)
      <4>1. q \in DOMAIN history /\ history[q] = Event("answer", k) BY <1>10, <3>6 DEF Event
      <4>2. QED BY <1>1, <2>3, <3>1, <3>2, <3>3, <3>4, <3>6, <4>1 DEF SaysAreJoined
    <3>7. QED BY <2>2, <3>4, <3>5, <3>6
  <2>4. QED BY <1>2, <2>3 DEF SaysAreJoined, Event
<1>20. QED BY <1>2, <1>11, <1>12, <1>16, <1>17, <1>21, <1>18, <1>19 DEF DelegationsInvariant, DelegationsAreTold

(* What is said of the calls alone stays as long as they do. *)
LEMMA CallsUnchanged ==
  ASSUME DelegationsInvariant, calls' = calls, cli' = cli
  PROVE  /\ ChildrenAreCounted' /\ ParentsStay' /\ ClaudeIsFlat' /\ TasksStay' /\ Children' = Children
         /\ \A k, c : Joined(k, c)' <=> Joined(k, c)
<1>1. Children' = Children /\ \A c : CallsTo(c)' = CallsTo(c) BY DEF Children, CallsTo
<1>2. \A c : FirstTo(c)' = FirstTo(c) BY <1>1, Zenon DEF FirstTo
<1>3. \A c : Parent(c)' = Parent(c) BY <1>2 DEF Parent
<1>4. ParentsStay' BY <1>1, <1>3 DEF DelegationsInvariant, ParentsStay
<1>5. TasksStay' BY <1>1, <1>2 DEF DelegationsInvariant, TasksStay
<1>6. ChildrenAreCounted' /\ ClaudeIsFlat' BY <1>1 DEF DelegationsInvariant, ChildrenAreCounted, ClaudeIsFlat
<1>7. \A k, c : Joined(k, c)' <=> Joined(k, c) BY <1>1 DEF Joined
<1>8. QED BY <1>1, <1>4, <1>5, <1>6, <1>7

(* Who speaks works in the process of now. *)
LEMMA SaysKeeps ==
  ASSUME DelegationsInvariant, Says PROVE DelegationsInvariant'
<1>1. /\ DelegationsTypeOK /\ ChildrenAreCounted /\ ParentsStay /\ ClaudeIsFlat /\ TasksStay
      /\ CallsHappened /\ SaysAreJoined
  BY DEF DelegationsInvariant
<1>2. /\ cli' = cli /\ calls' = calls /\ process' = process /\ told' = told /\ ~ told.made BY DEF Says
<1>3. PICK c \in Children : Working(c) /\ history' = Append(history, Event("says", c)) BY DEF Says
<1>4. c \in Nat /\ c # 0 BY <1>1, NextChildIsNew
<1>5. Event("says", c) \in EventRecords BY <1>4 DEF Event, EventRecords
<1>6. /\ history' \in Seq(EventRecords) /\ Len(history) \in Nat
      /\ DOMAIN history = 1 .. Len(history) /\ DOMAIN history' = 1 .. Len(history) + 1
      /\ history'[Len(history) + 1] = Event("says", c)
      /\ \A i \in DOMAIN history : i \in DOMAIN history' /\ history'[i] = history[i] /\ i <= Len(history)
      /\ \A i \in DOMAIN history' : i \in DOMAIN history \/ i = Len(history) + 1
      /\ \A is, of : Happened(is, of)' <=> Happened(is, of) \/ Event("says", c) = Event(is, of)
  BY <1>1, <1>3, <1>5, HistoryGrows DEF DelegationsTypeOK
<1>7. /\ ChildrenAreCounted' /\ ParentsStay' /\ ClaudeIsFlat' /\ TasksStay' /\ Children' = Children
      /\ \A k, d : Joined(k, d)' <=> Joined(k, d)
  BY <1>2, CallsUnchanged
<1>8. Answered' = Answered
  <2>1. \A k : Event("says", c) # Event("answer", k) BY DEF Event
  <2>2. \A k : Happened("answer", k)' <=> Happened("answer", k) BY <1>6, <2>1
  <2>3. QED BY <1>2, <2>2 DEF Answered
<1>9. DelegationsTypeOK' BY <1>1, <1>2, <1>6 DEF DelegationsTypeOK
<1>10. CallsHappened'
  <2>1. ASSUME NEW k \in DOMAIN calls PROVE Happened("call", k)' /\ calls[k].process <= process
    BY <1>1, <1>6 DEF CallsHappened
  <2>2. ASSUME NEW i \in DOMAIN history'
        PROVE  IF history'[i].is = "says" THEN history'[i].of \in Children ELSE history'[i].of \in DOMAIN calls
    <3>1. CASE i \in DOMAIN history BY <1>1, <1>6, <3>1 DEF CallsHappened
    <3>2. CASE i = Len(history) + 1 BY <1>6, <3>2 DEF Event
    <3>3. QED BY <1>6, <3>1, <3>2
  <2>3. QED BY <1>2, <1>7, <2>1, <2>2 DEF CallsHappened
<1>11. SaysAreJoined'
  <2>1. \E m \in CallsTo(c) : calls[m].process = process BY <1>3, <1>4 DEF Working
  <2>2. ASSUME NEW p \in DOMAIN history', NEW i \in DOMAIN history',
               NEW k \in DOMAIN calls, NEW d \in Children,
               history'[p] = Event("call", k), p <= i, history'[i] = Event("says", d)
        PROVE  /\ k \notin Answered /\ calls[k].process = process => Joined(k, d)
               /\ \A q \in DOMAIN history' : i <= q /\ history'[q] = Event("answer", k) => Joined(k, d)
    <3>1. p \in DOMAIN history /\ history[p] = Event("call", k) BY <1>6, <2>2 DEF Event
    <3>2. CASE i \in DOMAIN history
      <4>1. history[i] = Event("says", d) BY <1>6, <2>2, <3>2
      <4>2. \A q \in DOMAIN history' : history'[q] = Event("answer", k) =>
              q \in DOMAIN history /\ history[q] = Event("answer", k)
        BY <1>6 DEF Event
      <4>3. QED BY <1>1, <2>2, <3>1, <3>2, <4>1, <4>2 DEF SaysAreJoined
    <3>3. CASE i = Len(history) + 1
      <4>1. d = c BY <1>6, <2>2, <3>3 DEF Event
      <4>2. calls[k].process = process => Joined(k, d) BY <2>1, <4>1 DEF Joined
      <4>3. ASSUME NEW q \in DOMAIN history', i <= q PROVE history'[q] # Event("answer", k)
        <5>1. q = Len(history) + 1 BY <1>6, <3>3, <4>3
        <5>2. QED BY <1>6, <5>1 DEF Event
      <4>4. QED BY <4>2, <4>3
    <3>4. QED BY <1>6, <3>2, <3>3
  <2>3. QED BY <1>2, <1>7, <1>8, <2>2 DEF SaysAreJoined, Event
<1>12. QED BY <1>2, <1>7, <1>9, <1>10, <1>11 DEF DelegationsInvariant, DelegationsAreTold

(* A call is answered in its own process. *)
LEMMA AnswerKeeps ==
  ASSUME DelegationsInvariant, Answer PROVE DelegationsInvariant'
<1>1. /\ DelegationsTypeOK /\ ChildrenAreCounted /\ ParentsStay /\ ClaudeIsFlat /\ TasksStay
      /\ CallsHappened /\ SaysAreJoined
  BY DEF DelegationsInvariant
<1>2. /\ cli' = cli /\ calls' = calls /\ process' = process /\ told' = told /\ ~ told.made BY DEF Answer
<1>3. PICK n \in DOMAIN calls \ Answered :
         calls[n].process = process /\ history' = Append(history, Event("answer", n))
  BY DEF Answer
<1>4. n \in Nat BY <1>1, <1>3 DEF DelegationsTypeOK
<1>5. Event("answer", n) \in EventRecords BY <1>4 DEF Event, EventRecords
<1>6. /\ history' \in Seq(EventRecords) /\ Len(history) \in Nat
      /\ DOMAIN history = 1 .. Len(history) /\ DOMAIN history' = 1 .. Len(history) + 1
      /\ history'[Len(history) + 1] = Event("answer", n)
      /\ \A i \in DOMAIN history : i \in DOMAIN history' /\ history'[i] = history[i] /\ i <= Len(history)
      /\ \A i \in DOMAIN history' : i \in DOMAIN history \/ i = Len(history) + 1
      /\ \A is, of : Happened(is, of)' <=> Happened(is, of) \/ Event("answer", n) = Event(is, of)
  BY <1>1, <1>3, <1>5, HistoryGrows DEF DelegationsTypeOK
<1>7. /\ ChildrenAreCounted' /\ ParentsStay' /\ ClaudeIsFlat' /\ TasksStay' /\ Children' = Children
      /\ \A k, d : Joined(k, d)' <=> Joined(k, d)
  BY <1>2, CallsUnchanged
<1>8. \A k : k \in Answered => k \in Answered' BY <1>2, <1>6 DEF Answered
<1>9. DelegationsTypeOK' BY <1>1, <1>2, <1>6 DEF DelegationsTypeOK
<1>10. CallsHappened'
  <2>1. ASSUME NEW k \in DOMAIN calls PROVE Happened("call", k)' /\ calls[k].process <= process
    BY <1>1, <1>6 DEF CallsHappened
  <2>2. ASSUME NEW i \in DOMAIN history'
        PROVE  IF history'[i].is = "says" THEN history'[i].of \in Children ELSE history'[i].of \in DOMAIN calls
    <3>1. CASE i \in DOMAIN history BY <1>1, <1>6, <3>1 DEF CallsHappened
    <3>2. CASE i = Len(history) + 1 BY <1>3, <1>6, <3>2 DEF Event
    <3>3. QED BY <1>6, <3>1, <3>2
  <2>3. QED BY <1>2, <1>7, <2>1, <2>2 DEF CallsHappened
<1>11. SaysAreJoined'
  <2>1. ASSUME NEW p \in DOMAIN history', NEW i \in DOMAIN history',
               NEW k \in DOMAIN calls, NEW d \in Children,
               history'[p] = Event("call", k), p <= i, history'[i] = Event("says", d)
        PROVE  /\ k \notin Answered' /\ calls[k].process = process => Joined(k, d)
               /\ \A q \in DOMAIN history' : i <= q /\ history'[q] = Event("answer", k) => Joined(k, d)
    <3>1. p \in DOMAIN history /\ history[p] = Event("call", k) BY <1>6, <2>1 DEF Event
    <3>2. i \in DOMAIN history /\ history[i] = Event("says", d) BY <1>6, <2>1 DEF Event
    <3>3. ASSUME NEW q \in DOMAIN history', i <= q, history'[q] = Event("answer", k) PROVE Joined(k, d)
      <4>1. CASE q \in DOMAIN history BY <1>1, <1>6, <2>1, <3>1, <3>2, <3>3, <4>1 DEF SaysAreJoined
      <4>2. CASE q = Len(history) + 1
        <5>1. k = n BY <1>6, <3>3, <4>2 DEF Event
        <5>2. QED BY <1>1, <1>3, <2>1, <3>1, <3>2, <5>1 DEF SaysAreJoined
      <4>3. QED BY <1>6, <4>1, <4>2
    <3>4. QED BY <1>1, <1>8, <2>1, <3>1, <3>2, <3>3 DEF SaysAreJoined
  <2>2. QED BY <1>2, <1>7, <2>1 DEF SaysAreJoined, Event
<1>12. QED BY <1>2, <1>7, <1>9, <1>10, <1>11 DEF DelegationsInvariant, DelegationsAreTold

(* No call of the process that was killed is one of the process that follows. *)
LEMMA RestartKeeps ==
  ASSUME DelegationsInvariant, Restart PROVE DelegationsInvariant'
<1>1. /\ DelegationsTypeOK /\ CallsHappened /\ SaysAreJoined BY DEF DelegationsInvariant
<1>2. /\ cli' = cli /\ calls' = calls /\ history' = history /\ told' = told /\ ~ told.made
      /\ process = 1 /\ process' = 2
  BY DEF Restart
<1>3. /\ ChildrenAreCounted' /\ ParentsStay' /\ ClaudeIsFlat' /\ TasksStay' /\ Children' = Children
      /\ \A k, d : Joined(k, d)' <=> Joined(k, d)
  BY <1>2, CallsUnchanged
<1>4. \A is, of : Happened(is, of)' <=> Happened(is, of) BY <1>2 DEF Happened, Event
<1>5. Answered' = Answered BY <1>2, <1>4 DEF Answered
<1>6. DelegationsTypeOK' BY <1>1, <1>2 DEF DelegationsTypeOK
<1>7. ASSUME NEW k \in DOMAIN calls PROVE calls[k].process \in {1, 2}
  <2>1. calls \in Seq(CallRecords) /\ k \in 1 .. Len(calls) BY <1>1 DEF DelegationsTypeOK
  <2>2. calls[k] \in CallRecords BY <2>1, ElementOfSeq
  <2>3. QED BY <2>2 DEF CallRecords
<1>8. CallsHappened' BY <1>1, <1>2, <1>3, <1>4, <1>7 DEF CallsHappened
<1>9. SaysAreJoined'
  <2>1. \A k \in DOMAIN calls : calls[k].process # 2 BY <1>1, <1>2, <1>7 DEF CallsHappened
  <2>2. QED BY <1>1, <1>2, <1>3, <1>5, <2>1 DEF SaysAreJoined, Event
<1>10. QED BY <1>2, <1>3, <1>6, <1>8, <1>9 DEF DelegationsInvariant, DelegationsAreTold

(* A child in a trajectory is one its agent links to. *)
LEMMA EmbeddedIsLinked ==
  ASSUME NEW transcripts, NEW marks, NEW c \in Embedded(transcripts, marks)
  PROVE  c \in Children /\ \E l \in LinksOf(Parent(c), transcripts, marks) : l.child = c
BY DEF Embedded

(* A child the root links to is in its trajectory. *)
LEMMA LinkedIsEmbedded ==
  ASSUME NEW transcripts, NEW marks, NEW c \in Children, Parent(c) = 0,
         \E l \in LinksOf(Parent(c), transcripts, marks) : l.child = c
  PROVE  c \in Embedded(transcripts, marks)
<1> DEFINE linked == {d \in Children : \E l \in LinksOf(Parent(d), transcripts, marks) : l.child = d}
<1>1. c \in linked OBVIOUS
<1> HIDE DEF linked
<1>2. \A s : 0 \in s /\ (\A d \in linked : Parent(d) \in s => d \in s) => c \in s BY <1>1
<1>3. Embedded(transcripts, marks) =
        {d \in linked : \A s \in SUBSET ({0} \cup linked) :
           0 \in s /\ (\A b \in linked : Parent(b) \in s => b \in s) => d \in s}
  BY DEF Embedded, linked
<1>4. QED BY <1>1, <1>2, <1>3

(* A link by the name of the child leads to the child that was called. *)
LEMMA NamedLinksLead ==
  ASSUME NEW a, NEW known, NEW l \in Named(a, known) PROVE calls[l.call].to = l.child
BY DEF Named, Link

(* A goal that one call has is that of the child's first call. *)
LEMMA HermesLinksLead ==
  ASSUME DelegationsTypeOK, NEW a, NEW transcripts \in SUBSET Children, NEW l \in HermesLinks(a, transcripts)
  PROVE  calls[l.call].to = l.child
<1> DEFINE askers(g) == {k \in CallsOf(a) : calls[k].goal = g}
           recorded(g) == {c \in transcripts : /\ Spoke(c) /\ Parent(c) = a
                                                /\ calls[FirstTo(c)].goal = g}
<1> DEFINE single == {h \in Goals : Cardinality(askers(h)) = 1 /\ Cardinality(recorded(h)) = 1}
           links(g) == {Link(k, c) : k \in askers(g) \cap Answered, c \in recorded(g)}
<1>0. HermesLinks(a, transcripts) = UNION {links(g) : g \in single} BY DEF HermesLinks
<1>1a. PICK g \in Goals : /\ Cardinality(askers(g)) = 1
                         /\ \E k \in askers(g), c \in recorded(g) : l = Link(k, c)
  <2>1. PICK g \in single : l \in links(g)
    <3> HIDE DEF links, single
    <3>1. QED BY <1>0
  <2>2. \E k \in askers(g), c \in recorded(g) : l = Link(k, c)
    <3> HIDE DEF askers, recorded
    <3>1. QED BY <2>1
  <2>3. QED BY <2>1, <2>2
<1>1. PICK k \in askers(g), c \in recorded(g) : l = Link(k, c) BY <1>1a
<1>2. calls \in Seq(CallRecords) /\ c \in Children BY <1>1 DEF DelegationsTypeOK
<1>3. FirstTo(c) \in DOMAIN calls /\ calls[FirstTo(c)].to = c BY <1>2, FirstOfCalls
<1>4. FirstTo(c) \in askers(g) BY <1>1, <1>3 DEF Parent, CallsOf
<1>5. IsFiniteSet(askers(g))
  <2>1. Len(calls) \in Nat /\ DOMAIN calls = 1 .. Len(calls) BY <1>2
  <2>2. IsFiniteSet(1 .. Len(calls)) BY <2>1, FS_Interval
  <2>3. askers(g) \in SUBSET (1 .. Len(calls)) BY <2>1 DEF CallsOf
  <2>4. QED BY <2>2, <2>3, FS_Subset
<1>6. \E x : askers(g) = {x} BY <1>1a, <1>5, FS_Singleton
<1>7. k = FirstTo(c) BY <1>1, <1>4, <1>6
<1>8. QED BY <1>1, <1>3, <1>7 DEF Link

(* Two children of one agent, begun in one process, have different tasks. *)
LEMMA TasksDiffer ==
  ASSUME DelegationsTypeOK, ChildrenAreCounted, NEW a, NEW c \in Children, NEW d \in Children,
         NEW k \in CallsTo(c), NEW m \in CallsTo(d), calls[k].by = a, calls[m].by = a,
         Parent(c) = a, Parent(d) = a,
         calls[FirstTo(c)].process = calls[FirstTo(d)].process, FirstTo(c) < FirstTo(d)
  PROVE  Task(k) # Task(m)
<1> DEFINE before(n) == {calls[l].to : l \in {b \in CallsOf(a) : /\ b <= n
                                                 /\ calls[b].process = calls[FirstTo(c)].process
                                                 /\ b = FirstTo(calls[b].to)}}
<1>1. calls[k].to = c /\ calls[m].to = d BY DEF CallsTo
<1>2. Task(k) = Cardinality(before(FirstTo(c))) BY <1>1, Zenon DEF Task
<1>3. Task(m) = Cardinality(before(FirstTo(d))) BY <1>1, Zenon DEF Task
<1>4. /\ calls \in Seq(CallRecords) /\ Len(calls) \in Nat /\ DOMAIN calls = 1 .. Len(calls)
      /\ FirstTo(c) \in DOMAIN calls /\ FirstTo(d) \in DOMAIN calls
      /\ calls[FirstTo(c)].to = c /\ calls[FirstTo(d)].to = d
  BY FirstOfCalls DEF DelegationsTypeOK
<1>5. FirstTo(d) \in CallsOf(a) BY <1>4 DEF Parent, CallsOf
<1>6. d \in before(FirstTo(d)) BY <1>4, <1>5
<1>7. d \notin before(FirstTo(c))
  <2>1. ASSUME NEW b \in CallsOf(a), b <= FirstTo(c), b = FirstTo(calls[b].to), calls[b].to = d PROVE FALSE
    <3>1. b = FirstTo(d) BY <2>1
    <3>2. QED BY <1>4, <2>1, <3>1
  <2>2. QED BY <2>1
<1>8. before(FirstTo(c)) \subseteq before(FirstTo(d))
  <2>1. \A b \in CallsOf(a) : b <= FirstTo(c) => b <= FirstTo(d) BY <1>4 DEF CallsOf
  <2>2. QED BY <2>1
<1>9. IsFiniteSet(before(FirstTo(d)))
  <2>1. PICK n \in 0 .. Len(calls) : Children = 1 .. n BY DEF ChildrenAreCounted
  <2>2. IsFiniteSet(Children) BY <2>1, FS_Interval
  <2>3. before(FirstTo(d)) \in SUBSET Children BY DEF Children, CallsOf
  <2>4. QED BY <2>2, <2>3, FS_Subset
<1>10. QED
  <2> HIDE DEF before
  <2>1. Cardinality(before(FirstTo(c))) # Cardinality(before(FirstTo(d)))
    BY <1>6, <1>7, <1>8, <1>9, FS_Subset
  <2>2. QED BY <1>2, <1>3, <2>1

(* The place of what happened is one where it did. *)
LEMMA PlaceIsThere ==
  ASSUME NEW is, NEW of, Happened(is, of)
  PROVE  PlaceOf(is, of) \in DOMAIN history /\ history[PlaceOf(is, of)] = Event(is, of)
BY Zenon DEF Happened, PlaceOf

(* The agent's state has the sayings of a task from a call that task was for. *)
LEMMA TasksHaveSayings ==
  ASSUME DelegationsTypeOK, NEW a, NEW k \in CallsOf(a) \cap Answered
  PROVE  \E last \in CallsOf(a) \cap Answered :
            Task(last) = Task(k) /\ SaysOfTask(a, Task(k)) \subseteq SaysOf(calls[last].to)
<1> DEFINE ended == {l \in CallsOf(a) \cap Answered : Task(l) = Task(k)}
           later(l) == Len(history) - PlaceOf("answer", l)
           last == CHOOSE l \in ended : \A m \in ended : PlaceOf("answer", m) <= PlaceOf("answer", l)
<1>1. Len(history) \in Nat /\ DOMAIN history = 1 .. Len(history) BY DEF DelegationsTypeOK
<1>2. \A l \in ended : PlaceOf("answer", l) \in 1 .. Len(history)
  <2>1. \A l \in ended : Happened("answer", l) BY DEF Answered
  <2>2. QED BY <1>1, <2>1, PlaceIsThere
<1>3. k \in ended OBVIOUS
<1> HIDE DEF ended
<1>4. {later(l) : l \in ended} # {} /\ {later(l) : l \in ended} \subseteq Nat BY <1>1, <1>2, <1>3
<1>5. PICK least \in {later(l) : l \in ended} : \A n \in {later(l) : l \in ended} : least <= n
  BY <1>4, LeastNatural
<1>6. PICK l \in ended : least = later(l) BY <1>5
<1>7. \A m \in ended : PlaceOf("answer", m) <= PlaceOf("answer", l)
  <2>1. ASSUME NEW m \in ended PROVE PlaceOf("answer", m) <= PlaceOf("answer", l)
    <3>1. later(l) <= later(m) BY <1>5, <1>6
    <3>2. QED BY <1>1, <1>2, <3>1
  <2>2. QED BY <2>1
<1>8. last \in ended BY <1>7, Zenon
<1>9. SaysOfTask(a, Task(k)) = {i \in SaysOf(calls[last].to) : i < PlaceOf("answer", last)}
  BY DEF SaysOfTask, ended
<1> HIDE DEF last
<1>10. SaysOfTask(a, Task(k)) \subseteq SaysOf(calls[last].to) BY <1>9
<1>11. QED BY <1>8, <1>10 DEF ended

(* OpenHands names the child by its sayings and its task: they tell the children of
   one process apart, and the sayings in the call are of that process. *)
LEMMA OpenhandsLinksLead ==
  ASSUME DelegationsInvariant, cli = "openhands_cli", NEW a, NEW transcripts \in SUBSET Children,
         NEW link \in OpenhandsLinks(a, transcripts)
  PROVE  calls[link.call].to = link.child
<1> DEFINE During(k) == PlaceOf("call", k) .. PlaceOf("answer", k)
           matches(k) == {c \in transcripts : /\ Parent(c) = a /\ Spoke(c)
                                              /\ SaysOf(c) \subseteq SaysOfTask(a, Task(k))
                                              /\ SaysOf(c) \cap During(k) # {}}
           single == {l \in CallsOf(a) \cap Answered : Cardinality(matches(l)) = 1}
           links(k) == {Link(k, c) : c \in matches(k)}
<1>1. OpenhandsLinks(a, transcripts) = UNION {links(k) : k \in single} BY DEF OpenhandsLinks
<1>2. PICK k \in single : link \in links(k)
  <2> HIDE DEF single, links
  <2>1. QED BY <1>1
<1>3. PICK c \in matches(k) : link = Link(k, c)
  <2> HIDE DEF matches
  <2>1. QED BY <1>2
<1>4. /\ k \in CallsOf(a) /\ k \in Answered /\ k \in DOMAIN calls /\ calls[k].by = a
      /\ c \in Children /\ Parent(c) = a /\ SaysOf(c) \subseteq SaysOfTask(a, Task(k))
  BY <1>2, <1>3 DEF CallsOf
<1>5. PICK i \in SaysOf(c) : i \in PlaceOf("call", k) .. PlaceOf("answer", k) BY <1>3
<1>6. /\ DelegationsTypeOK /\ ChildrenAreCounted /\ ParentsStay /\ TasksStay /\ CallsHappened /\ SaysAreJoined
  BY DEF DelegationsInvariant
<1>7. PICK last \in CallsOf(a) \cap Answered :
        Task(last) = Task(k) /\ SaysOfTask(a, Task(k)) \subseteq SaysOf(calls[last].to)
  BY <1>4, <1>6, TasksHaveSayings
<1>8. /\ i \in DOMAIN history /\ history[i] = Event("says", c) /\ calls[last].to = c
  <2>1. i \in DOMAIN history /\ history[i] = Event("says", c) BY <1>5 DEF SaysOf
  <2>2. history[i] = Event("says", calls[last].to) BY <1>4, <1>5, <1>7 DEF SaysOf
  <2>3. QED BY <2>1, <2>2 DEF Event
<1>9. Joined(k, c)
  <2> DEFINE p == PlaceOf("call", k)
             q == PlaceOf("answer", k)
  <2>1. Happened("call", k) /\ Happened("answer", k) BY <1>4, <1>6 DEF CallsHappened, Answered
  <2>2. p \in DOMAIN history /\ history[p] = Event("call", k) /\ q \in DOMAIN history /\ history[q] = Event("answer", k)
    BY <2>1, PlaceIsThere
  <2>3. p <= i /\ i <= q BY <1>5
  <2> HIDE DEF p, q
  <2>4. QED BY <1>4, <1>6, <1>8, <2>2, <2>3 DEF SaysAreJoined
<1>10. calls[FirstTo(c)].process = calls[k].process BY <1>4, <1>6, <1>9 DEF Joined, TasksStay
<1> DEFINE d == calls[k].to
<1>11. d \in Children /\ k \in CallsTo(d) BY <1>4 DEF Children, CallsTo
<1>12. Parent(d) = a /\ calls[FirstTo(d)].process = calls[k].process
  BY <1>4, <1>6, <1>11 DEF ParentsStay, TasksStay
<1>13. last \in CallsTo(c) /\ calls[last].by = a BY <1>7, <1>8 DEF CallsTo, CallsOf
<1>14. /\ FirstTo(c) \in Nat /\ FirstTo(d) \in Nat
       /\ calls[FirstTo(c)].to = c /\ calls[FirstTo(d)].to = d
  <2>1. calls \in Seq(CallRecords) /\ \A n \in DOMAIN calls : n \in Nat BY <1>6 DEF DelegationsTypeOK
  <2>2. QED BY <1>4, <1>11, <2>1, FirstOfCalls
<1> HIDE DEF d
<1>15. ~ (FirstTo(c) < FirstTo(d)) BY <1>4, <1>6, <1>7, <1>10, <1>11, <1>12, <1>13, TasksDiffer
<1>16. ~ (FirstTo(d) < FirstTo(c)) BY <1>4, <1>6, <1>7, <1>10, <1>11, <1>12, <1>13, TasksDiffer
<1>17. c = d BY <1>14, <1>15, <1>16
<1>18. QED BY <1>3, <1>17 DEF Link, d

(* Whatever the CLI, a link leads to the child that was called. *)
LEMMA LinksLead ==
  ASSUME DelegationsInvariant, NEW a, NEW transcripts \in SUBSET Children, NEW marks,
         NEW l \in LinksOf(a, transcripts, marks)
  PROVE  calls[l.call].to = l.child
<1>1. DelegationsTypeOK BY DEF DelegationsInvariant
<1>2. cli \in {"codex_cli", "qwen_code", "kimi_code", "zcode", "openclaw_cli", "forgecode",
               "muse_code", "antigravity_cli", "hermes", "openhands_cli", "claude_code"}
  BY <1>1, DelegationsAssumption DEF DelegationsTypeOK
<1>3. CASE cli = "hermes"
  <2>1. l \in HermesLinks(a, transcripts) BY <1>3 DEF LinksOf
  <2>2. QED BY <1>1, <2>1, HermesLinksLead
<1>4. CASE cli = "openhands_cli"
  <2>1. l \in OpenhandsLinks(a, transcripts) BY <1>4 DEF LinksOf
  <2>2. QED BY <1>4, <2>1, OpenhandsLinksLead
<1>5. CASE cli = "claude_code"
  <2>1. l \in ClaudeLinks(a, transcripts, marks) BY <1>5 DEF LinksOf
  <2>2. PICK c \in Children : l = Link(FirstTo(c), c) BY <2>1 DEF ClaudeLinks
  <2>3. calls[FirstTo(c)].to = c BY <1>1, FirstOfCalls DEF DelegationsTypeOK
  <2>4. QED BY <2>2, <2>3 DEF Link
<1>6. CASE cli \notin {"hermes", "openhands_cli", "claude_code"}
  <2>1. \E known : l \in Named(a, known)
    <3>1. \/ \E known : l \in Speaking(Named(a, known)) 
          \/ \E known : l \in Named(a, known)
      BY <1>2, <1>6 DEF LinksOf, CodexLinks, QwenLinks, KimiLinks, ZcodeLinks, OpenclawLinks, ForgeLinks,
                        MuseLinks, AntigravityLinks
    <3>2. QED BY <3>1 DEF Speaking
  <2>2. QED BY <2>1, NamedLinksLead
<1>7. QED BY <1>3, <1>4, <1>5, <1>6

(* The trajectory tells of the children as it promises to. *)
LEMMA TellKeeps ==
  ASSUME DelegationsInvariant, Tell PROVE DelegationsInvariant'
<1>1. /\ DelegationsTypeOK /\ CallsHappened /\ SaysAreJoined /\ ClaudeIsFlat BY DEF DelegationsInvariant
<1>2. /\ cli' = cli /\ calls' = calls /\ history' = history /\ process' = process BY DEF Tell
<1>3a. PICK transcripts \in SUBSET Children :
         \E marks \in IF cli \in Marking THEN SUBSET Children ELSE {{}} :
           told' = [made |-> TRUE, transcripts |-> transcripts,
                    links |-> UNION {LinksOf(a, transcripts, marks) : a \in {0} \cup Embedded(transcripts, marks)},
                    embedded |-> Embedded(transcripts, marks),
                    reported |-> Reported(transcripts, marks, Embedded(transcripts, marks))]
  BY DEF Tell
<1>3. PICK marks \in IF cli \in Marking THEN SUBSET Children ELSE {{}} :
           told' = [made |-> TRUE, transcripts |-> transcripts,
                    links |-> UNION {LinksOf(a, transcripts, marks) : a \in {0} \cup Embedded(transcripts, marks)},
                    embedded |-> Embedded(transcripts, marks),
                    reported |-> Reported(transcripts, marks, Embedded(transcripts, marks))]
  BY <1>3a
<1> DEFINE embedded == Embedded(transcripts, marks)
           reported == Reported(transcripts, marks, embedded)
<1>4. /\ told'.made = TRUE /\ told'.transcripts = transcripts
      /\ told'.embedded = embedded /\ told'.reported = reported
      /\ \A l \in told'.links : \E a : l \in LinksOf(a, transcripts, marks)
  BY <1>3
<1>5. ASSUME NEW l \in told'.links PROVE calls[l.call].to = l.child BY <1>4, LinksLead
<1>6. cli = "claude_code" => embedded \subseteq marks
  <2>1. ASSUME cli = "claude_code", NEW c \in embedded PROVE c \in marks
    <3>1. PICK l \in LinksOf(Parent(c), transcripts, marks) : l.child = c BY EmbeddedIsLinked
    <3>2. l \in ClaudeLinks(Parent(c), transcripts, marks) BY <2>1, <3>1 DEF LinksOf
    <3>3. l.child \in marks BY <3>2 DEF ClaudeLinks, Link
    <3>4. QED BY <3>1, <3>3
  <2>2. QED BY <2>1
<1>7. embedded \cap reported = {}
  <2> HIDE DEF embedded
  <2>1. QED BY <1>6 DEF Reported
<1>8. ASSUME NEW c \in transcripts
      PROVE  \/ c \in embedded \cup reported
             \/ cli = "openhands_cli" /\ Parent(c) \notin {0} \cup embedded
  <2>1. CASE cli = "claude_code"
    <3>1. CASE c \in marks
      <4>1. c \in Children /\ FirstTo(c) \in DOMAIN calls BY <1>1, FirstOfCalls DEF DelegationsTypeOK
      <4>2. Parent(c) = 0 BY <1>1, <2>1, <4>1 DEF ClaudeIsFlat, Parent
      <4>3. Link(FirstTo(c), c) \in ClaudeLinks(Parent(c), transcripts, marks) BY <3>1 DEF ClaudeLinks
      <4>4. Link(FirstTo(c), c) \in LinksOf(Parent(c), transcripts, marks) BY <2>1, <4>3 DEF LinksOf
      <4>5. Link(FirstTo(c), c).child = c BY DEF Link
      <4>6. c \in embedded BY <4>1, <4>2, <4>4, <4>5, LinkedIsEmbedded
      <4>7. QED BY <4>6
    <3>2. CASE c \notin marks
      <4>1. c \in reported BY <2>1, <3>2 DEF Reported
      <4>2. QED BY <4>1
    <3>3. QED BY <3>1, <3>2
  <2>2. CASE cli # "claude_code"
    <3> HIDE DEF embedded
    <3>1. QED BY <2>2 DEF Reported
  <2>3. QED BY <2>1, <2>2
<1> HIDE DEF embedded, reported
<1>9. \A c : Spoke(c)' = Spoke(c) /\ Parent(c)' = Parent(c)
  BY <1>2 DEF Spoke, Happened, Event, Parent, FirstTo, CallsTo
<1>10. DelegationsAreTold' BY <1>2, <1>4, <1>5, <1>7, <1>8, <1>9 DEF DelegationsAreTold
<1>11. /\ ChildrenAreCounted' /\ ParentsStay' /\ ClaudeIsFlat' /\ TasksStay' /\ Children' = Children
       /\ \A k, d : Joined(k, d)' <=> Joined(k, d)
  BY <1>2, CallsUnchanged
<1>12. \A is, of : Happened(is, of)' <=> Happened(is, of) BY <1>2 DEF Happened, Event
<1>13. Answered' = Answered BY <1>2, <1>12 DEF Answered
<1>14. DelegationsTypeOK' BY <1>1, <1>2, <1>4 DEF DelegationsTypeOK
<1>15. CallsHappened' BY <1>1, <1>2, <1>11, <1>12 DEF CallsHappened
<1>16. SaysAreJoined' BY <1>1, <1>2, <1>11, <1>13 DEF SaysAreJoined, Event
<1>17. QED BY <1>10, <1>11, <1>14, <1>15, <1>16 DEF DelegationsInvariant

(* The sessions of a CLI with subagents, alone. *)
DelegationsSpec == DelegationsInit /\ [][DelegationsNext]_delegationVars

(* At first there are no children. *)
LEMMA DelegationsBegin ==
  ASSUME DelegationsInit PROVE DelegationsInvariant
<1>1. calls = <<>> /\ history = <<>> /\ Len(calls) = 0 /\ DOMAIN calls = {} /\ DOMAIN history = {}
  BY DEF DelegationsInit
<1>2. Children = {} /\ \A c : CallsTo(c) = {} BY <1>1 DEF Children, CallsTo
<1>3. ChildrenAreCounted
  <2>1. 1 .. 0 = {} /\ 0 \in 0 .. 0 OBVIOUS
  <2>2. QED BY <1>1, <1>2, <2>1 DEF ChildrenAreCounted
<1>4. DelegationsTypeOK /\ ~ told.made BY DEF DelegationsInit, DelegationsTypeOK, Untold
<1>5. /\ ParentsStay /\ ClaudeIsFlat /\ TasksStay /\ CallsHappened /\ SaysAreJoined
  BY <1>1, <1>2 DEF ParentsStay, ClaudeIsFlat, TasksStay, CallsHappened, SaysAreJoined
<1>6. QED BY <1>3, <1>4, <1>5 DEF DelegationsInvariant, DelegationsAreTold

(* A step that is about nothing of the session leaves the invariant. *)
LEMMA DelegationsStutter ==
  ASSUME DelegationsInvariant, UNCHANGED delegationVars PROVE DelegationsInvariant'
<1>1. /\ cli' = cli /\ calls' = calls /\ history' = history /\ process' = process /\ told' = told
  BY DEF delegationVars
<1>2. /\ ChildrenAreCounted' /\ ParentsStay' /\ ClaudeIsFlat' /\ TasksStay' /\ Children' = Children
      /\ \A k, d : Joined(k, d)' <=> Joined(k, d)
  BY <1>1, CallsUnchanged
<1>3. \A is, of : Happened(is, of)' <=> Happened(is, of) BY <1>1 DEF Happened, Event
<1>4. Answered' = Answered BY <1>1, <1>3 DEF Answered
<1>5. /\ DelegationsTypeOK /\ CallsHappened /\ SaysAreJoined /\ DelegationsAreTold BY DEF DelegationsInvariant
<1>6. DelegationsTypeOK' BY <1>1, <1>5 DEF DelegationsTypeOK
<1>7. CallsHappened' BY <1>1, <1>2, <1>3, <1>5 DEF CallsHappened
<1>8. SaysAreJoined' BY <1>1, <1>2, <1>4, <1>5 DEF SaysAreJoined, Event
<1>9. \A c : Spoke(c)' = Spoke(c) /\ Parent(c)' = Parent(c)
  BY <1>1 DEF Spoke, Happened, Event, Parent, FirstTo, CallsTo
<1>10. DelegationsAreTold' BY <1>1, <1>5, <1>9 DEF DelegationsAreTold
<1>11. QED BY <1>2, <1>6, <1>7, <1>8, <1>10 DEF DelegationsInvariant

(* DelegationsAreTold, for any CLIs and bounds: a reference of a trajectory leads from a call
   to the child it went to, no child is both part of it and reported as left out, and none
   that said something is neither, itself or with its agent. *)
THEOREM DelegationsAreToldHolds == DelegationsSpec => []DelegationsAreTold
<1>1. DelegationsInit => DelegationsInvariant BY DelegationsBegin
<1>2. DelegationsInvariant /\ [DelegationsNext]_delegationVars => DelegationsInvariant'
  <2> SUFFICES ASSUME DelegationsInvariant, [DelegationsNext]_delegationVars PROVE DelegationsInvariant'
    OBVIOUS
  <2>1. CASE Call BY <2>1, CallKeeps
  <2>2. CASE Says BY <2>2, SaysKeeps
  <2>3. CASE Answer BY <2>3, AnswerKeeps
  <2>4. CASE Restart BY <2>4, RestartKeeps
  <2>5. CASE Tell BY <2>5, TellKeeps
  <2>6. CASE UNCHANGED delegationVars BY <2>6, DelegationsStutter
  <2>7. QED BY <2>1, <2>2, <2>3, <2>4, <2>5, <2>6 DEF DelegationsNext
<1>3. DelegationsInvariant => DelegationsAreTold BY DEF DelegationsInvariant
<1>4. QED BY <1>1, <1>2, <1>3, PTL DEF DelegationsSpec

=============================================================================
