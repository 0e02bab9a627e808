--------------------------- MODULE TaskAssetsProofs ---------------------------
(***************************************************************************)
(* AssetsInvariant is inductive, for any commands, roots, edits and kills; *)
(* with it the properties of TaskAssets that the runs check.               *)
(*                                                                         *)
(* A step is one command's.  What it leaves of another command's part of   *)
(* the invariant is one lemma (Frame): a command that holds no lock has    *)
(* either not looked at the roots yet or knows them to be raced for.       *)
(*                                                                         *)
(* PublishInvariant is that of AssetPublish: what a publication record     *)
(* says of its draft, and how far each command is.                         *)
(***************************************************************************)
EXTENDS TaskAssets, AssetPublish, SequenceTheorems, TLAPS

Holder == Replacement \cup {"mark"}

(* The part of the invariant about one command, and about it and one root. *)
RootPart(p, r) ==
  /\ pc[p] = "save" /\ ~raced[p] /\ r \notin todo[p] /\ roots[r].stamp = inv[p][r]
       => roots[r].version = wanted[p][r]
  /\ ~raced[p] => Placed(p, r)
  /\ ~raced[p] /\ Has(p, r) =>
       /\ KeptInBackup(p, r) => backup[r] = found[p][r]
       /\ pc[p] \in {"rollback", "put_back"} /\ r \notin todo[p] /\ cause[p] = "copy"
            => roots[r] = found[p][r]
  /\ pc[p] \in {"clear", "rename"} /\ ~forced[p] /\ ~raced[p] => roots[r] = Absent

Part(p) ==
  /\ pc[p] \in Holder => lock = p
  /\ cause[p] # "none" <=> pc[p] \in {"rollback", "put_back"}
  /\ pc[p] \in Saving /\ ~raced[p] => ~Busy
  /\ \A r \in Roots : RootPart(p, r)

Parts == TypeOK /\ (\A p \in Procs : Part(p)) /\ StampsAgree /\ MarkerIsTrue

(* The invariant, sorted by the command it speaks of. *)
LEMMA InvariantIsParts == AssetsInvariant <=> Parts
<1>1. LockIsHeld <=> \A p \in Procs : pc[p] \in Holder => lock = p
  BY DEF LockIsHeld, Holder, Replaces
<1>2. CausesAreKnown <=> \A p \in Procs :
        cause[p] # "none" <=> pc[p] \in {"rollback", "put_back"}
  BY DEF CausesAreKnown
<1>3. CopiesAreTrue /\ RootsArePlaced /\ BackupsAreKept /\ PlainPullOverwritesNothing
        <=> \A p \in Procs, r \in Roots : RootPart(p, r)
  BY DEF CopiesAreTrue, RootsArePlaced, BackupsAreKept, PlainPullOverwritesNothing, AllAbsent, RootPart
<1> QED BY <1>1, <1>2, <1>3 DEF AssetsInvariant, Parts, Part, SaversAreAlone

(* Absent is the only content without a stamp. *)
LEMMA ContentFacts ==
  ASSUME NEW c \in Content
  PROVE  /\ c.version \in Versions \cup {Partial, NoFiles}
         /\ c.stamp \in Stamps \cup {NoStamp}
         /\ c.stamp = NoStamp <=> c = Absent
         /\ c.version = NoFiles <=> c = Absent
BY AssetsAssumption DEF Content, Absent

(* A root that is not there is content like any other. *)
LEMMA AbsentFacts == Absent \in Content /\ Absent.version = NoFiles /\ Absent.stamp = NoStamp
BY DEF Content, Absent

(* What a step of another command leaves of q's part. *)
LEMMA Frame ==
  ASSUME NEW q \in Procs, Part(q),
         pc'[q] = pc[q], forced'[q] = forced[q], wanted'[q] = wanted[q], todo'[q] = todo[q],
         found'[q] = found[q], cause'[q] = cause[q], inv'[q] = inv[q],
         lock = q => lock' = q,
         \/ raced'[q]
         \/ /\ raced'[q] = raced[q]
            /\ pc[q] \in Saving /\ Busy' => Busy
            /\ \/ roots' = roots /\ backup' = backup
               \/ pc[q] \notin Holder /\ (pc[q] \in Saving => raced[q])
  PROVE  Part(q)'
<1>1. (pc[q] \in Holder => lock = q)' BY DEF Part
<1>2. (cause[q] # "none" <=> pc[q] \in {"rollback", "put_back"})'
  BY DEF Part
<1>3. (pc[q] \in Saving /\ ~raced[q] => ~Busy)' BY DEF Part
<1>4. ASSUME NEW r \in Roots PROVE RootPart(q, r)'
  <2>1. CASE raced'[q] BY <2>1 DEF RootPart
  <2>2. CASE raced'[q] = raced[q] /\ roots' = roots /\ backup' = backup
    BY <2>2 DEF Part, RootPart, Placed, KeptInBackup, Has
  <2>3. CASE raced'[q] = raced[q] /\ pc[q] \notin Holder /\ (pc[q] \in Saving => raced[q])
    BY <2>3 DEF RootPart, Placed, KeptInBackup, Holder, Replacement, Saving
  <2> QED BY <2>1, <2>2, <2>3
<1> QED BY <1>1, <1>2, <1>3, <1>4 DEF Part

(* While p holds the lock no other command does, and those that save a      *)
(* checkpoint are raced for if p replaces.                                  *)
LEMMA Alone ==
  ASSUME Parts, NEW p \in Procs, NEW q \in Procs, p # q, pc[p] \in Holder
  PROVE  pc[q] \notin Holder /\ (Replaces(p) /\ pc[q] \in Saving => raced[q]) /\ lock = p
BY DEF Parts, Part, Busy, Replaces, TypeOK

(* A command that enters no replacement makes nobody busy. *)
LEMMA BusyStays ==
  ASSUME NEW p \in Procs, pc' = [pc EXCEPT ![p] = pc'[p]], TypeOK,
         pc'[p] \in Replacement => pc[p] \in Replacement
  PROVE  Busy' => Busy
BY DEF Busy, Replaces, TypeOK

-----------------------------------------------------------------------------
(* The initial state.                                                       *)

(* Before the first command there is nothing to be wrong. *)
LEMMA InitParts == Init => Parts
<1> SUFFICES ASSUME Init PROVE Parts OBVIOUS
<1>1. TypeOK
  <2>1. roots \in [Roots -> Content] /\ backup \in [Roots -> Content]
    BY DEF Init, Content, NoRoots
  <2>2. wanted \in [Procs -> Trees] /\ inv \in [Procs -> Inventories]
    BY DEF Init, Trees, Inventories, Nothing, NoInventory
  <2>3. found \in [Procs -> [Roots -> Content]] BY DEF Init, Content, NoRoots
  <2>4. edits \in 0..MaxEdits BY AssetsAssumption DEF Init
  <2>5. /\ marker = NoMarker /\ lock = NoProc /\ pc \in [Procs -> PCs]
        /\ forced \in [Procs -> BOOLEAN] /\ todo \in [Procs -> SUBSET Roots]
        /\ cause \in [Procs -> {"none", "rename", "copy"}] /\ raced \in [Procs -> BOOLEAN]
    BY DEF Init, PCs
  <2> QED BY <2>1, <2>2, <2>3, <2>4, <2>5 DEF TypeOK
<1>2. ASSUME NEW p \in Procs PROVE Part(p)
  <2>1. pc[p] = "idle" /\ cause[p] = "none" BY DEF Init
  <2> QED BY <2>1 DEF Part, RootPart, Placed, KeptInBackup, Holder, Replacement, Saving
<1>3. StampsAgree
  <2> SUFFICES ASSUME NEW r \in Roots, roots[r].stamp = backup[r].stamp
               PROVE roots[r].version = backup[r].version
    BY DEF StampsAgree
  <2>1. backup[r] = Absent /\ roots[r] \in Content BY <1>1 DEF Init, NoRoots, TypeOK
  <2> QED BY <2>1, ContentFacts, AbsentFacts
<1>4. MarkerIsTrue BY DEF Init, MarkerIsTrue
<1> QED BY <1>1, <1>2, <1>3, <1>4 DEF Parts

-----------------------------------------------------------------------------
(* A command ends.                                                          *)

(* A command that ends keeps the types. *)
LEMMA LeaveTypes ==
  ASSUME TypeOK, NEW p \in Procs, Leave(p)
  PROVE  /\ lock' \in Procs \cup {NoProc} /\ pc' \in [Procs -> PCs]
         /\ forced' \in [Procs -> BOOLEAN] /\ wanted' \in [Procs -> Trees]
         /\ todo' \in [Procs -> SUBSET Roots] /\ found' \in [Procs -> [Roots -> Content]]
         /\ cause' \in [Procs -> {"none", "rename", "copy"}]
         /\ inv' \in [Procs -> Inventories] /\ raced' \in [Procs -> BOOLEAN]
<1>1. Nothing \in Trees /\ NoInventory \in Inventories /\ NoRoots \in [Roots -> Content]
  BY DEF Nothing, Trees, NoInventory, Inventories, NoRoots, Content
<1>2. lock' \in Procs \cup {NoProc} /\ pc' \in [Procs -> PCs] /\ raced' \in [Procs -> BOOLEAN]
  BY DEF Leave, Goto, TypeOK, PCs
<1>3. forced' \in [Procs -> BOOLEAN] /\ cause' \in [Procs -> {"none", "rename", "copy"}]
  BY DEF Leave, TypeOK
<1>4. wanted' \in [Procs -> Trees] BY <1>1 DEF Leave, TypeOK
<1>5. todo' \in [Procs -> SUBSET Roots] BY DEF Leave, TypeOK
<1>6. found' \in [Procs -> [Roots -> Content]] BY <1>1 DEF Leave, TypeOK
<1>7. inv' \in [Procs -> Inventories] BY <1>1 DEF Leave, TypeOK
<1> QED BY <1>2, <1>3, <1>4, <1>5, <1>6, <1>7

(* A command that ends takes its own part with it, and leaves the others theirs. *)
LEMMA LeaveKeepsParts ==
  ASSUME Parts, NEW p \in Procs, Leave(p), UNCHANGED fileVars
  PROVE  \A q \in Procs : Part(q)'
<1>0. TypeOK BY DEF Parts
<1>1. Busy' => Busy
  <2>1. pc' = [pc EXCEPT ![p] = "done"] BY DEF Leave, Goto
  <2>2. pc'[p] = "done" BY <1>0, <2>1 DEF TypeOK
  <2> QED BY <1>0, <2>1, <2>2, BusyStays DEF Replacement
<1>2. pc'[p] = "done" /\ cause'[p] = "none" BY <1>0 DEF Leave, Goto, TypeOK
<1>3. Part(p)'
  BY <1>2 DEF Part, RootPart, Placed, KeptInBackup, Holder, Replacement, Saving
<1>4. ASSUME NEW q \in Procs, q # p PROVE Part(q)'
  <2>1. /\ pc'[q] = pc[q] /\ forced'[q] = forced[q] /\ wanted'[q] = wanted[q]
        /\ todo'[q] = todo[q] /\ found'[q] = found[q] /\ cause'[q] = cause[q]
        /\ inv'[q] = inv[q] /\ raced'[q] = raced[q]
    BY <1>0, <1>4 DEF Leave, Goto, TypeOK
  <2>2. lock = q => lock' = q BY <1>4 DEF Leave
  <2>3. Part(q) BY DEF Parts
  <2> QED BY <1>1, <2>1, <2>2, <2>3, Frame DEF fileVars
<1> QED BY <1>3, <1>4

(* A command that ends without touching a file keeps the invariant. *)
LEMMA LeaveKeeps ==
  ASSUME Parts, NEW p \in Procs, Leave(p), UNCHANGED <<fileVars, marker, edits>>
  PROVE  Parts'
<1>1. TypeOK' BY LeaveTypes DEF Parts, TypeOK, fileVars
<1>2. \A q \in Procs : Part(q)' BY LeaveKeepsParts
<1>3. StampsAgree' /\ MarkerIsTrue'
  BY DEF Parts, StampsAgree, MarkerIsTrue, Agrees, fileVars
<1> QED BY <1>1, <1>2, <1>3 DEF Parts

(* The new marker is true because the roots are as wanted, unless raced for. *)
LEMMA MarkCleanKeeps ==
  ASSUME Parts, NEW p \in Procs, MarkClean(p)
  PROVE  Parts'
<1>0. TypeOK /\ pc[p] = "mark" /\ Leave(p) /\ UNCHANGED <<fileVars, edits>>
  BY DEF Parts, MarkClean
<1>1. TypeOK'
  <2>1. Inventory \in Inventories
    <3>1. \A r \in Roots : roots[r].stamp \in Stamps \cup {NoStamp}
      BY <1>0, ContentFacts DEF TypeOK
    <3> QED BY <3>1 DEF Inventory, Inventories
  <2>2. marker' \in {NoMarker} \cup [tree: Trees, inventory: Inventories, raced: BOOLEAN]
    BY <1>0, <2>1 DEF MarkClean, TypeOK
  <2> QED BY <1>0, <2>2, LeaveTypes DEF TypeOK, fileVars
<1>2. \A q \in Procs : Part(q)' BY <1>0, LeaveKeepsParts
<1>3. StampsAgree' BY <1>0 DEF Parts, StampsAgree, fileVars
<1>4. MarkerIsTrue'
  <2> SUFFICES ASSUME marker' # NoMarker, ~marker'.raced, NEW r \in Roots
               PROVE  Agrees(roots[r], r)' /\ Agrees(backup[r], r)' /\ Agrees(Absent, r)'
    BY DEF MarkerIsTrue
  <2>1. marker'.tree = wanted[p] /\ marker'.inventory = Inventory /\ marker'.raced = raced[p]
    BY DEF MarkClean
  <2>2. marker'.inventory[r] = roots[r].stamp BY <2>1 DEF Inventory
  <2>3. roots[r].version = wanted[p][r]
    BY <1>0, <2>1 DEF Parts, Part, RootPart, Placed
  <2>4. roots[r].stamp = backup[r].stamp => roots[r].version = backup[r].version
    BY DEF Parts, StampsAgree
  <2>5. roots[r].stamp = Absent.stamp => roots[r].version = Absent.version
    BY <1>0, ContentFacts, AbsentFacts DEF TypeOK
  <2> QED BY <1>0, <2>1, <2>2, <2>3, <2>4, <2>5 DEF Agrees, fileVars
<1> QED BY <1>1, <1>2, <1>3, <1>4 DEF Parts

-----------------------------------------------------------------------------
(* Steps that leave the files and the marker alone.                         *)

Same(q) == /\ pc'[q] = pc[q] /\ forced'[q] = forced[q] /\ wanted'[q] = wanted[q]
           /\ todo'[q] = todo[q] /\ found'[q] = found[q] /\ cause'[q] = cause[q]
           /\ inv'[q] = inv[q]

(* A step that changes no file and no mark is judged by its own part alone. *)
LEMMA OwnStep ==
  ASSUME Parts, NEW p \in Procs, UNCHANGED <<fileVars, marker>>, TypeOK', Part(p)',
         Busy' => Busy,
         \A q \in Procs \ {p} : Same(q) /\ raced'[q] = raced[q] /\ (lock = q => lock' = q)
  PROVE  Parts'
<1>1. ASSUME NEW q \in Procs PROVE Part(q)'
  <2>1. CASE q # p BY <2>1, Frame DEF Parts, Same, fileVars
  <2> QED BY <2>1
<1>2. StampsAgree' /\ MarkerIsTrue'
  BY DEF Parts, StampsAgree, MarkerIsTrue, Agrees, fileVars
<1> QED BY <1>1, <1>2 DEF Parts

(* Outside of the rollback there is nothing to roll back. *)
LEMMA CauseStays ==
  ASSUME Parts, NEW p \in Procs, cause' = cause,
         pc[p] \notin {"rollback", "put_back"}, pc'[p] \notin {"rollback", "put_back"}
  PROVE  (cause[p] # "none" <=> pc[p] \in {"rollback", "put_back"})'
BY DEF Parts, Part

(* pull begins. *)
LEMMA StartPullKeeps ==
  ASSUME Parts, NEW p \in Procs, StartPull(p) PROVE Parts'
<1>0. /\ TypeOK /\ pc[p] = "idle"
      /\ pc' = [pc EXCEPT ![p] = "download"] /\ pc'[p] = "download"
  BY DEF Parts, StartPull, Goto, TypeOK
<1>1. TypeOK'
  <2>1. PICK f \in BOOLEAN, t \in Sources :
          forced' = [forced EXCEPT ![p] = f] /\ wanted' = [wanted EXCEPT ![p] = t]
    BY DEF StartPull
  <2>2. t \in Trees BY AssetsAssumption
  <2>3. forced' \in [Procs -> BOOLEAN] /\ wanted' \in [Procs -> Trees]
    BY <1>0, <2>1, <2>2 DEF TypeOK
  <2>4. pc' \in [Procs -> PCs] BY <1>0 DEF TypeOK, PCs
  <2> QED BY <1>0, <2>3, <2>4 DEF StartPull, TypeOK, fileVars
<1>c. (cause[p] # "none" <=> pc[p] \in {"rollback", "put_back"})'
  BY <1>0, CauseStays DEF StartPull
<1>2. Part(p)' BY <1>0, <1>c DEF Part, RootPart, Placed, KeptInBackup, Holder, Replacement, Saving
<1>3. Busy' => Busy BY <1>0, BusyStays DEF Replacement
<1>4. \A q \in Procs \ {p} : Same(q) /\ raced'[q] = raced[q] /\ (lock = q => lock' = q)
  BY <1>0 DEF StartPull, Same, TypeOK
<1> QED BY <1>1, <1>2, <1>3, <1>4, OwnStep DEF StartPull

(* checkpoint takes the inventory of the Task. *)
LEMMA TakeInventoryKeeps ==
  ASSUME Parts, NEW p \in Procs, TakeInventory(p) PROVE Parts'
<1>0. /\ TypeOK /\ pc[p] = "idle"
      /\ pc' = [pc EXCEPT ![p] = "inventory"] /\ pc'[p] = "inventory"
  BY DEF Parts, TakeInventory, Goto, TypeOK
<1>1. TypeOK'
  <2>1. Inventory \in Inventories
    <3>1. \A r \in Roots : roots[r].stamp \in Stamps \cup {NoStamp}
      BY <1>0, ContentFacts DEF TypeOK
    <3> QED BY <3>1 DEF Inventory, Inventories
  <2>2. inv' \in [Procs -> Inventories] BY <1>0, <2>1 DEF TakeInventory, TypeOK
  <2>3. Busy \in BOOLEAN BY DEF Busy
  <2>4. raced' \in [Procs -> BOOLEAN] BY <1>0, <2>3 DEF TakeInventory, TypeOK
  <2>5. pc' \in [Procs -> PCs] BY <1>0 DEF TypeOK, PCs, Saving
  <2> QED BY <1>0, <2>2, <2>4, <2>5 DEF TakeInventory, TypeOK, fileVars
<1>3. Busy' => Busy BY <1>0, BusyStays DEF Replacement
<1>2. Part(p)'
  <2>1. raced'[p] = Busy BY <1>0 DEF TakeInventory, TypeOK
  <2>2. (cause[p] # "none" <=> pc[p] \in {"rollback", "put_back"})'
    BY <1>0, CauseStays DEF TakeInventory
  <2> QED BY <1>0, <1>3, <2>1, <2>2 DEF Part, RootPart, Placed, KeptInBackup, Holder, Replacement, Saving
<1>4. \A q \in Procs \ {p} : Same(q) /\ raced'[q] = raced[q] /\ (lock = q => lock' = q)
  BY <1>0 DEF TakeInventory, Same, TypeOK
<1> QED BY <1>1, <1>2, <1>3, <1>4, OwnStep DEF TakeInventory

(* checkpoint observes the roots before it copies them. *)
LEMMA ObserveFirstKeeps ==
  ASSUME Parts, NEW p \in Procs, ObserveFirst(p) PROVE Parts'
<1>0. /\ TypeOK /\ pc' = [pc EXCEPT ![p] = "save"] /\ pc'[p] = "save"
      /\ pc[p] = "inventory" /\ todo'[p] = Roots
  BY DEF Parts, ObserveFirst, Loop, Goto, TypeOK
<1>1. TypeOK'
  <2>1. pc' \in [Procs -> PCs] BY <1>0 DEF TypeOK, PCs, Saving
  <2>2. todo' \in [Procs -> SUBSET Roots] BY <1>0 DEF ObserveFirst, Loop, TypeOK
  <2> QED BY <1>0, <2>1, <2>2 DEF ObserveFirst, TypeOK, fileVars
<1>3. Busy' => Busy BY <1>0, BusyStays DEF Replacement
<1>2. Part(p)'
  <2>1. raced' = raced /\ (~raced[p] => ~Busy)
    BY <1>0 DEF Parts, Part, Saving, ObserveFirst
  <2>2. (cause[p] # "none" <=> pc[p] \in {"rollback", "put_back"})'
    BY <1>0, CauseStays DEF ObserveFirst
  <2> QED BY <1>0, <1>3, <2>1, <2>2 DEF Part, RootPart, Placed, KeptInBackup, Holder, Replacement, Saving
<1>4. \A q \in Procs \ {p} : Same(q) /\ raced'[q] = raced[q] /\ (lock = q => lock' = q)
  BY <1>0 DEF ObserveFirst, Loop, Same, TypeOK
<1> QED BY <1>1, <1>2, <1>3, <1>4, OwnStep DEF ObserveFirst

(* checkpoint copies a root into its staging directory. *)
LEMMA CopyRootKeeps ==
  ASSUME Parts, NEW p \in Procs, NEW r \in Roots, CopyRoot(p, r) PROVE Parts'
<1>0. TypeOK /\ pc[p] = "save" /\ r \in todo[p] /\ pc' = pc
  BY DEF Parts, CopyRoot, Turn
<1>1. roots[r].version \in Versions \cup {Partial, NoFiles}
  BY <1>0, ContentFacts DEF TypeOK
<1>2. wanted'[p] = [wanted[p] EXCEPT ![r] = roots[r].version] /\ todo'[p] = todo[p] \ {r}
  BY <1>0 DEF CopyRoot, Took, TypeOK
<1>3. TypeOK'
  <2>1. wanted[p] \in Trees BY <1>0 DEF TypeOK
  <2>2. wanted'[p] \in Trees BY <1>1, <1>2, <2>1 DEF Trees
  <2>3. wanted' = [wanted EXCEPT ![p] = wanted'[p]] BY <1>0, <1>2 DEF CopyRoot, TypeOK
  <2>4. wanted' \in [Procs -> Trees] BY <1>0, <2>2, <2>3 DEF TypeOK
  <2>5. todo' \in [Procs -> SUBSET Roots] BY <1>0 DEF CopyRoot, Took, TypeOK
  <2> QED BY <1>0, <2>4, <2>5 DEF CopyRoot, TypeOK, fileVars
<1>4. Busy' = Busy BY <1>0 DEF Busy, Replaces
<1>5. Part(p)'
  <2>1. roots' = roots /\ inv' = inv /\ raced' = raced BY DEF CopyRoot, fileVars
  <2>2. \A q \in Roots : q # r => wanted'[p][q] = wanted[p][q]
    BY <1>0, <1>2 DEF TypeOK, Trees
  <2>3. wanted'[p][r] = roots[r].version BY <1>0, <1>2 DEF TypeOK, Trees
  <2>4. ASSUME NEW q \in Roots PROVE RootPart(p, q)'
    <3>1. (pc[p] = "save" /\ ~raced[p] /\ q \notin todo[p] /\ roots[q].stamp = inv[p][q]
             => roots[q].version = wanted[p][q])'
      BY <1>0, <1>2, <2>1, <2>2, <2>3 DEF Parts, Part, RootPart
    <3> QED BY <1>0, <3>1 DEF RootPart, Placed, KeptInBackup
  <2>5. pc[p] \in Saving /\ ~raced[p] => ~Busy BY DEF Parts, Part
  <2>6. (cause[p] # "none" <=> pc[p] \in {"rollback", "put_back"})'
    BY <1>0, CauseStays DEF CopyRoot
  <2> QED BY <1>0, <1>4, <2>1, <2>4, <2>5, <2>6 DEF Part, Holder, Replacement
<1>6. \A q \in Procs \ {p} : Same(q) /\ raced'[q] = raced[q] /\ (lock = q => lock' = q)
  BY <1>0 DEF CopyRoot, Took, Same, TypeOK
<1> QED BY <1>3, <1>4, <1>5, <1>6, OwnStep DEF CopyRoot

(* The roots read as at first, so what was copied is what they hold. *)
LEMMA CommitKeeps ==
  ASSUME Parts, NEW p \in Procs, Commit(p) PROVE Parts'
<1>0. /\ TypeOK /\ pc[p] = "save" /\ todo[p] = {} /\ Inventory = inv[p]
      /\ pc' = [pc EXCEPT ![p] = "saved"] /\ pc'[p] = "saved"
      /\ UNCHANGED <<fileVars, marker, lock, procVars, raced, edits>>
  BY DEF Parts, Commit, Goto, TypeOK
<1>1. TypeOK'
  <2>1. pc' \in [Procs -> PCs] BY <1>0 DEF TypeOK, PCs, Saving
  <2> QED BY <1>0, <2>1 DEF TypeOK, fileVars, procVars
<1>3. Busy' => Busy BY <1>0, BusyStays DEF Replacement
<1>2. Part(p)'
  <2>1. ASSUME NEW r \in Roots PROVE RootPart(p, r)'
    <3>1. roots[r].stamp = inv[p][r] BY <1>0 DEF Inventory
    <3>2. ~raced[p] => roots[r].version = wanted[p][r]
      BY <1>0, <3>1 DEF Parts, Part, RootPart
    <3> QED BY <1>0, <3>2 DEF RootPart, Placed, KeptInBackup, fileVars, procVars
  <2>2. pc[p] \in Saving /\ ~raced[p] => ~Busy BY DEF Parts, Part
  <2>3. (cause[p] # "none" <=> pc[p] \in {"rollback", "put_back"})'
    BY <1>0, CauseStays DEF procVars
  <2> QED BY <1>0, <1>3, <2>1, <2>2, <2>3 DEF Part, Holder, Replacement, Saving
<1>4. \A q \in Procs \ {p} : Same(q) /\ raced'[q] = raced[q] /\ (lock = q => lock' = q)
  BY <1>0 DEF Same, TypeOK, procVars
<1> QED BY <1>0, <1>1, <1>2, <1>3, <1>4, OwnStep

(* checkpoint takes the lock to mark its commit. *)
LEMMA LockToMarkKeeps ==
  ASSUME Parts, NEW p \in Procs, LockToMark(p) PROVE Parts'
<1>0. /\ TypeOK /\ pc[p] = "saved" /\ lock = NoProc /\ lock' = p
      /\ pc' = [pc EXCEPT ![p] = "mark"] /\ pc'[p] = "mark"
      /\ UNCHANGED <<fileVars, marker, procVars, raced, edits>>
  BY DEF Parts, LockToMark, Goto, TypeOK
<1>1. TypeOK'
  <2>1. pc' \in [Procs -> PCs] BY <1>0 DEF TypeOK, PCs
  <2> QED BY <1>0, <2>1 DEF TypeOK, fileVars, procVars
<1>3. Busy' => Busy BY <1>0, BusyStays DEF Replacement
<1>2. Part(p)'
  <2>1. ASSUME NEW r \in Roots PROVE RootPart(p, r)'
    <3>1. ~raced[p] => roots[r].version = wanted[p][r]
      BY <1>0 DEF Parts, Part, RootPart, Placed
    <3> QED BY <1>0, <3>1 DEF RootPart, Placed, KeptInBackup, fileVars, procVars
  <2>2. (cause[p] # "none" <=> pc[p] \in {"rollback", "put_back"})'
    BY <1>0, CauseStays DEF procVars
  <2> QED BY <1>0, <2>1, <2>2 DEF Part, Holder, Replacement, Saving
<1>4. \A q \in Procs \ {p} : Same(q) /\ raced'[q] = raced[q] /\ (lock = q => lock' = q)
  BY <1>0, AssetsAssumption DEF Same, TypeOK, procVars
<1> QED BY <1>0, <1>1, <1>2, <1>3, <1>4, OwnStep

-----------------------------------------------------------------------------
(* The loops of a replacement.                                              *)

(* The roots are looked at again, under the lock, before they are replaced. *)
LEMMA StartReplacingKeeps ==
  ASSUME Parts, NEW p \in Procs, StartReplacing(p) PROVE Parts'
<1>0. /\ TypeOK /\ pc[p] = "download" /\ lock = NoProc /\ lock' = p /\ MayReplace(p)
      /\ pc' = [pc EXCEPT ![p] = "clear"] /\ pc'[p] = "clear"
      /\ todo' = [todo EXCEPT ![p] = Roots] /\ todo'[p] = Roots
      /\ found' = [found EXCEPT ![p] = roots] /\ found'[p] = roots
      /\ UNCHANGED <<fileVars, marker, forced, wanted, cause, inv, edits>>
      /\ raced' = [q \in Procs |-> raced[q] \/ pc[q] \in Saving]
  BY DEF Parts, StartReplacing, Loop, Goto, TypeOK
<1>1. TypeOK'
  <2>1. pc' \in [Procs -> PCs] BY <1>0 DEF TypeOK, PCs, Replacement
  <2>2. todo' \in [Procs -> SUBSET Roots] /\ found' \in [Procs -> [Roots -> Content]]
    BY <1>0 DEF TypeOK
  <2>3. raced' \in [Procs -> BOOLEAN] BY <1>0
  <2>4. lock' \in Procs \cup {NoProc} BY <1>0
  <2> QED BY <1>0, <2>1, <2>2, <2>3, <2>4 DEF TypeOK, fileVars
<1>3. Part(p)'
  <2>1. raced'[p] = raced[p] BY <1>0 DEF TypeOK, Saving
  <2>2. ASSUME NEW r \in Roots PROVE RootPart(p, r)'
    <3>1. ~forced[p] => roots[r] = Absent BY <1>0 DEF MayReplace, AllAbsent
    <3> QED BY <1>0, <3>1 DEF RootPart, Placed, KeptInBackup, fileVars
  <2>3. (cause[p] # "none" <=> pc[p] \in {"rollback", "put_back"})'
    BY <1>0, CauseStays
  <2> QED BY <1>0, <2>2, <2>3 DEF Part, Holder, Replacement, Saving
<1>4. ASSUME NEW q \in Procs, q # p PROVE Part(q)'
  <2>1. Same(q) /\ raced'[q] = (raced[q] \/ pc[q] \in Saving) /\ lock # q
    BY <1>0, <1>4, AssetsAssumption DEF Same, TypeOK
  <2>2. raced[q] \in BOOLEAN BY <1>0 DEF TypeOK
  <2> QED BY <1>0, <2>1, <2>2, Frame DEF Parts, Same, fileVars
<1>5. StampsAgree' /\ MarkerIsTrue'
  BY <1>0 DEF Parts, StampsAgree, MarkerIsTrue, Agrees, fileVars
<1> QED BY <1>1, <1>3, <1>4, <1>5 DEF Parts

(* A loop over the roots has done all of them. *)
LEMMA NextLoopKeeps ==
  ASSUME Parts, NEW p \in Procs, NextLoop(p) PROVE Parts'
<1>0. /\ TypeOK /\ todo[p] = {}
      /\ UNCHANGED <<fileVars, marker, lock, forced, wanted, found, cause, inv, raced, edits>>
  BY DEF Parts, NextLoop
<1>1. \/ pc[p] = "clear" /\ pc'[p] = "rename" /\ todo'[p] = Roots
      \/ pc[p] = "rename" /\ pc'[p] = "copy" /\ todo'[p] = Roots
      \/ pc[p] = "copy" /\ pc'[p] = "discard" /\ todo'[p] = Roots
      \/ pc[p] = "discard" /\ pc'[p] = "mark" /\ todo'[p] = {}
  BY <1>0 DEF NextLoop, Loop, Goto, TypeOK
<1>2. pc' = [pc EXCEPT ![p] = pc'[p]] /\ todo' = [todo EXCEPT ![p] = todo'[p]]
  BY <1>0 DEF NextLoop, Loop, Goto, TypeOK
<1>3. TypeOK'
  <2>1. pc' \in [Procs -> PCs] BY <1>0, <1>1, <1>2 DEF TypeOK, PCs, Replacement
  <2>2. todo' \in [Procs -> SUBSET Roots] BY <1>0, <1>1, <1>2 DEF TypeOK
  <2> QED BY <1>0, <2>1, <2>2 DEF TypeOK, fileVars
<1>4. Busy' => Busy BY <1>0, <1>1, <1>2, BusyStays DEF Replacement
<1>5. Part(p)'
  <2>1. ASSUME NEW r \in Roots PROVE RootPart(p, r)'
    <3>1. RootPart(p, r) BY DEF Parts, Part
    <3>2. (~raced[p] => Placed(p, r))'
      BY <1>0, <1>1, <3>1 DEF RootPart, Placed, fileVars
    <3>3. (~raced[p] /\ Has(p, r) /\ KeptInBackup(p, r) => backup[r] = found[p][r])'
      BY <1>0, <1>1, <3>1 DEF RootPart, KeptInBackup, Has, fileVars
    <3>4. (pc[p] \in {"clear", "rename"} /\ ~forced[p] /\ ~raced[p] => roots[r] = Absent)'
      BY <1>0, <1>1, <3>1 DEF RootPart, fileVars
    <3> QED BY <1>1, <3>2, <3>3, <3>4 DEF RootPart
  <2>2. lock = p /\ cause[p] = "none"
    BY <1>0, <1>1 DEF Parts, Part, Holder, Replacement, TypeOK
  <2> QED BY <1>0, <1>1, <2>1, <2>2 DEF Part, Holder, Replacement, Saving
<1>6. \A q \in Procs \ {p} : Same(q) /\ raced'[q] = raced[q] /\ (lock = q => lock' = q)
  BY <1>0, <1>2 DEF Same, TypeOK
<1> QED BY <1>0, <1>3, <1>4, <1>5, <1>6, OwnStep

(* A rename or a copy raises, and the rollback begins. *)
LEMMA ReplaceFailsKeeps ==
  ASSUME Parts, NEW p \in Procs, ReplaceFails(p) PROVE Parts'
<1>0. /\ TypeOK /\ pc[p] \in {"rename", "copy", "fill"}
      /\ pc' = [pc EXCEPT ![p] = "rollback"] /\ pc'[p] = "rollback"
      /\ todo' = [todo EXCEPT ![p] = Roots] /\ todo'[p] = Roots
      /\ cause'[p] = (IF pc[p] = "rename" THEN "rename" ELSE "copy")
      /\ cause' = [cause EXCEPT ![p] = cause'[p]]
      /\ UNCHANGED <<fileVars, marker, lock, forced, wanted, found, inv, raced, edits>>
  BY DEF Parts, ReplaceFails, Loop, Goto, TypeOK
<1>3. TypeOK'
  <2>1. pc' \in [Procs -> PCs] BY <1>0 DEF TypeOK, PCs, Replacement
  <2>2. todo' \in [Procs -> SUBSET Roots] /\ cause' \in [Procs -> {"none", "rename", "copy"}]
    BY <1>0 DEF TypeOK
  <2> QED BY <1>0, <2>1, <2>2 DEF TypeOK, fileVars
<1>4. Busy' => Busy BY <1>0, BusyStays DEF Replacement
<1>5. Part(p)'
  <2>1. ASSUME NEW r \in Roots PROVE RootPart(p, r)'
    <3>1. RootPart(p, r) BY DEF Parts, Part
    <3>2. (~raced[p] /\ Has(p, r) /\ KeptInBackup(p, r) => backup[r] = found[p][r])'
      BY <1>0, <3>1 DEF RootPart, KeptInBackup, Has, fileVars
    <3> QED BY <1>0, <3>2 DEF RootPart, Placed
  <2>2. lock = p BY <1>0 DEF Parts, Part, Holder, Replacement
  <2> QED BY <1>0, <2>1, <2>2 DEF Part, Holder, Replacement, Saving
<1>6. \A q \in Procs \ {p} : Same(q) /\ raced'[q] = raced[q] /\ (lock = q => lock' = q)
  BY <1>0 DEF Same, TypeOK
<1> QED BY <1>0, <1>3, <1>4, <1>5, <1>6, OwnStep

-----------------------------------------------------------------------------
(* Steps of a replacement that change one root or its backup.               *)

(* A root that got its own or its backup's content, or a fresh stamp, keeps content and
   stamps in step. *)
LEMMA FilesAgree ==
  ASSUME Parts, NEW r \in Roots, marker' = marker,
         \A q \in Roots \ {r} : roots'[q] = roots[q] /\ backup'[q] = backup[q],
         backup'[r] \in {roots[r], backup[r], Absent},
         \/ roots'[r] \in {roots[r], backup[r], Absent}
         \/ backup'[r] = backup[r] /\ roots'[r].stamp \in Unused(r)
  PROVE  StampsAgree' /\ MarkerIsTrue'
<1>1. /\ roots[r].stamp = backup[r].stamp => roots[r].version = backup[r].version
      /\ roots[r].stamp = Absent.stamp => roots[r].version = Absent.version
      /\ backup[r].stamp = Absent.stamp => backup[r].version = Absent.version
  BY ContentFacts, AbsentFacts DEF Parts, TypeOK, StampsAgree
<1>2. StampsAgree'
  <2>1. roots'[r].stamp = backup'[r].stamp => roots'[r].version = backup'[r].version
    BY <1>1 DEF Unused
  <2> QED BY <2>1 DEF StampsAgree, Parts
<1>3. MarkerIsTrue'
  <2> SUFFICES ASSUME marker # NoMarker, ~marker.raced, NEW q \in Roots
               PROVE  Agrees(roots[q], q)' /\ Agrees(backup[q], q)' /\ Agrees(Absent, q)'
    BY DEF MarkerIsTrue
  <2>1. Agrees(roots[q], q) /\ Agrees(backup[q], q) /\ Agrees(Absent, q)
    BY DEF Parts, MarkerIsTrue
  <2>2. CASE q # r BY <2>1, <2>2 DEF Agrees
  <2>3. CASE q = r BY <2>1, <2>3 DEF Agrees, Unused
  <2> QED BY <2>2, <2>3
<1> QED BY <1>2, <1>3

(* A step of a replacement is judged by its own part and the files. *)
LEMMA ReplaceStep ==
  ASSUME Parts, NEW p \in Procs, Replaces(p), TypeOK', Part(p)', StampsAgree', MarkerIsTrue',
         lock' = lock, raced' = raced, \A q \in Procs \ {p} : Same(q)
  PROVE  Parts'
<1>1. ASSUME NEW q \in Procs PROVE Part(q)'
  <2>1. CASE q # p
    <3>1. pc[q] \notin Holder /\ (pc[q] \in Saving => raced[q])
      BY <2>1, Alone DEF Replaces, Holder
    <3>2. Busy BY DEF Busy
    <3> QED BY <2>1, <3>1, <3>2, Frame DEF Parts, Same
  <2> QED BY <2>1
<1> QED BY <1>1 DEF Parts

(* What RootPart says of a command that replaces. *)
LEMMA OwnPart ==
  ASSUME Parts, NEW p \in Procs, Replaces(p), pc'[p] \in Replacement, lock' = lock,
         (cause[p] # "none" <=> pc[p] \in {"rollback", "put_back"})',
         \A r \in Roots : RootPart(p, r)'
  PROVE  Part(p)'
BY DEF Parts, Part, Replaces, Holder, Replacement, Saving

(* A backup that an earlier command left is cleared. *)
LEMMA ClearBackupKeeps ==
  ASSUME Parts, NEW p \in Procs, NEW r \in Roots, ClearBackup(p, r) PROVE Parts'
<1>0. /\ TypeOK /\ pc[p] = "clear" /\ todo'[p] = todo[p] \ {r}
      /\ todo' = [todo EXCEPT ![p] = todo'[p]]
      /\ UNCHANGED <<roots, marker, lock, pc, forced, wanted, found, cause, inv, raced, edits>>
  BY DEF Parts, ClearBackup, Turn, Took, TypeOK
<1>1. backup' \in [Roots -> Content] /\ backup'[r] \in {backup[r], Absent}
      /\ \A q \in Roots \ {r} : backup'[q] = backup[q]
  BY <1>0, AbsentFacts DEF ClearBackup, TypeOK
<1>2. TypeOK'
  <2>1. todo' \in [Procs -> SUBSET Roots] BY <1>0 DEF TypeOK
  <2> QED BY <1>0, <1>1, <2>1 DEF TypeOK
<1>3. StampsAgree' /\ MarkerIsTrue' BY <1>0, <1>1, FilesAgree
<1>4. Part(p)'
  <2>1. ASSUME NEW q \in Roots PROVE RootPart(p, q)'
    BY <1>0 DEF Parts, Part, RootPart, Placed, KeptInBackup, Has
  <2> QED BY <1>0, <2>1, OwnPart DEF Replaces, Replacement, Parts, Part
<1>5. \A q \in Procs \ {p} : Same(q) BY <1>0 DEF Same, TypeOK
<1> QED BY <1>0, <1>2, <1>3, <1>4, <1>5, ReplaceStep DEF Replaces, Replacement

(* The backup of a root that was replaced is removed. *)
LEMMA DiscardBackupKeeps ==
  ASSUME Parts, NEW p \in Procs, NEW r \in Roots, DiscardBackup(p, r) PROVE Parts'
<1>0. /\ TypeOK /\ pc[p] = "discard" /\ todo'[p] = todo[p] \ {r}
      /\ todo' = [todo EXCEPT ![p] = todo'[p]]
      /\ UNCHANGED <<roots, marker, lock, pc, forced, wanted, found, cause, inv, raced, edits>>
  BY DEF Parts, DiscardBackup, Turn, Took, TypeOK
<1>1. backup' \in [Roots -> Content] /\ backup'[r] \in {backup[r], Absent}
      /\ \A q \in Roots \ {r} : backup'[q] = backup[q]
  BY <1>0, AbsentFacts DEF DiscardBackup, TypeOK
<1>2. TypeOK'
  <2>1. todo' \in [Procs -> SUBSET Roots] BY <1>0 DEF TypeOK
  <2> QED BY <1>0, <1>1, <2>1 DEF TypeOK
<1>3. StampsAgree' /\ MarkerIsTrue' BY <1>0, <1>1, FilesAgree
<1>4. Part(p)'
  <2>1. ASSUME NEW q \in Roots PROVE RootPart(p, q)'
    BY <1>0 DEF Parts, Part, RootPart, Placed, KeptInBackup, Has
  <2> QED BY <1>0, <2>1, OwnPart DEF Replaces, Replacement, Parts, Part
<1>5. \A q \in Procs \ {p} : Same(q) BY <1>0 DEF Same, TypeOK
<1> QED BY <1>0, <1>2, <1>3, <1>4, <1>5, ReplaceStep DEF Replaces, Replacement

(* A root is renamed to its backup. *)
LEMMA MoveAsideKeeps ==
  ASSUME Parts, NEW p \in Procs, NEW r \in Roots, MoveAside(p, r) PROVE Parts'
<1>0. /\ TypeOK /\ pc[p] = "rename" /\ r \in todo[p] /\ todo'[p] = todo[p] \ {r}
      /\ todo' = [todo EXCEPT ![p] = todo'[p]]
      /\ UNCHANGED <<marker, lock, pc, forced, wanted, found, cause, inv, raced, edits>>
  BY DEF Parts, MoveAside, Turn, Took, TypeOK
<1>1. /\ roots' \in [Roots -> Content] /\ backup' \in [Roots -> Content]
      /\ roots'[r] = Absent /\ (roots[r] # Absent => backup'[r] = roots[r])
      /\ (roots[r] = Absent => backup'[r] = backup[r])
      /\ \A q \in Roots \ {r} : roots'[q] = roots[q] /\ backup'[q] = backup[q]
  <2>1. CASE roots[r] = Absent /\ UNCHANGED fileVars BY <1>0, <2>1 DEF TypeOK, fileVars
  <2>2. CASE /\ roots[r] # Absent
             /\ backup' = [backup EXCEPT ![r] = roots[r]]
             /\ roots' = [roots EXCEPT ![r] = Absent]
    BY <1>0, <2>2, AbsentFacts DEF TypeOK
  <2> QED BY <2>1, <2>2 DEF MoveAside
<1>2. TypeOK'
  <2>1. todo' \in [Procs -> SUBSET Roots] BY <1>0 DEF TypeOK
  <2> QED BY <1>0, <1>1, <2>1 DEF TypeOK
<1>3. StampsAgree' /\ MarkerIsTrue' BY <1>0, <1>1, FilesAgree
<1>4. Part(p)'
  <2>1. ASSUME NEW q \in Roots PROVE RootPart(p, q)'
    <3>1. RootPart(p, q) BY DEF Parts, Part
    <3>2. (~raced[p] => Placed(p, q))'
      BY <1>0, <1>1, <3>1 DEF RootPart, Placed
    <3>3. (~raced[p] /\ Has(p, q) /\ KeptInBackup(p, q) => backup[q] = found[p][q])'
      BY <1>0, <1>1, <3>1 DEF RootPart, Placed, KeptInBackup, Has
    <3>4. (pc[p] \in {"clear", "rename"} /\ ~forced[p] /\ ~raced[p] => roots[q] = Absent)'
      BY <1>0, <1>1, <3>1 DEF RootPart
    <3> QED BY <1>0, <3>2, <3>3, <3>4 DEF RootPart
  <2> QED BY <1>0, <2>1, OwnPart DEF Replaces, Replacement, Parts, Part
<1>5. \A q \in Procs \ {p} : Same(q) BY <1>0 DEF Same, TypeOK
<1> QED BY <1>0, <1>2, <1>3, <1>4, <1>5, ReplaceStep DEF Replaces, Replacement

(* The copy of a root begins, with part of the files there. *)
LEMMA StartCopyKeeps ==
  ASSUME Parts, NEW p \in Procs, NEW r \in Roots, StartCopy(p, r) PROVE Parts'
<1>0. /\ TypeOK /\ pc[p] = "copy" /\ r \in todo[p]
      /\ \A q \in todo[p] : Order[r] <= Order[q]
      /\ UNCHANGED <<backup, marker, lock, forced, wanted, found, cause, inv, raced, edits>>
  BY DEF Parts, StartCopy, Turn
<1>1. CASE /\ wanted[p][r] = NoFiles /\ Took(p, r) /\ UNCHANGED <<roots, pc>>
  <2>1. todo'[p] = todo[p] \ {r} /\ todo' = [todo EXCEPT ![p] = todo'[p]]
    BY <1>0, <1>1 DEF Took, TypeOK
  <2>2. TypeOK'
    <3>1. todo' \in [Procs -> SUBSET Roots] BY <1>0, <2>1 DEF TypeOK
    <3> QED BY <1>0, <1>1, <3>1 DEF TypeOK
  <2>3. Part(p)'
    <3>1. ASSUME NEW q \in Roots PROVE RootPart(p, q)'
      BY <1>0, <1>1, <2>1, AbsentFacts
      DEF Parts, Part, RootPart, Placed, KeptInBackup, Has
    <3> QED BY <1>0, <1>1, <3>1, OwnPart DEF Replaces, Replacement, Parts, Part
  <2>4. \A q \in Procs \ {p} : Same(q) BY <1>0, <1>1, <2>1 DEF Same, TypeOK
  <2>5. StampsAgree' /\ MarkerIsTrue'
    BY <1>0, <1>1 DEF Parts, StampsAgree, MarkerIsTrue, Agrees
  <2> QED BY <1>0, <2>2, <2>3, <2>4, <2>5, ReplaceStep DEF Replaces, Replacement
<1>2. CASE /\ wanted[p][r] # NoFiles /\ roots[r] = Absent
           /\ \E s \in Unused(r) : roots' = [roots EXCEPT ![r] = [version |-> Partial, stamp |-> s]]
           /\ Goto(p, "fill") /\ UNCHANGED todo
  <2>0. PICK s \in Unused(r) : roots' = [roots EXCEPT ![r] = [version |-> Partial, stamp |-> s]]
    BY <1>2
  <2>1. /\ pc' = [pc EXCEPT ![p] = "fill"] /\ pc'[p] = "fill" /\ todo' = todo
        /\ roots' \in [Roots -> Content] /\ roots'[r].stamp \in Unused(r)
        /\ \A q \in Roots \ {r} : roots'[q] = roots[q]
    BY <1>0, <1>2, <2>0 DEF Goto, TypeOK, Content, Unused
  <2>2. TypeOK'
    <3>1. pc' \in [Procs -> PCs] BY <1>0, <2>1 DEF TypeOK, PCs, Replacement
    <3> QED BY <1>0, <2>1, <3>1 DEF TypeOK
  <2>3. Part(p)'
    <3>1. ASSUME NEW q \in Roots PROVE RootPart(p, q)'
      <4>1. RootPart(p, q) BY DEF Parts, Part
      <4>2. (~raced[p] => Placed(p, q))'
        <5>1. CASE q = r BY <1>0, <2>1, <5>1 DEF Placed
        <5>2. CASE q # r BY <1>0, <2>1, <4>1, <5>2 DEF RootPart, Placed
        <5> QED BY <5>1, <5>2
      <4>3. (~raced[p] /\ Has(p, q) /\ KeptInBackup(p, q) => backup[q] = found[p][q])'
        BY <1>0, <2>1, <4>1 DEF RootPart, KeptInBackup, Has
      <4> QED BY <1>0, <2>1, <4>2, <4>3 DEF RootPart
    <3> QED BY <1>0, <2>1, <3>1, OwnPart DEF Replaces, Replacement, Parts, Part
  <2>4. \A q \in Procs \ {p} : Same(q) BY <1>0, <2>1 DEF Same, TypeOK
  <2>5. StampsAgree' /\ MarkerIsTrue' BY <1>0, <2>1, FilesAgree
  <2> QED BY <1>0, <2>2, <2>3, <2>4, <2>5, ReplaceStep DEF Replaces, Replacement
<1> QED BY <1>1, <1>2 DEF StartCopy

(* The copy of a root is whole. *)
LEMMA FinishCopyKeeps ==
  ASSUME Parts, NEW p \in Procs, NEW r \in Roots, FinishCopy(p, r) PROVE Parts'
<1>0. /\ TypeOK /\ pc[p] = "fill" /\ r \in todo[p]
      /\ \A q \in todo[p] : Order[r] <= Order[q]
      /\ pc' = [pc EXCEPT ![p] = "copy"] /\ pc'[p] = "copy"
      /\ todo'[p] = todo[p] \ {r} /\ todo' = [todo EXCEPT ![p] = todo'[p]]
      /\ UNCHANGED <<backup, marker, lock, forced, wanted, found, cause, inv, raced, edits>>
  BY DEF Parts, FinishCopy, Turn, Took, Goto, TypeOK
<1>s. PICK s \in Unused(r) :
        roots' = [roots EXCEPT ![r] = [version |-> wanted[p][r], stamp |-> s]]
  BY DEF FinishCopy
<1>1. /\ roots' \in [Roots -> Content] /\ roots'[r].stamp \in Unused(r)
      /\ roots'[r].version = wanted[p][r]
      /\ \A q \in Roots \ {r} : roots'[q] = roots[q]
  <2>1. wanted[p][r] \in Versions \cup {Partial} BY <1>0 DEF FinishCopy, TypeOK, Trees
  <2>2. [version |-> wanted[p][r], stamp |-> s] \in Content
    BY <2>1 DEF Content, Unused
  <2> QED BY <1>0, <1>s, <2>2 DEF TypeOK
<1>2. TypeOK'
  <2>1. todo' \in [Procs -> SUBSET Roots] BY <1>0 DEF TypeOK
  <2>2. pc' \in [Procs -> PCs] BY <1>0 DEF TypeOK, PCs, Replacement
  <2> QED BY <1>0, <1>1, <2>1, <2>2 DEF TypeOK
<1>3. StampsAgree' /\ MarkerIsTrue' BY <1>0, <1>1, FilesAgree
<1>4. Part(p)'
  <2>1. ASSUME NEW q \in Roots PROVE RootPart(p, q)'
    <3>1. RootPart(p, q) BY DEF Parts, Part
    <3>2. (~raced[p] => Placed(p, q))'
      <4>1. CASE q = r BY <1>0, <1>1, <4>1 DEF Placed
      <4>2. CASE q # r
        <5>1. q \in todo[p] /\ (\A x \in todo[p] : Order[q] <= Order[x]) => FALSE
          <6> SUFFICES ASSUME q \in todo[p], \A x \in todo[p] : Order[q] <= Order[x]
                       PROVE  FALSE
            OBVIOUS
          <6>1. Order[q] <= Order[r] /\ Order[r] <= Order[q] BY <1>0
          <6>2. Order[q] \in Nat /\ Order[r] \in Nat BY AssetsAssumption
          <6>3. Order[q] = Order[r] BY <6>1, <6>2
          <6> QED BY <4>2, <6>3, AssetsAssumption
        <5> QED BY <1>0, <1>1, <3>1, <4>2, <5>1 DEF RootPart, Placed
      <4> QED BY <4>1, <4>2
    <3>3. (~raced[p] /\ Has(p, q) /\ KeptInBackup(p, q) => backup[q] = found[p][q])'
      BY <1>0, <3>1 DEF RootPart, KeptInBackup, Has
    <3> QED BY <1>0, <3>2, <3>3 DEF RootPart
  <2> QED BY <1>0, <2>1, OwnPart DEF Replaces, Replacement, Parts, Part
<1>5. \A q \in Procs \ {p} : Same(q) BY <1>0 DEF Same, TypeOK
<1> QED BY <1>0, <1>2, <1>3, <1>4, <1>5, ReplaceStep DEF Replaces, Replacement

(* The rollback removes a root only where a backup holds what was found. *)
LEMMA RemoveNewKeeps ==
  ASSUME Parts, NEW p \in Procs, NEW r \in Roots, RemoveNew(p, r) PROVE Parts'
<1>0. /\ TypeOK /\ pc[p] = "rollback" /\ r \in todo[p]
      /\ pc' = [pc EXCEPT ![p] = "put_back"] /\ pc'[p] = "put_back"
      /\ UNCHANGED <<backup, marker, lock, procVars, raced, edits>>
      /\ forced' = forced /\ wanted' = wanted /\ todo' = todo /\ found' = found
      /\ cause' = cause /\ inv' = inv
  BY DEF Parts, RemoveNew, Turn, Goto, TypeOK, procVars
<1>1. /\ roots' \in [Roots -> Content] /\ roots'[r] \in {roots[r], Absent}
      /\ \A q \in Roots \ {r} : roots'[q] = roots[q]
  <2>1. CASE roots' = roots BY <1>0, <2>1 DEF TypeOK
  <2>2. CASE roots' = [roots EXCEPT ![r] = Absent]
    BY <1>0, <2>2, AbsentFacts DEF TypeOK
  <2> QED BY <2>1, <2>2 DEF RemoveNew
<1>2. TypeOK'
  <2>1. pc' \in [Procs -> PCs] BY <1>0 DEF TypeOK, PCs, Replacement
  <2> QED BY <1>0, <1>1, <2>1 DEF TypeOK
<1>3. StampsAgree' /\ MarkerIsTrue' BY <1>0, <1>1, FilesAgree
<1>4. Part(p)'
  <2>1. ASSUME NEW q \in Roots PROVE RootPart(p, q)'
    <3>1. RootPart(p, q) BY DEF Parts, Part
    <3> QED BY <1>0, <1>1, <3>1 DEF RootPart, Placed, KeptInBackup, Has
  <2>2. (cause[p] # "none" <=> pc[p] \in {"rollback", "put_back"})'
    BY <1>0 DEF Parts, Part
  <2> QED BY <1>0, <2>1, <2>2, OwnPart DEF Replaces, Replacement
<1>5. \A q \in Procs \ {p} : Same(q) BY <1>0 DEF Same, TypeOK
<1> QED BY <1>0, <1>2, <1>3, <1>4, <1>5, ReplaceStep DEF Replaces, Replacement

(* The rollback renames a backup to its root, where nothing is. *)
LEMMA PutBackKeeps ==
  ASSUME Parts, NEW p \in Procs, NEW r \in Roots, PutBack(p, r) PROVE Parts'
<1>0. /\ TypeOK /\ pc[p] = "put_back" /\ r \in todo[p]
      /\ pc' = [pc EXCEPT ![p] = "rollback"] /\ pc'[p] = "rollback"
      /\ todo'[p] = todo[p] \ {r} /\ todo' = [todo EXCEPT ![p] = todo'[p]]
      /\ UNCHANGED <<marker, lock, forced, wanted, found, cause, inv, raced, edits>>
  BY DEF Parts, PutBack, Turn, Took, Goto, TypeOK
<1>1. /\ roots' \in [Roots -> Content] /\ backup' \in [Roots -> Content]
      /\ (backup[r] # Absent => roots'[r] = backup[r] /\ backup'[r] = Absent)
      /\ (backup[r] = Absent => roots'[r] = roots[r] /\ backup'[r] = backup[r])
      /\ \A q \in Roots \ {r} : roots'[q] = roots[q] /\ backup'[q] = backup[q]
  <2>1. CASE backup[r] = Absent /\ UNCHANGED fileVars BY <1>0, <2>1 DEF TypeOK, fileVars
  <2>2. CASE /\ backup[r] # Absent
             /\ roots' = [roots EXCEPT ![r] = backup[r]]
             /\ backup' = [backup EXCEPT ![r] = Absent]
    BY <1>0, <2>2, AbsentFacts DEF TypeOK
  <2> QED BY <2>1, <2>2 DEF PutBack
<1>2. TypeOK'
  <2>1. pc' \in [Procs -> PCs] BY <1>0 DEF TypeOK, PCs, Replacement
  <2>2. todo' \in [Procs -> SUBSET Roots] BY <1>0 DEF TypeOK
  <2> QED BY <1>0, <1>1, <2>1, <2>2 DEF TypeOK
<1>3. StampsAgree' /\ MarkerIsTrue' BY <1>0, <1>1, FilesAgree
<1>4. Part(p)'
  <2>1. ASSUME NEW q \in Roots PROVE RootPart(p, q)'
    <3>1. RootPart(p, q) BY DEF Parts, Part
    <3>2. (~raced[p] /\ Has(p, q) /\ KeptInBackup(p, q) => backup[q] = found[p][q])'
      BY <1>0, <1>1, <3>1 DEF RootPart, KeptInBackup, Has
    <3>3. (~raced[p] /\ Has(p, q) /\ q \notin todo[p] /\ cause[p] = "copy"
             => roots[q] = found[p][q])'
      BY <1>0, <1>1, <3>1 DEF RootPart, KeptInBackup, Has
    <3> QED BY <1>0, <3>2, <3>3 DEF RootPart, Placed
  <2>2. (cause[p] # "none" <=> pc[p] \in {"rollback", "put_back"})'
    BY <1>0 DEF Parts, Part
  <2> QED BY <1>0, <2>1, <2>2, OwnPart DEF Replaces, Replacement
<1>5. \A q \in Procs \ {p} : Same(q) BY <1>0 DEF Same, TypeOK
<1> QED BY <1>0, <1>2, <1>3, <1>4, <1>5, ReplaceStep DEF Replaces, Replacement

-----------------------------------------------------------------------------
(* An edit is fresh, so a checkpoint sees it, unless it is raced for.       *)

(* Somebody writes into a root without the lock. *)
LEMMA EditKeeps ==
  ASSUME Parts, NEW r \in Roots, Edit(r) PROVE Parts'
<1>0. /\ TypeOK /\ edits < MaxEdits /\ edits' = edits + 1
      /\ UNCHANGED <<backup, marker, lock, pc, procVars>>
      /\ forced' = forced /\ wanted' = wanted /\ todo' = todo /\ found' = found
      /\ cause' = cause /\ inv' = inv
      /\ raced' = [p \in Procs |-> \/ raced[p] \/ Unseen(p, r)
                                   \/ pc[p] \in Replacement \cup {"saved", "mark"}]
  BY DEF Parts, Edit, procVars
<1>1. /\ roots' \in [Roots -> Content]
      /\ roots'[r] = Absent \/ roots'[r].stamp \in Unused(r)
      /\ \A q \in Roots \ {r} : roots'[q] = roots[q]
  <2>1. CASE roots' = [roots EXCEPT ![r] = Absent]
    BY <1>0, <2>1, AbsentFacts DEF TypeOK
  <2>2. CASE \E v \in Versions, s \in Unused(r) :
               roots' = [roots EXCEPT ![r] = [version |-> v, stamp |-> s]]
    <3>1. PICK v \in Versions, s \in Unused(r) :
               roots' = [roots EXCEPT ![r] = [version |-> v, stamp |-> s]]
      BY <2>2
    <3>2. [version |-> v, stamp |-> s] \in Content BY DEF Content, Unused
    <3> QED BY <1>0, <3>1, <3>2 DEF TypeOK
  <2> QED BY <2>1, <2>2 DEF Edit
<1>2. TypeOK'
  <2>1. raced' \in [Procs -> BOOLEAN] BY <1>0 DEF TypeOK, Unseen
  <2>2. edits' \in 0..MaxEdits BY <1>0, AssetsAssumption DEF TypeOK
  <2> QED BY <1>0, <1>1, <2>1, <2>2 DEF TypeOK
<1>3. StampsAgree' /\ MarkerIsTrue' BY <1>0, <1>1, FilesAgree
<1>4. ASSUME NEW p \in Procs PROVE Part(p)'
  <2>0. Part(p) /\ Busy' = Busy BY <1>0 DEF Parts, Busy, Replaces
  <2>1. CASE raced'[p] BY <1>0, <2>0, <2>1, Frame DEF Parts
  <2>2. CASE ~raced'[p]
    <3>1. ~raced[p] /\ ~Unseen(p, r) /\ pc[p] \notin Replacement \cup {"saved", "mark"}
      BY <1>0, <2>2 DEF TypeOK
    <3>2. ASSUME NEW q \in Roots PROVE RootPart(p, q)'
      <4>1. RootPart(p, q) BY <2>0 DEF Part
      <4>2. (pc[p] = "save" /\ q \notin todo[p] /\ roots[q].stamp = inv[p][q]
               => roots[q].version = wanted[p][q])'
        <5>1. CASE q # r BY <1>0, <1>1, <3>1, <4>1, <5>1 DEF RootPart
        <5>2. CASE q = r /\ roots'[r] = Absent
          BY <1>0, <3>1, <5>2, AbsentFacts DEF Unseen
        <5>3. CASE q = r /\ roots'[r].stamp \in Unused(r)
          BY <1>0, <5>3 DEF Unused
        <5> QED BY <1>1, <5>1, <5>2, <5>3
      <4> QED BY <1>0, <3>1, <4>2 DEF RootPart, Placed, KeptInBackup, Replacement
    <3> QED BY <1>0, <2>0, <3>1, <3>2 DEF Part, Holder
  <2> QED BY <2>1, <2>2
<1> QED BY <1>2, <1>3, <1>4 DEF Parts

-----------------------------------------------------------------------------
(* Every step.                                                              *)

(* A step of nobody keeps the invariant. *)
LEMMA StutterKeeps == Parts /\ UNCHANGED vars => Parts'
<1> SUFFICES ASSUME Parts, UNCHANGED vars PROVE Parts' OBVIOUS
<1>1. /\ UNCHANGED <<roots, backup, marker, lock, pc, forced, wanted, todo, found, cause, inv>>
      /\ UNCHANGED <<raced, edits>>
  BY DEF vars, fileVars, procVars
<1>2. TypeOK' BY <1>1 DEF Parts, TypeOK
<1>3. ASSUME NEW q \in Procs PROVE Part(q)'
  <2>1. Part(q) /\ (Busy' => Busy) BY <1>1 DEF Parts, Busy, Replaces
  <2> QED BY <1>1, <2>1, Frame
<1>4. StampsAgree' /\ MarkerIsTrue'
  BY <1>1 DEF Parts, StampsAgree, MarkerIsTrue, Agrees
<1> QED BY <1>2, <1>3, <1>4 DEF Parts

(* Every step of pull keeps the invariant. *)
LEMMA PullKeeps ==
  ASSUME Parts, NEW p \in Procs, Pull(p) PROVE Parts'
<1>1. CASE StartPull(p) \/ StartReplacing(p) \/ ReplaceFails(p) \/ NextLoop(p)
  BY <1>1, StartPullKeeps, StartReplacingKeeps, ReplaceFailsKeeps, NextLoopKeeps
<1>2. CASE PullRefused(p) \/ RollbackEnds(p)
  BY <1>2, LeaveKeeps DEF PullRefused, RollbackEnds
<1>3. ASSUME NEW r \in Roots,
             \/ ClearBackup(p, r) \/ MoveAside(p, r) \/ StartCopy(p, r)
             \/ FinishCopy(p, r) \/ RemoveNew(p, r) \/ PutBack(p, r)
             \/ DiscardBackup(p, r)
      PROVE  Parts'
  BY <1>3, ClearBackupKeeps, MoveAsideKeeps, StartCopyKeeps, FinishCopyKeeps,
     RemoveNewKeeps, PutBackKeeps, DiscardBackupKeeps
<1> QED BY <1>1, <1>2, <1>3 DEF Pull

(* Every step of checkpoint keeps the invariant. *)
LEMMA CheckpointKeeps ==
  ASSUME Parts, NEW p \in Procs, Checkpoint(p) PROVE Parts'
<1>1. CASE TakeInventory(p) \/ ObserveFirst(p) \/ Commit(p) \/ LockToMark(p)
  BY <1>1, TakeInventoryKeeps, ObserveFirstKeeps, CommitKeeps, LockToMarkKeeps
<1>2. CASE CheckpointFails(p) BY <1>2, LeaveKeeps DEF CheckpointFails
<1>3. CASE \E r \in Roots : CopyRoot(p, r) BY <1>3, CopyRootKeeps
<1> QED BY <1>1, <1>2, <1>3 DEF Checkpoint

(* Every step keeps the invariant. *)
LEMMA StepKeeps == Parts /\ [Next]_vars => Parts'
<1> SUFFICES ASSUME Parts, [Next]_vars PROVE Parts' OBVIOUS
<1>1. ASSUME NEW p \in Procs,
             Pull(p) \/ Checkpoint(p) \/ MarkClean(p) \/ MarkFails(p) \/ Kill(p)
      PROVE  Parts'
  <2>1. CASE Pull(p) \/ Checkpoint(p) \/ MarkClean(p)
    BY <2>1, PullKeeps, CheckpointKeeps, MarkCleanKeeps
  <2>2. CASE MarkFails(p) \/ Kill(p) BY <2>2, LeaveKeeps DEF MarkFails, Kill
  <2> QED BY <1>1, <2>1, <2>2
<1>2. CASE \E r \in Roots : Edit(r) BY <1>2, EditKeeps
<1>3. CASE UNCHANGED vars BY <1>3, StutterKeeps
<1> QED BY <1>1, <1>2, <1>3 DEF Next

(* Types, the lock, and what every command knows of the roots it works on:  *)
(* the invariant behind the next three (assets.py, asset_git.py).           *)
THEOREM AssetsInvariantHolds == Spec => []AssetsInvariant
<1>1. Init => AssetsInvariant BY InitParts, InvariantIsParts
<1>2. Parts' <=> AssetsInvariant' BY InvariantIsParts, PTL
<1>3. AssetsInvariant /\ [Next]_vars => AssetsInvariant'
  BY <1>2, InvariantIsParts, StepKeeps
<1> QED BY <1>1, <1>3, PTL DEF Spec

(* _mark_clean and checkpoint_assets: a Task observed clean holds the files *)
(* of the commit in its marker, unless somebody wrote the roots between the *)
(* look at them and the marker.                                             *)
THEOREM UnracedCleanMeansCommittedHolds == Spec => []UnracedCleanMeansCommitted
<1>1. AssetsInvariant => UnracedCleanMeansCommitted
  <2> SUFFICES ASSUME AssetsInvariant, Clean, ~marker.raced, NEW r \in Roots
               PROVE  roots[r].version = marker.tree[r]
    BY DEF UnracedCleanMeansCommitted, Named
  <2>1. Agrees(roots[r], r) BY DEF AssetsInvariant, MarkerIsTrue, Clean
  <2>2. marker.inventory[r] = roots[r].stamp BY DEF Clean, Inventory
  <2> QED BY <2>1, <2>2 DEF Agrees
<1> QED BY <1>1, AssetsInvariantHolds, PTL

(* pull_assets: what it checked before the download holds again under the   *)
(* lock, so a pull without --force moves no root aside.                     *)
THEOREM PlainPullOverwritesNothingHolds == Spec => []PlainPullOverwritesNothing
<1>1. AssetsInvariant => PlainPullOverwritesNothing BY DEF AssetsInvariant
<1> QED BY <1>1, AssetsInvariantHolds, PTL

(* _replace_selected_assets: wherever it is killed, and after a failed copy *)
(* has been rolled back, every root it found is in place or in its backup.  *)
THEOREM OldRootsAreKeptHolds == Spec => []OldRootsAreKept
<1>1. AssetsInvariant => OldRootsAreKept
  <2> SUFFICES ASSUME AssetsInvariant, NEW p \in Procs, NEW r \in Roots,
                      pc[p] \in Undecided, ~raced[p], cause[p] # "rename", Has(p, r)
               PROVE  /\ found[p][r] \in {roots[r], backup[r]}
                      /\ pc[p] = "rollback" /\ r \notin todo[p] => found[p][r] = roots[r]
    BY DEF OldRootsAreKept
  <2>1. Placed(p, r) BY DEF AssetsInvariant, RootsArePlaced
  <2>2. /\ KeptInBackup(p, r) => backup[r] = found[p][r]
        /\ pc[p] \in {"rollback", "put_back"} /\ r \notin todo[p] /\ cause[p] = "copy"
             => roots[r] = found[p][r]
    BY DEF AssetsInvariant, BackupsAreKept
  <2>3. pc[p] \in {"rollback", "put_back"} => cause[p] = "copy"
    BY DEF AssetsInvariant, CausesAreKnown, TypeOK
  <2>4. CASE pc[p] = "clear" BY <2>1, <2>4 DEF Placed
  <2>5. CASE pc[p] = "rename" BY <2>1, <2>2, <2>5 DEF Placed, KeptInBackup
  <2>6. CASE pc[p] \in {"copy", "fill"} BY <2>2, <2>6 DEF KeptInBackup
  <2>7. CASE pc[p] \in {"rollback", "put_back"} BY <2>2, <2>3, <2>7 DEF KeptInBackup
  <2> QED BY <2>4, <2>5, <2>6, <2>7 DEF Undecided, Replacement
<1> QED BY <1>1, AssetsInvariantHolds, PTL

-----------------------------------------------------------------------------
(* Publications (AssetPublish).                                              *)
Plain    == (Jobs \X Nat) \cup ({"merge"} \X Nat)
Unsaved  == Plain \cup {Early}
Reviewed == Unsaved \cup {Late}
Texts    == SUBSET {"link", "note"}
Drafts   == [marker : Jobs \X Nat, draft : BOOLEAN, head : Seq(Reviewed),
             text : Texts, saved : BOOLEAN]
Seen     == {"seen"} \X Seq(Plain)
Steps    == {"idle", "initialize", "clone", "worktree", "metadata", "commit",
             "search", "create", "save", "compare", "push", "verify", "edit"}
Publishing == [at : Steps, of : Nat, pr : Nat, text : Texts]

PublishTypeOK ==
  /\ main \in Seq(Plain) /\ drafts \in Seq(Drafts)
  /\ checkout \in [Jobs -> Checkouts]
  /\ clone \in [Checkouts -> {NotCloned, Broken} \cup Seen]
  /\ tree \in [Jobs -> [made : BOOLEAN, meta : BOOLEAN, line : Seq(Plain)]]
  /\ tip \in [Jobs -> Nat]
  /\ publication \in [Jobs -> [of : Nat, pr : Nat, expected : Seq(Unsaved),
                               status : {"none", "unchanged", "pending", "published"}]]
  /\ publishing \in [Jobs -> Publishing]

(* What nobody has recorded, nobody waits for: its head is main's or the      *)
(* Job's, or what a reviewer made of them before.                            *)
HeadsAreLeased == \A d \in 1 .. Len(drafts) :
  ~drafts[d].saved => drafts[d].head \in Seq(Unsaved)

(* A record is made once; before it, no draft of the Job is saved.           *)
RecordPart(j) ==
  /\ publication[j].pr \in 0 .. Len(drafts)
  /\ publication[j].pr = 0 /\ j \notin Manual => publication[j].of = 0
  /\ publication[j].status = "none" =>
       \A d \in 1 .. Len(drafts) : drafts[d].marker[1] = j => ~drafts[d].saved

(* How far a Job's command is.                                               *)
CommandPart(j) ==
  LET now == publishing[j] IN
  /\ now.pr \in 0 .. Len(drafts)
  /\ now.at = "worktree" => clone[checkout[j]] \in Seen
  /\ now.at \in {"search", "create", "save"} =>
       j \notin Manual /\ publication[j].status = "none"
  /\ now.at = "create" => \A d \in 1 .. Len(drafts) :
       drafts[d].draft => drafts[d].marker # Marker(j)
  /\ now.at = "save" => now.pr # 0 /\ drafts[now.pr].marker[1] = j
  /\ now.at \in {"compare", "push", "verify"} /\ j \notin Manual =>
       now.pr # 0 /\ publication[j].pr = now.pr
  /\ now.at = "edit" => now.pr # 0

PublishInvariant ==
  /\ PublishTypeOK /\ HeadsAreLeased
  /\ \A j \in Jobs : RecordPart(j) /\ CommandPart(j)
-----------------------------------------------------------------------------
(* Reviewers' later commits are nobody else's.                               *)
LEMMA LateIsReviewed == Late \notin Unsaved
<1>1. ASSUME NEW x \in Unsaved PROVE x # Late
  <2>1. CASE x \in Jobs \X Nat
    <3>1. x[1] \in Jobs BY <2>1
    <3>2. Late[1] = "review" BY DEF Late
    <3>3. QED BY <3>1, <3>2, ReviewersAreNoJobs
  <2>2. CASE x \in {"merge"} \X Nat
    <3>1. x[1] = "merge" BY <2>2
    <3>2. Late[1] = "review" BY DEF Late
    <3>3. QED BY <3>1, <3>2
  <2>3. CASE x = Early
    <3>1. Early[2] = "early" /\ Late[2] = "late" BY DEF Early, Late
    <3>2. QED BY <2>3, <3>1
  <2>4. QED BY <1>1, <2>1, <2>2, <2>3 DEF Unsaved, Plain
<1>2. QED BY <1>1

(* A history without a commit of a reviewer is one without a late one, and a history. *)
LEMMA PlainIsUnsaved == /\ \A q \in Seq(Plain) : q \in Seq(Unsaved)
                        /\ \A q \in Seq(Unsaved) : q \in Seq(Reviewed)
BY SeqMonotonic DEF Unsaved, Reviewed

(* What a Job publishes has no commit of a reviewer. *)
LEMMA TargetIsPlain ==
  ASSUME PublishTypeOK, NEW j \in Jobs
  PROVE  Target(j) \in Seq(Plain)
<1> DEFINE k == publishing[j].of
           own == [i \in 1 .. k |-> <<j, i>>]
<1>1. k \in Nat /\ tree[j].line \in Seq(Plain) BY DEF PublishTypeOK, Publishing
<1>2. \A i \in 1 .. k : <<j, i>> \in Plain BY <1>1 DEF Plain
<1>3. own \in Seq(Plain) BY <1>1, <1>2, IsASeq
<1> HIDE DEF own
<1>4. tree[j].line \o own \in Seq(Plain) BY <1>1, <1>3, ConcatProperties
<1>5. QED BY <1>4 DEF Target, Line, own

(* What a step about one command leaves of the others'.                      *)
LEMMA OneCommandMoves ==
  ASSUME PublishTypeOK, NEW j \in Jobs, NEW new \in Publishing,
         publishing' = [publishing EXCEPT ![j] = new]
  PROVE  /\ publishing' \in [Jobs -> Publishing] /\ publishing'[j] = new
         /\ \A i \in Jobs \ {j} : publishing'[i] = publishing[i]
BY DEF PublishTypeOK

(* A command that goes on is where it went, on the same draft, and alone moved. *)
LEMMA CommandGoesOn ==
  ASSUME PublishTypeOK, NEW j \in Jobs, NEW at \in Steps, To(j, at)
  PROVE  /\ publishing' \in [Jobs -> Publishing]
         /\ publishing'[j].at = at /\ publishing'[j].pr = publishing[j].pr
         /\ publishing'[j].of = publishing[j].of
         /\ \A i \in Jobs \ {j} : publishing'[i] = publishing[i]
BY DEF PublishTypeOK, Publishing, To

(* A command that ends is idle, and alone moved. *)
LEMMA CommandEnds ==
  ASSUME PublishTypeOK, NEW j \in Jobs, End(j)
  PROVE  /\ publishing' \in [Jobs -> Publishing] /\ publishing'[j] = Idle
         /\ \A i \in Jobs \ {j} : publishing'[i] = publishing[i]
<1>1. Idle \in Publishing BY DEF Idle, Publishing, Steps, Texts
<1>2. QED BY <1>1, OneCommandMoves DEF End

(* Drafts stay; only the Job whose draft it is marks one as saved, and only   *)
(* that Job makes one.                                                       *)
Follow(i) ==
  /\ Len(drafts) <= Len(drafts')
  /\ \A d \in 1 .. Len(drafts) :
       /\ drafts'[d].marker = drafts[d].marker
       /\ drafts'[d].draft => drafts[d].draft
       /\ drafts'[d].saved => drafts[d].saved \/ drafts[d].marker[1] # i
  /\ \A d \in Len(drafts) + 1 .. Len(drafts') :
       drafts'[d].marker[1] # i

(* Drafts that stay as they are follow themselves. *)
LEMMA UntouchedDraftsFollow ==
  ASSUME PublishTypeOK, drafts' = drafts, NEW i
  PROVE  Follow(i)
BY DEF Follow, PublishTypeOK

(* A record nobody wrote is as true as it was, if the drafts follow. *)
LEMMA RecordStays ==
  ASSUME PublishInvariant, PublishTypeOK', NEW i \in Jobs,
         publication'[i] = publication[i], Follow(i)
  PROVE  RecordPart(i)'
<1>1. Len(drafts) \in Nat /\ Len(drafts') \in Nat BY DEF PublishInvariant, PublishTypeOK
<1>2. RecordPart(i) BY DEF PublishInvariant
<1>3. \A d \in 1 .. Len(drafts') : d \in 1 .. Len(drafts) \/ d \in Len(drafts) + 1 .. Len(drafts')
  BY <1>1
<1>4. publication'[i].pr \in 0 .. Len(drafts') BY <1>1, <1>2 DEF RecordPart, Follow
<1>5. ASSUME publication[i].status = "none", NEW d \in 1 .. Len(drafts'), drafts'[d].marker[1] = i
      PROVE  ~drafts'[d].saved
  <2>1. d \in 1 .. Len(drafts) BY <1>3, <1>5 DEF Follow
  <2>2. QED BY <1>2, <1>5, <2>1 DEF RecordPart, Follow
<1>6. QED BY <1>2, <1>4, <1>5 DEF RecordPart

(* A command that did not move knows as much as it did, if the drafts follow. *)
LEMMA CommandStays ==
  ASSUME PublishInvariant, PublishTypeOK', NEW i \in Jobs,
         publication'[i] = publication[i], publishing'[i] = publishing[i], Follow(i),
         checkout' = checkout, \A k \in Checkouts : clone[k] \in Seen => clone'[k] \in Seen
  PROVE  RecordPart(i)' /\ CommandPart(i)'
<1>1. Len(drafts) \in Nat /\ Len(drafts') \in Nat BY DEF PublishInvariant, PublishTypeOK
<1>2. CommandPart(i) BY DEF PublishInvariant
<1>3. \A d \in 1 .. Len(drafts') : d \in 1 .. Len(drafts) \/ d \in Len(drafts) + 1 .. Len(drafts')
  BY <1>1
<1>4. publishing'[i].pr \in 0 .. Len(drafts') BY <1>1, <1>2 DEF CommandPart, Follow
<1>5. checkout[i] \in Checkouts BY DEF PublishInvariant, PublishTypeOK
<1>6. ASSUME publishing[i].at = "create", NEW d \in 1 .. Len(drafts'), drafts'[d].draft
      PROVE  drafts'[d].marker # Marker(i)'
  <2>1. CASE d \in 1 .. Len(drafts)
    BY <1>2, <1>6, <2>1 DEF CommandPart, Follow, Marker
  <2>2. CASE d \in Len(drafts) + 1 .. Len(drafts')
    <3>1. Marker(i)'[1] = i BY DEF Marker
    <3>2. QED BY <2>2, <3>1 DEF Follow
  <2>3. QED BY <1>3, <2>1, <2>2
<1>7. ASSUME publishing[i].at = "save"
      PROVE  publishing[i].pr # 0 /\ drafts'[publishing[i].pr].marker[1] = i
  <2>1. publishing[i].pr \in 1 .. Len(drafts) BY <1>1, <1>2, <1>7 DEF CommandPart
  <2>2. QED BY <1>2, <1>7, <2>1 DEF CommandPart, Follow
<1>8. CommandPart(i)'
  BY <1>2, <1>4, <1>5, <1>6, <1>7 DEF CommandPart
<1>9. QED BY <1>8, RecordStays

(* A step of a command that is about its own Job only.                       *)
LEMMA LocalStep ==
  ASSUME PublishInvariant, PublishTypeOK', NEW j \in Jobs,
         UNCHANGED <<drafts, checkout, publication>>,
         \A i \in Jobs \ {j} : publishing'[i] = publishing[i],
         \A k \in Checkouts : clone[k] \in Seen => clone'[k] \in Seen,
         CommandPart(j)'
  PROVE  PublishInvariant'
<1>1. \A i \in Jobs : Follow(i) BY UntouchedDraftsFollow DEF PublishInvariant
<1>2. RecordPart(j)' BY <1>1, RecordStays
<1>3. ASSUME NEW i \in Jobs \ {j} PROVE RecordPart(i)' /\ CommandPart(i)'
  BY <1>1, CommandStays
<1>4. HeadsAreLeased' BY DEF PublishInvariant, HeadsAreLeased
<1>5. QED BY <1>2, <1>3, <1>4 DEF PublishInvariant

(* The steps of checkpoint, in the clone and the worktree, keep the invariant. *)
LEMMA CheckpointKeepsPublishInvariant ==
  ASSUME PublishInvariant, NEW j \in Jobs,
         \/ StartCheckpoint(j) \/ Initialize(j) \/ CloneOrFetch(j) \/ BreakClone(j)
         \/ AddWorktree(j) \/ WriteMetadata(j) \/ CommitAssets(j)
  PROVE  PublishInvariant'
<1> DEFINE Moves(at) == /\ publishing' \in [Jobs -> Publishing] /\ publishing'[j].at = at
                        /\ publishing'[j].pr \in {0, publishing[j].pr}
                        /\ \A i \in Jobs \ {j} : publishing'[i] = publishing[i]
<1>1. PublishTypeOK /\ CommandPart(j) /\ Len(drafts) \in Nat /\ j \in Jobs
      /\ checkout[j] \in Checkouts
  BY DEF PublishInvariant, PublishTypeOK
<1>2. ASSUME NEW at \in Steps, To(j, at) PROVE Moves(at) BY <1>1, <1>2, CommandGoesOn
<1>3. ASSUME End(j) PROVE Moves("idle") BY <1>1, <1>3, CommandEnds DEF Idle
<1>4. ASSUME NEW at \in {"idle", "initialize", "clone", "metadata", "commit", "worktree"}, Moves(at),
             at = "worktree" => clone'[checkout[j]] \in Seen, UNCHANGED <<drafts, checkout>>
      PROVE  CommandPart(j)'
  BY <1>1, <1>4 DEF CommandPart
<1>5. CASE StartCheckpoint(j)
  <2>1. Moves("initialize") BY <1>2, <1>5 DEF StartCheckpoint, Steps
  <2>2. PublishTypeOK'
    BY <1>1, <1>5, <2>1 DEF StartCheckpoint, hubVars, localVars, PublishTypeOK
  <2>3. QED BY <1>4, <1>5, <2>1, <2>2, LocalStep DEF StartCheckpoint, hubVars, localVars
<1>6. CASE Initialize(j)
  <2>1. Moves("commit") \/ Moves("idle") \/ Moves("clone")
    BY <1>2, <1>3, <1>6 DEF Initialize, Steps
  <2>2. PublishTypeOK' BY <1>1, <1>6, <2>1 DEF Initialize, hubVars, localVars, PublishTypeOK
  <2>3. UNCHANGED <<drafts, checkout, clone, publication>>
    BY <1>6 DEF Initialize, hubVars, localVars
  <2>4. CommandPart(j)' BY <1>4, <2>1, <2>3
  <2>5. QED BY <2>1, <2>2, <2>3, <2>4, LocalStep
<1>7. CASE CloneOrFetch(j)
  <2> DEFINE k == checkout[j]
  <2>1. UNCHANGED <<main, drafts, checkout, tree, tip, publication>>
    BY <1>7 DEF CloneOrFetch, hubVars
  <2>2. CASE End(j) /\ UNCHANGED clone
    <3>1. Moves("idle") BY <1>3, <2>2
    <3>2. PublishTypeOK' BY <1>1, <2>1, <2>2, <3>1 DEF PublishTypeOK
    <3>3. QED BY <1>4, <2>1, <2>2, <3>1, <3>2, LocalStep
  <2>3. CASE To(j, "worktree") /\ clone' = [clone EXCEPT ![k] = <<"seen", main>>]
    <3>1. Moves("worktree") BY <1>2, <2>3 DEF Steps
    <3>2. <<"seen", main>> \in Seen BY <1>1 DEF PublishTypeOK, Seen
    <3>3. /\ clone' \in [Checkouts -> {NotCloned, Broken} \cup Seen]
          /\ clone'[k] \in Seen
          /\ \A c \in Checkouts : clone[c] \in Seen => clone'[c] \in Seen
      BY <1>1, <2>3, <3>2 DEF PublishTypeOK
    <3>4. PublishTypeOK' BY <1>1, <2>1, <3>1, <3>3 DEF PublishTypeOK
    <3>5. QED BY <1>4, <2>1, <3>1, <3>3, <3>4, LocalStep
  <2>4. QED BY <1>7, <2>2, <2>3 DEF CloneOrFetch
<1>8. CASE BreakClone(j)
  <2>1. UNCHANGED <<main, drafts, checkout, tree, tip, publication>>
    BY <1>8 DEF BreakClone, hubVars
  <2>2. Moves("idle") BY <1>3, <1>8 DEF BreakClone
  <2>3. /\ clone' \in [Checkouts -> {NotCloned, Broken} \cup Seen]
        /\ \A c \in Checkouts : clone[c] # NotCloned => clone'[c] = clone[c]
    BY <1>1, <1>8 DEF BreakClone, PublishTypeOK
  <2>4. NotCloned \notin Seen
    <3>1. NotCloned[1] = "none" BY DEF NotCloned
    <3>2. \A x \in Seen : x[1] = "seen" BY DEF Seen
    <3>3. QED BY <3>1, <3>2
  <2>5. PublishTypeOK' BY <1>1, <2>1, <2>2, <2>3 DEF PublishTypeOK
  <2>6. \A c \in Checkouts : clone[c] \in Seen => clone'[c] \in Seen BY <2>3, <2>4
  <2>7. CommandPart(j)' BY <1>4, <2>1, <2>2
  <2>8. QED BY <2>1, <2>2, <2>5, <2>6, <2>7, LocalStep
<1>9. CASE AddWorktree(j)
  <2>1. UNCHANGED <<main, drafts, checkout, clone, tip, publication>>
    BY <1>9 DEF AddWorktree, hubVars
  <2>2. Moves("metadata") BY <1>2, <1>9 DEF AddWorktree, Steps
  <2>3. clone[checkout[j]][2] \in Seq(Plain) BY <1>1, <1>9 DEF AddWorktree, CommandPart, Seen
  <2>4. tree' \in [Jobs -> [made : BOOLEAN, meta : BOOLEAN, line : Seq(Plain)]]
    BY <1>1, <1>9, <2>3 DEF AddWorktree, NoTree, PublishTypeOK
  <2>5. PublishTypeOK' BY <1>1, <2>1, <2>2, <2>4 DEF PublishTypeOK
  <2>6. QED BY <1>4, <2>1, <2>2, <2>5, LocalStep
<1>10. CASE WriteMetadata(j)
  <2>1. UNCHANGED <<main, drafts, checkout, clone, tip, publication>>
    BY <1>10 DEF WriteMetadata, hubVars
  <2>2. Moves("commit") BY <1>2, <1>10 DEF WriteMetadata, Steps
  <2>3. tree' \in [Jobs -> [made : BOOLEAN, meta : BOOLEAN, line : Seq(Plain)]]
    BY <1>1, <1>10 DEF WriteMetadata, PublishTypeOK
  <2>4. PublishTypeOK' BY <1>1, <2>1, <2>2, <2>3 DEF PublishTypeOK
  <2>5. QED BY <1>4, <2>1, <2>2, <2>4, LocalStep
<1>11. CASE CommitAssets(j)
  <2>1. UNCHANGED <<main, drafts, checkout, clone, tree, publication>>
    BY <1>11 DEF CommitAssets, hubVars
  <2>2. Moves("idle") BY <1>3, <1>11 DEF CommitAssets
  <2>3. tip' \in [Jobs -> Nat] BY <1>1, <1>11 DEF CommitAssets, PublishTypeOK
  <2>4. PublishTypeOK' BY <1>1, <2>1, <2>2, <2>3 DEF PublishTypeOK
  <2>5. QED BY <1>4, <2>1, <2>2, <2>4, LocalStep
<1>12. QED BY <1>5, <1>6, <1>7, <1>8, <1>9, <1>10, <1>11

(* The steps of publish that read, push main or fail keep the invariant. *)
LEMMA CommandKeepsPublishInvariant ==
  ASSUME PublishInvariant, NEW j \in Jobs,
         \/ PublishDraft(j) \/ ResumeDraft(j) \/ PublishMain(j)
         \/ Search(j) \/ CompareHeads(j) \/ PushMain(j) \/ ReadBody(j) \/ CommandFails(j)
  PROVE  PublishInvariant'
<1>1. PublishTypeOK /\ CommandPart(j) /\ RecordPart(j) /\ Len(drafts) \in Nat /\ j \in Jobs
  BY DEF PublishInvariant, PublishTypeOK
<1>2. UNCHANGED <<drafts, checkout, clone, tree, tip, publication>>
  BY DEF PublishDraft, ResumeDraft, PublishMain, Begins, Search, CompareHeads, PushMain,
         ReadBody, CommandFails, hubVars, localVars
<1>3. ASSUME main' \in Seq(Plain), publishing' \in [Jobs -> Publishing],
             \A i \in Jobs \ {j} : publishing'[i] = publishing[i], CommandPart(j)'
      PROVE  PublishInvariant'
  <2>1. PublishTypeOK' BY <1>1, <1>2, <1>3 DEF PublishTypeOK
  <2>2. QED BY <1>2, <1>3, <2>1, LocalStep
<1>4. ASSUME End(j), main' \in Seq(Plain) PROVE PublishInvariant'
  <2>1. /\ publishing' \in [Jobs -> Publishing] /\ publishing'[j] = Idle
        /\ \A i \in Jobs \ {j} : publishing'[i] = publishing[i]
    BY <1>1, <1>4, CommandEnds
  <2>2. CommandPart(j)' BY <1>1, <1>2, <2>1 DEF CommandPart, Idle
  <2>3. QED BY <1>3, <1>4, <2>1, <2>2
<1>5. ASSUME NEW at \in {"search", "compare"}, Begins(j, at), publication[j].pr = 0 \/ at = "compare",
             j \notin Manual => (at = "search" <=> publication[j].pr = 0),
             j \in Manual => at = "compare"
      PROVE  PublishInvariant'
  <2>1. PICK k \in 1 .. tip[j] :
          /\ j \notin Manual /\ publication[j].status # "none" => publication[j].of = k
          /\ publishing' = [publishing EXCEPT ![j] =
               [@ EXCEPT !.at = at, !.of = k, !.pr = publication[j].pr]]
    BY <1>5 DEF Begins
  <2> DEFINE new == [publishing[j] EXCEPT !.at = at, !.of = k, !.pr = publication[j].pr]
  <2>2. k \in Nat \ {0} BY <1>1, <2>1 DEF PublishTypeOK
  <2>3. /\ new \in Publishing /\ new.at = at /\ new.pr = publication[j].pr
    BY <1>1, <2>2 DEF PublishTypeOK, Publishing, Steps
  <2>4. publishing' = [publishing EXCEPT ![j] = new] BY <1>1, <2>1 DEF PublishTypeOK
  <2> HIDE DEF new
  <2>5. /\ publishing' \in [Jobs -> Publishing] /\ publishing'[j] = new
        /\ \A i \in Jobs \ {j} : publishing'[i] = publishing[i]
    BY <1>1, <2>3, <2>4, OneCommandMoves
  <2>6. at = "search" => publication[j].status = "none"
    BY <1>1, <1>5, <2>1, <2>2 DEF RecordPart
  <2>7. CommandPart(j)'
    BY <1>1, <1>2, <1>5, <2>3, <2>5, <2>6 DEF CommandPart, RecordPart
  <2>8. main' = main BY <1>5 DEF Begins, hubVars
  <2>9. QED BY <1>1, <1>3, <2>5, <2>7, <2>8 DEF PublishTypeOK
<1>6. CASE PublishDraft(j) BY <1>5, <1>6 DEF PublishDraft
<1>7. CASE ResumeDraft(j) BY <1>5, <1>7 DEF ResumeDraft
<1>8. CASE PublishMain(j) BY <1>5, <1>8 DEF PublishMain
<1>9. CASE Search(j)
  <2> DEFINE mine == {d \in DOMAIN drafts : drafts[d].draft /\ drafts[d].marker = Marker(j)}
  <2>1. /\ publishing[j].at = "search" /\ main' = main /\ main' \in Seq(Plain)
    BY <1>1, <1>9 DEF Search, hubVars, PublishTypeOK
  <2>2. CASE mine = {} /\ To(j, "create")
    <3>1. /\ publishing' \in [Jobs -> Publishing] /\ publishing'[j].at = "create"
          /\ publishing'[j].of = publishing[j].of /\ publishing'[j].pr = publishing[j].pr
          /\ \A i \in Jobs \ {j} : publishing'[i] = publishing[i]
      BY <1>1, <2>2, CommandGoesOn DEF Steps
    <3>2. DOMAIN drafts = 1 .. Len(drafts) BY <1>1 DEF PublishTypeOK
    <3>3. \A d \in 1 .. Len(drafts) : drafts[d].draft => drafts[d].marker # Marker(j)
      BY <2>2, <3>2
    <3>4. Marker(j)' = Marker(j) BY <3>1 DEF Marker
    <3>5. CommandPart(j)' BY <1>1, <1>2, <2>1, <3>1, <3>3, <3>4 DEF CommandPart
    <3>6. QED BY <1>3, <2>1, <3>1, <3>5
  <2>3. ASSUME NEW d \in mine, publishing' = [publishing EXCEPT ![j].at = "save", ![j].pr = d]
        PROVE  PublishInvariant'
    <3> DEFINE new == [publishing[j] EXCEPT !.at = "save", !.pr = d]
    <3>1. d \in 1 .. Len(drafts) /\ drafts[d].marker[1] = j
      BY <1>1, <2>3 DEF PublishTypeOK, Marker
    <3>7. d \in Nat /\ publishing[j] \in Publishing BY <1>1, <3>1 DEF PublishTypeOK
    <3>2. new \in Publishing /\ new.at = "save" /\ new.pr = d
      BY <3>7 DEF Publishing, Steps
    <3>3. publishing' = [publishing EXCEPT ![j] = new] BY <1>1, <2>3 DEF PublishTypeOK
    <3> HIDE DEF new
    <3>4. /\ publishing' \in [Jobs -> Publishing] /\ publishing'[j] = new
          /\ \A i \in Jobs \ {j} : publishing'[i] = publishing[i]
      BY <1>1, <3>2, <3>3, OneCommandMoves
    <3>5. CommandPart(j)' BY <1>1, <1>2, <2>1, <3>1, <3>2, <3>4 DEF CommandPart
    <3>6. QED BY <1>3, <2>1, <3>4, <3>5
  <2>4. QED BY <1>9, <2>2, <2>3 DEF Search
<1>10. CASE CompareHeads(j)
  <2>1. PICK at \in {"verify", "push"} : To(j, at) BY <1>10 DEF CompareHeads
  <2>2. publishing[j].at = "compare" /\ main' \in Seq(Plain)
    BY <1>1, <1>10 DEF CompareHeads, hubVars, PublishTypeOK
  <2>3. /\ publishing' \in [Jobs -> Publishing] /\ publishing'[j].at = at
        /\ publishing'[j].pr = publishing[j].pr
        /\ \A i \in Jobs \ {j} : publishing'[i] = publishing[i]
    BY <1>1, <2>1, CommandGoesOn DEF Steps
  <2>4. CommandPart(j)' BY <1>1, <1>2, <2>2, <2>3 DEF CommandPart
  <2>5. QED BY <1>3, <2>2, <2>3, <2>4
<1>11. CASE PushMain(j)
  <2>1. CASE main' = Target(j) /\ To(j, "verify")
    <3>1. main' \in Seq(Plain) BY <1>1, <2>1, TargetIsPlain
    <3>2. /\ publishing' \in [Jobs -> Publishing] /\ publishing'[j].at = "verify"
          /\ publishing'[j].pr = publishing[j].pr
          /\ \A i \in Jobs \ {j} : publishing'[i] = publishing[i]
      BY <1>1, <2>1, CommandGoesOn DEF Steps
    <3>3. CommandPart(j)' BY <1>1, <1>2, <1>11, <3>2 DEF CommandPart, PushMain
    <3>4. QED BY <1>3, <3>1, <3>2, <3>3
  <2>2. CASE UNCHANGED main /\ End(j) BY <1>1, <1>4, <2>2 DEF PublishTypeOK
  <2>3. QED BY <1>11, <2>1, <2>2 DEF PushMain
<1>12. CASE ReadBody(j)
  <2> DEFINE d == publication[j].pr
             new == [publishing[j] EXCEPT !.at = "edit", !.pr = d, !.text = drafts[d].text]
  <2>8. d # 0 /\ main' = main BY <1>12 DEF ReadBody, hubVars
  <2>1. d \in 1 .. Len(drafts) /\ main' \in Seq(Plain)
    <3>1. d \in 0 .. Len(drafts) BY <1>1 DEF RecordPart
    <3> HIDE DEF d
    <3>2. main \in Seq(Plain) BY <1>1 DEF PublishTypeOK
    <3>3. d \in 1 .. Len(drafts) BY <1>1, <2>8, <3>1
    <3>4. QED BY <2>8, <3>2, <3>3
  <2>9. drafts[d] \in Drafts BY <1>1, <2>1 DEF PublishTypeOK
  <2>2. drafts[d].text \in Texts /\ d \in Nat BY <1>1, <2>1, <2>9 DEF Drafts
  <2>3. publishing' = [publishing EXCEPT ![j] = new] BY <1>1, <1>12 DEF ReadBody, PublishTypeOK
  <2> HIDE DEF d
  <2>4. new \in Publishing /\ new.at = "edit" /\ new.pr = d
    BY <1>1, <2>2 DEF PublishTypeOK, Publishing, Steps
  <2> HIDE DEF new
  <2>5. /\ publishing' \in [Jobs -> Publishing] /\ publishing'[j] = new
        /\ \A i \in Jobs \ {j} : publishing'[i] = publishing[i]
    BY <1>1, <2>3, <2>4, OneCommandMoves
  <2>6. CommandPart(j)' BY <1>1, <1>2, <2>1, <2>4, <2>5 DEF CommandPart
  <2>7. QED BY <1>3, <2>1, <2>5, <2>6
<1>13. CASE CommandFails(j)
  BY <1>1, <1>4, <1>13 DEF CommandFails, hubVars, PublishTypeOK
<1>14. QED BY <1>6, <1>7, <1>8, <1>9, <1>10, <1>11, <1>12, <1>13

(* A step that changes what is recorded of one Job, or the drafts.           *)
LEMMA PublicationStep ==
  ASSUME PublishInvariant, PublishTypeOK', NEW j \in Jobs,
         UNCHANGED <<checkout, clone>>, HeadsAreLeased',
         \A i \in Jobs \ {j} : /\ publishing'[i] = publishing[i] /\ Follow(i)
                              /\ publication'[i] = publication[i],
         RecordPart(j)', CommandPart(j)'
  PROVE  PublishInvariant'
<1>1. ASSUME NEW i \in Jobs \ {j} PROVE RecordPart(i)' /\ CommandPart(i)'
  BY CommandStays
<1>2. QED BY <1>1 DEF PublishInvariant

(* One draft is changed, in place.                                           *)
LEMMA OneDraftChanges ==
  ASSUME PublishTypeOK, NEW d \in 1 .. Len(drafts), NEW new \in Drafts,
         drafts' = [drafts EXCEPT ![d] = new]
  PROVE  /\ drafts' \in Seq(Drafts) /\ Len(drafts') = Len(drafts) /\ drafts'[d] = new
         /\ \A e \in 1 .. Len(drafts) : e # d => drafts'[e] = drafts[e]
         /\ drafts[d] \in Drafts
BY ExceptSeq DEF PublishTypeOK

(* One draft that keeps its marker, and no more a draft than before, follows. *)
LEMMA ChangedDraftsFollow ==
  ASSUME PublishTypeOK, NEW d \in 1 .. Len(drafts), NEW new \in Drafts,
         drafts' = [drafts EXCEPT ![d] = new],
         new.marker = drafts[d].marker, new.draft => drafts[d].draft, NEW i,
         new.saved => drafts[d].saved \/ drafts[d].marker[1] # i
  PROVE  Follow(i)
<1>1. Len(drafts) \in Nat BY DEF PublishTypeOK
<1>2. QED BY <1>1, OneDraftChanges DEF Follow

(* The steps of publish that write the record keep the invariant. *)
LEMMA RecordKeepsPublishInvariant ==
  ASSUME PublishInvariant, NEW j \in Jobs, NothingToPublish(j) \/ VerifyPublished(j)
  PROVE  PublishInvariant'
<1>1. PublishTypeOK /\ CommandPart(j) /\ RecordPart(j) /\ Len(drafts) \in Nat /\ j \in Jobs
  BY DEF PublishInvariant, PublishTypeOK
<1>2. UNCHANGED <<main, drafts, checkout, clone, tree, tip>>
  BY DEF NothingToPublish, VerifyPublished, hubVars, localVars
<1>3. HeadsAreLeased' BY <1>2 DEF PublishInvariant, HeadsAreLeased
<1>4. \A i \in Jobs : Follow(i) BY <1>1, <1>2, UntouchedDraftsFollow
<1>5. CASE NothingToPublish(j)
  <2> DEFINE new == [NoDraft EXCEPT !.status = "unchanged"]
  <2>1. <<>> \in Seq(Unsaved) BY EmptySeq
  <2>2. new \in [of : Nat, pr : Nat, expected : Seq(Unsaved),
                 status : {"none", "unchanged", "pending", "published"}]
    BY <2>1 DEF NoDraft
  <2>3. publication' = [publication EXCEPT ![j] = new] /\ publishing' = publishing
        /\ publishing[j].at = "idle"
    BY <1>5 DEF NothingToPublish
  <2>4. new.pr = 0 /\ new.of = 0 /\ new.status = "unchanged" BY DEF NoDraft
  <2> HIDE DEF new
  <2>5. PublishTypeOK' BY <1>1, <1>2, <2>2, <2>3 DEF PublishTypeOK
  <2>6. publication'[j] = new /\ \A i \in Jobs \ {j} : publication'[i] = publication[i]
    BY <1>1, <2>3 DEF PublishTypeOK
  <2>7. RecordPart(j)' BY <1>1, <1>2, <2>4, <2>6 DEF RecordPart
  <2>8. CommandPart(j)' BY <1>1, <1>2, <2>3 DEF CommandPart
  <2>9. QED BY <1>2, <1>3, <1>4, <2>3, <2>5, <2>6, <2>7, <2>8, PublicationStep
<1>6. CASE VerifyPublished(j)
  <2>1. /\ publishing' \in [Jobs -> Publishing] /\ publishing'[j] = Idle
        /\ \A i \in Jobs \ {j} : publishing'[i] = publishing[i]
    BY <1>1, <1>6, CommandEnds DEF VerifyPublished
  <2>2. CommandPart(j)' BY <1>1, <1>2, <2>1 DEF CommandPart, Idle
  <2>3. CASE publication' = publication
    <3>1. PublishTypeOK' BY <1>1, <1>2, <2>1, <2>3 DEF PublishTypeOK
    <3>2. QED BY <1>2, <2>1, <2>2, <2>3, <3>1, LocalStep
  <2>4. CASE publication' = [publication EXCEPT ![j].of = publishing[j].of, ![j].status = "published"]
    <3>1. publishing[j].of \in Nat BY <1>1 DEF PublishTypeOK, Publishing
    <3> DEFINE Records == [of : Nat, pr : Nat, expected : Seq(Unsaved),
                           status : {"none", "unchanged", "pending", "published"}]
               new == [publication[j] EXCEPT !.of = publishing[j].of, !.status = "published"]
    <3>7. publication[j] \in Records BY <1>1 DEF PublishTypeOK
    <3>8. new \in Records /\ new.pr = publication[j].pr /\ new.status = "published" BY <3>1, <3>7
    <3>9. publication' = [publication EXCEPT ![j] = new] BY <1>1, <2>4 DEF PublishTypeOK
    <3> HIDE DEF new
    <3>10. /\ publication' \in [Jobs -> Records] /\ publication'[j] = new
           /\ \A i \in Jobs \ {j} : publication'[i] = publication[i]
      BY <1>1, <3>8, <3>9 DEF PublishTypeOK
    <3>2. PublishTypeOK' BY <1>1, <1>2, <2>1, <3>10 DEF PublishTypeOK
    <3>3. /\ publication'[j].pr = publication[j].pr /\ publication'[j].status = "published"
          /\ \A i \in Jobs \ {j} : publication'[i] = publication[i]
      BY <3>8, <3>10
    <3>4. publication[j].pr # 0 \/ j \in Manual BY <1>1, <1>6 DEF VerifyPublished, CommandPart
    <3>5. RecordPart(j)' BY <1>1, <1>2, <3>3, <3>4 DEF RecordPart
    <3>6. QED BY <1>2, <1>3, <1>4, <2>1, <2>2, <3>2, <3>3, <3>5, PublicationStep
  <2>5. QED BY <1>6, <2>3, <2>4 DEF VerifyPublished
<1>7. QED BY <1>5, <1>6

(* One changed draft, with a late commit only once it was saved, keeps the heads leased. *)
LEMMA ChangedHeadsAreLeased ==
  ASSUME PublishInvariant, NEW d \in 1 .. Len(drafts), NEW new \in Drafts,
         drafts' = [drafts EXCEPT ![d] = new], ~new.saved => new.head \in Seq(Unsaved)
  PROVE  HeadsAreLeased'
<1>1. PublishTypeOK BY DEF PublishInvariant
<1>2. QED BY <1>1, OneDraftChanges DEF PublishInvariant, HeadsAreLeased

(* The steps of publish that change a draft keep the invariant. *)
LEMMA DraftKeepsPublishInvariant ==
  ASSUME PublishInvariant, NEW j \in Jobs,
         CreateDraft(j) \/ SaveDraft(j) \/ PushDraft(j) \/ EditBody(j)
  PROVE  PublishInvariant'
<1>1. PublishTypeOK /\ CommandPart(j) /\ RecordPart(j) /\ Len(drafts) \in Nat /\ j \in Jobs
  BY DEF PublishInvariant, PublishTypeOK
<1>2. UNCHANGED <<main, checkout, clone, tree, tip>>
  BY DEF CreateDraft, SaveDraft, PushDraft, EditBody, localVars
<1> DEFINE n == publishing[j].pr
<1>3. n \in 0 .. Len(drafts) BY <1>1 DEF CommandPart
<1>4. ASSUME n # 0 PROVE n \in 1 .. Len(drafts) /\ drafts[n] \in Drafts
  <2>1. n \in 1 .. Len(drafts) BY <1>1, <1>3, <1>4
  <2>2. QED BY <1>1, <2>1, ElementOfSeq DEF PublishTypeOK
<1> HIDE DEF n
<1>5. CASE CreateDraft(j)
  <2> DEFINE new == [marker |-> Marker(j), draft |-> TRUE, head |-> main, text |-> {}, saved |-> FALSE]
  <2>1. /\ publishing[j].at = "create" /\ publication' = publication
        /\ drafts' = Append(drafts, new)
        /\ publishing' = [publishing EXCEPT ![j].at = "save", ![j].pr = Len(drafts')]
    BY <1>5 DEF CreateDraft
  <2>2. Marker(j) \in Jobs \X Nat /\ Marker(j)[1] = j
    BY <1>1 DEF Marker, PublishTypeOK, Publishing
  <2>3. main \in Seq(Reviewed) /\ main \in Seq(Unsaved)
    BY <1>1, PlainIsUnsaved DEF PublishTypeOK
  <2>4. /\ new \in Drafts /\ new.marker = Marker(j) /\ new.head = main /\ ~new.saved
    BY <2>2, <2>3 DEF Drafts, Texts
  <2> HIDE DEF new
  <2>5. /\ drafts' \in Seq(Drafts) /\ Len(drafts') = Len(drafts) + 1
        /\ \A d \in 1 .. Len(drafts) : drafts'[d] = drafts[d]
        /\ drafts'[Len(drafts) + 1] = new
    BY <1>1, <2>1, <2>4, AppendProperties DEF PublishTypeOK
  <2> DEFINE now == [publishing[j] EXCEPT !.at = "save", !.pr = Len(drafts')]
  <2>6. Len(drafts') \in Nat \ {0} /\ publishing[j] \in Publishing
    BY <1>1, <2>5 DEF PublishTypeOK
  <2>7. /\ now \in Publishing /\ now.at = "save" /\ now.pr = Len(drafts')
    BY <2>6 DEF Publishing, Steps
  <2>8. publishing' = [publishing EXCEPT ![j] = now] BY <1>1, <2>1 DEF PublishTypeOK
  <2> HIDE DEF now
  <2>9. /\ publishing' \in [Jobs -> Publishing] /\ publishing'[j] = now
        /\ \A i \in Jobs \ {j} : publishing'[i] = publishing[i]
    BY <1>1, <2>7, <2>8, OneCommandMoves
  <2>10. PublishTypeOK' BY <1>1, <1>2, <2>1, <2>5, <2>9 DEF PublishTypeOK
  <2>11. \A d \in 1 .. Len(drafts') : d \in 1 .. Len(drafts) \/ d = Len(drafts) + 1
    BY <1>1, <2>5
  <2>12. HeadsAreLeased' BY <2>3, <2>4, <2>5, <2>11 DEF PublishInvariant, HeadsAreLeased
  <2>13. \A i \in Jobs \ {j} : Follow(i)
    <3>1. \A d \in Len(drafts) + 1 .. Len(drafts') : drafts'[d].marker[1] = j
      BY <1>1, <2>2, <2>4, <2>5
    <3>2. QED BY <1>1, <2>5, <3>1 DEF Follow
  <2>14. RecordPart(j)' BY <1>1, <2>1, <2>4, <2>5, <2>6, <2>11 DEF RecordPart
  <2>15. CommandPart(j)'
    BY <1>1, <2>1, <2>2, <2>4, <2>5, <2>6, <2>7, <2>9 DEF CommandPart
  <2>16. QED BY <1>2, <2>1, <2>9, <2>10, <2>12, <2>13, <2>14, <2>15, PublicationStep
<1>6. CASE SaveDraft(j)
  <2> DEFINE new == [drafts[n] EXCEPT !.saved = TRUE]
             record == [of |-> publishing[j].of, pr |-> n, expected |-> Reference(j), status |-> "pending"]
  <2>1. /\ publishing[j].at = "save" /\ To(j, "compare")
        /\ publication' = [publication EXCEPT ![j] = record]
        /\ drafts' = [drafts EXCEPT ![n].saved = TRUE]
    BY <1>6 DEF SaveDraft, n
  <2>2. /\ n # 0 /\ drafts[n].marker[1] = j /\ j \notin Manual /\ publication[j].status = "none"
    BY <1>1, <2>1 DEF CommandPart, n
  <2>3. n \in 1 .. Len(drafts) /\ drafts[n] \in Drafts BY <1>4, <2>2
  <2>4. ~drafts[n].saved BY <1>1, <2>2, <2>3 DEF RecordPart
  <2>5. Reference(j) \in Seq(Unsaved)
    BY <2>2, <2>3, <2>4 DEF PublishInvariant, HeadsAreLeased, Reference, n
  <2>6. new \in Drafts /\ new.marker = drafts[n].marker /\ new.draft = drafts[n].draft /\ new.saved
    BY <2>3 DEF Drafts
  <2>7. drafts' = [drafts EXCEPT ![n] = new] BY <1>1, <2>1, <2>3 DEF PublishTypeOK
  <2>8. /\ record \in [of : Nat, pr : Nat, expected : Seq(Unsaved),
                       status : {"none", "unchanged", "pending", "published"}]
        /\ record.pr = n /\ record.status = "pending"
    BY <1>1, <2>3, <2>5 DEF PublishTypeOK, Publishing
  <2> HIDE DEF new, record
  <2>9. /\ drafts' \in Seq(Drafts) /\ Len(drafts') = Len(drafts)
    BY <1>1, <2>3, <2>6, <2>7, OneDraftChanges
  <2>10. /\ publishing' \in [Jobs -> Publishing] /\ publishing'[j].at = "compare"
         /\ publishing'[j].pr = n
         /\ \A i \in Jobs \ {j} : publishing'[i] = publishing[i]
    BY <1>1, <2>1, CommandGoesOn DEF Steps, n
  <2>11. publication' \in [Jobs -> [of : Nat, pr : Nat, expected : Seq(Unsaved),
                                   status : {"none", "unchanged", "pending", "published"}]]
         /\ publication'[j] = record /\ \A i \in Jobs \ {j} : publication'[i] = publication[i]
    BY <1>1, <2>1, <2>8 DEF PublishTypeOK
  <2>12. PublishTypeOK' BY <1>1, <1>2, <2>9, <2>10, <2>11 DEF PublishTypeOK
  <2>13. HeadsAreLeased' BY <2>3, <2>6, <2>7, ChangedHeadsAreLeased
  <2>14. \A i \in Jobs \ {j} : Follow(i) BY <1>1, <2>2, <2>3, <2>6, <2>7, ChangedDraftsFollow
  <2>15. RecordPart(j)' BY <1>1, <2>2, <2>3, <2>8, <2>9, <2>11 DEF RecordPart
  <2>16. CommandPart(j)' BY <1>1, <2>2, <2>3, <2>8, <2>9, <2>10, <2>11 DEF CommandPart
  <2>17. QED BY <1>2, <2>10, <2>11, <2>12, <2>13, <2>14, <2>15, <2>16, PublicationStep
<1>7. ASSUME NEW new \in Drafts, drafts' = [drafts EXCEPT ![n] = new], n # 0,
             new.marker = drafts[n].marker, new.draft = drafts[n].draft, new.saved = drafts[n].saved,
             ~new.saved => new.head \in Seq(Unsaved), publication' = publication,
             NEW at \in {"idle", "verify"}, publishing' \in [Jobs -> Publishing],
             \A i \in Jobs \ {j} : publishing'[i] = publishing[i],
             publishing'[j].at = at, publishing'[j].pr \in {0, n},
             at = "verify" => publishing[j].at = "push" /\ publishing'[j].pr = n
      PROVE  PublishInvariant'
  <2>1. n \in 1 .. Len(drafts) /\ drafts[n] \in Drafts BY <1>4, <1>7
  <2>2. drafts' \in Seq(Drafts) /\ Len(drafts') = Len(drafts)
    BY <1>1, <1>7, <2>1, OneDraftChanges
  <2>3. PublishTypeOK' BY <1>1, <1>2, <1>7, <2>2 DEF PublishTypeOK
  <2>4. HeadsAreLeased' BY <1>7, <2>1, ChangedHeadsAreLeased
  <2>5. \A i \in Jobs : Follow(i) BY <1>1, <1>7, <2>1, ChangedDraftsFollow
  <2>6. RecordPart(j)' BY <1>7, <2>3, <2>5, RecordStays
  <2>7. CommandPart(j)' BY <1>1, <1>3, <1>7, <2>2 DEF CommandPart, n
  <2>8. QED BY <1>2, <1>7, <2>3, <2>4, <2>5, <2>6, <2>7, PublicationStep
<1>8. ASSUME End(j), publication' = publication, drafts' = drafts PROVE PublishInvariant'
  <2>1. /\ publishing' \in [Jobs -> Publishing] /\ publishing'[j] = Idle
        /\ \A i \in Jobs \ {j} : publishing'[i] = publishing[i]
    BY <1>1, <1>8, CommandEnds
  <2>2. CommandPart(j)' BY <1>1, <1>2, <1>8, <2>1 DEF CommandPart, Idle
  <2>3. PublishTypeOK' BY <1>1, <1>2, <1>8, <2>1 DEF PublishTypeOK
  <2>4. QED BY <1>2, <1>8, <2>1, <2>2, <2>3, LocalStep
<1>9. CASE PushDraft(j)
  <2>1. publication' = publication /\ publishing[j].at = "push" /\ j \notin Manual
    BY <1>9 DEF PushDraft
  <2>2. n # 0 BY <1>1, <2>1 DEF CommandPart, n
  <2>3. CASE drafts' = [drafts EXCEPT ![n].head = Target(j)] /\ To(j, "verify")
    <3> DEFINE new == [drafts[n] EXCEPT !.head = Target(j)]
    <3>1. Target(j) \in Seq(Unsaved) /\ Target(j) \in Seq(Reviewed)
      BY <1>1, TargetIsPlain, PlainIsUnsaved
    <3>2. n \in 1 .. Len(drafts) /\ drafts[n] \in Drafts BY <1>4, <2>2
    <3>3. /\ new \in Drafts /\ new.marker = drafts[n].marker /\ new.draft = drafts[n].draft
          /\ new.saved = drafts[n].saved /\ new.head \in Seq(Unsaved)
      BY <3>1, <3>2 DEF Drafts
    <3>4. drafts' = [drafts EXCEPT ![n] = new] BY <1>1, <2>3, <3>2 DEF PublishTypeOK
    <3>5. /\ publishing' \in [Jobs -> Publishing] /\ publishing'[j].at = "verify"
          /\ publishing'[j].pr = n
          /\ \A i \in Jobs \ {j} : publishing'[i] = publishing[i]
      BY <1>1, <2>3, CommandGoesOn DEF Steps, n
    <3> HIDE DEF new
    <3>6. QED BY <1>7, <2>1, <2>2, <3>3, <3>4, <3>5
  <2>4. CASE UNCHANGED drafts /\ End(j) BY <1>8, <2>1, <2>4
  <2>5. QED BY <1>9, <2>3, <2>4 DEF PushDraft, n
<1>10. CASE EditBody(j)
  <2>1. publication' = publication /\ publishing[j].at = "edit" /\ End(j) BY <1>10 DEF EditBody
  <2>2. n # 0 BY <1>1, <2>1 DEF CommandPart, n
  <2>3. CASE drafts' = drafts BY <1>8, <2>1, <2>3
  <2>4. CASE drafts' = [drafts EXCEPT ![n].text = publishing[j].text \cup {"link"}]
    <3> DEFINE text == publishing[j].text \cup {"link"}
               new == [drafts[n] EXCEPT !.text = text]
    <3>1. text \in Texts BY <1>1 DEF PublishTypeOK, Publishing, Texts
    <3>2. n \in 1 .. Len(drafts) /\ drafts[n] \in Drafts BY <1>4, <2>2
    <3>3. drafts' = [drafts EXCEPT ![n] = new] BY <1>1, <2>4, <3>2 DEF PublishTypeOK
    <3> HIDE DEF text
    <3>4. /\ new \in Drafts /\ new.marker = drafts[n].marker /\ new.draft = drafts[n].draft
          /\ new.saved = drafts[n].saved /\ new.head = drafts[n].head
      BY <3>1, <3>2 DEF Drafts
    <3> HIDE DEF new
    <3>5. ~new.saved => new.head \in Seq(Unsaved)
      BY <3>2, <3>4 DEF PublishInvariant, HeadsAreLeased
    <3>6. /\ publishing' \in [Jobs -> Publishing] /\ publishing'[j] = Idle
          /\ \A i \in Jobs \ {j} : publishing'[i] = publishing[i]
      BY <1>1, <2>1, CommandEnds
    <3>7. publishing'[j].at = "idle" /\ publishing'[j].pr = 0 BY <3>6 DEF Idle
    <3>8. QED BY <1>7, <2>1, <2>2, <3>3, <3>4, <3>5, <3>6, <3>7
  <2>5. QED BY <1>10, <2>3, <2>4 DEF EditBody, n
<1>11. QED BY <1>5, <1>6, <1>9, <1>10

(* Reviewers and merges keep the invariant. *)
LEMMA OthersKeepPublishInvariant ==
  ASSUME PublishInvariant, Reviews \/ Merges
  PROVE  PublishInvariant'
<1>1. PublishTypeOK /\ Len(drafts) \in Nat BY DEF PublishInvariant, PublishTypeOK
<1>2. UNCHANGED <<checkout, clone, tree, tip, publication, publishing>>
  BY DEF Reviews, Merges, localVars
<1>3. ASSUME PublishTypeOK', HeadsAreLeased', \A i \in Jobs : Follow(i)
      PROVE  PublishInvariant'
  <2>1. ASSUME NEW i \in Jobs PROVE RecordPart(i)' /\ CommandPart(i)'
    BY <1>2, <1>3, CommandStays
  <2>2. QED BY <1>3, <2>1 DEF PublishInvariant
<1>4. CASE Reviews
  <2>1. ASSUME NEW d \in 1 .. Len(drafts), NEW new \in Drafts, drafts' = [drafts EXCEPT ![d] = new],
               new.marker = drafts[d].marker, new.draft => drafts[d].draft,
               new.saved = drafts[d].saved, ~new.saved => new.head \in Seq(Unsaved)
        PROVE  PublishInvariant'
    <3>1. main' = main BY <1>4 DEF Reviews
    <3>2. drafts' \in Seq(Drafts) BY <1>1, <2>1, OneDraftChanges
    <3>3. PublishTypeOK' BY <1>1, <1>2, <3>1, <3>2 DEF PublishTypeOK
    <3>4. HeadsAreLeased' BY <2>1, ChangedHeadsAreLeased
    <3>5. \A i \in Jobs : Follow(i) BY <1>1, <2>1, ChangedDraftsFollow
    <3>6. QED BY <1>3, <3>3, <3>4, <3>5
  <2>2. PICK d \in DOMAIN drafts :
          \/ drafts' = [drafts EXCEPT ![d].head = Append(@, IF drafts[d].saved THEN Late ELSE Early)]
          \/ drafts[d].draft /\ drafts' = [drafts EXCEPT ![d].draft = FALSE]
          \/ drafts' = [drafts EXCEPT ![d].text = @ \cup {"note"}]
    BY <1>4 DEF Reviews
  <2>3. d \in 1 .. Len(drafts) /\ drafts[d] \in Drafts BY <1>1 DEF PublishTypeOK
  <2>4. ~drafts[d].saved => drafts[d].head \in Seq(Unsaved)
    BY <2>3 DEF PublishInvariant, HeadsAreLeased
  <2>5. CASE drafts' = [drafts EXCEPT ![d].head = Append(@, IF drafts[d].saved THEN Late ELSE Early)]
    <3> DEFINE commit == IF drafts[d].saved THEN Late ELSE Early
               head   == Append(drafts[d].head, commit)
               new    == [drafts[d] EXCEPT !.head = head]
    <3>1. commit \in Reviewed /\ (~drafts[d].saved => commit \in Unsaved)
      BY DEF Reviewed, Unsaved
    <3>2. drafts[d].head \in Seq(Reviewed) BY <2>3 DEF Drafts
    <3>3. drafts' = [drafts EXCEPT ![d] = new] BY <1>1, <2>3, <2>5 DEF PublishTypeOK
    <3> HIDE DEF commit
    <3>4. head \in Seq(Reviewed) BY <3>1, <3>2, AppendProperties
    <3>5. ~drafts[d].saved => head \in Seq(Unsaved) BY <2>4, <3>1, AppendProperties
    <3> HIDE DEF head
    <3>6. /\ new \in Drafts /\ new.marker = drafts[d].marker /\ new.draft = drafts[d].draft
          /\ new.saved = drafts[d].saved /\ new.head = head
      BY <2>3, <3>4 DEF Drafts
    <3> HIDE DEF new
    <3>7. QED BY <2>1, <2>3, <3>3, <3>5, <3>6
  <2>6. CASE drafts[d].draft /\ drafts' = [drafts EXCEPT ![d].draft = FALSE]
    <3> DEFINE new == [drafts[d] EXCEPT !.draft = FALSE]
    <3>1. drafts' = [drafts EXCEPT ![d] = new] BY <1>1, <2>3, <2>6 DEF PublishTypeOK
    <3>2. /\ new \in Drafts /\ new.marker = drafts[d].marker /\ ~new.draft
          /\ new.saved = drafts[d].saved /\ new.head = drafts[d].head
      BY <2>3 DEF Drafts
    <3> HIDE DEF new
    <3>3. QED BY <2>1, <2>3, <2>4, <3>1, <3>2
  <2>7. CASE drafts' = [drafts EXCEPT ![d].text = @ \cup {"note"}]
    <3> DEFINE text == drafts[d].text \cup {"note"}
               new  == [drafts[d] EXCEPT !.text = text]
    <3>1. text \in Texts BY <2>3 DEF Drafts, Texts
    <3>2. drafts' = [drafts EXCEPT ![d] = new] BY <1>1, <2>3, <2>7 DEF PublishTypeOK
    <3> HIDE DEF text
    <3>3. /\ new \in Drafts /\ new.marker = drafts[d].marker /\ new.draft = drafts[d].draft
          /\ new.saved = drafts[d].saved /\ new.head = drafts[d].head
      BY <2>3, <3>1 DEF Drafts
    <3> HIDE DEF new
    <3>4. QED BY <2>1, <2>3, <2>4, <3>2, <3>3
  <2>8. QED BY <2>2, <2>5, <2>6, <2>7
<1>5. CASE Merges
  <2>1. main \in Seq(Plain) /\ Len(main) \in Nat BY <1>1 DEF PublishTypeOK
  <2>2. <<"merge", Len(main)>> \in Plain BY <2>1 DEF Plain
  <2>3. main' \in Seq(Plain) BY <1>5, <2>1, <2>2, AppendProperties DEF Merges
  <2>4. drafts' = drafts BY <1>5 DEF Merges
  <2>5. PublishTypeOK' BY <1>1, <1>2, <2>3, <2>4 DEF PublishTypeOK
  <2>6. HeadsAreLeased' BY <2>4 DEF PublishInvariant, HeadsAreLeased
  <2>7. \A i \in Jobs : Follow(i) BY <1>1, <2>4, UntouchedDraftsFollow
  <2>8. QED BY <1>3, <2>5, <2>6, <2>7
<1>6. QED BY <1>4, <1>5

(* PublishInvariant holds of every publication, for any Jobs and checkouts:   *)
(* what a record says of its draft, and how far each command is.             *)
THEOREM PublishInvariantHolds == PublishSpec => []PublishInvariant
<1>1. PublishInit => PublishInvariant
  <2> SUFFICES ASSUME PublishInit PROVE PublishInvariant OBVIOUS
  <2>1. <<>> \in Seq(Plain) /\ <<>> \in Seq(Unsaved) /\ <<>> \in Seq(Drafts) /\ Len(<<>>) = 0
    BY EmptySeq
  <2>2. Idle \in Publishing BY DEF Idle, Publishing, Steps, Texts
  <2>3. PublishTypeOK BY <2>1, <2>2 DEF PublishInit, PublishTypeOK, NoTree, NoDraft
  <2>4. HeadsAreLeased BY <2>1 DEF PublishInit, HeadsAreLeased
  <2>5. ASSUME NEW j \in Jobs PROVE RecordPart(j) /\ CommandPart(j)
    <3>1. publication[j] = NoDraft /\ publishing[j] = Idle /\ drafts = <<>> BY DEF PublishInit
    <3>2. QED BY <2>1, <3>1 DEF RecordPart, CommandPart, NoDraft, Idle
  <2>6. QED BY <2>3, <2>4, <2>5 DEF PublishInvariant
<1>2. PublishInvariant /\ [PublishNext]_publishVars => PublishInvariant'
  <2> SUFFICES ASSUME PublishInvariant, [PublishNext]_publishVars PROVE PublishInvariant' OBVIOUS
  <2>1. CASE UNCHANGED publishVars
    BY <2>1 DEF publishVars, PublishInvariant, PublishTypeOK, HeadsAreLeased, RecordPart,
                CommandPart, Marker
  <2>2. CASE PublishNext
    BY <2>2, CheckpointKeepsPublishInvariant, CommandKeepsPublishInvariant,
       RecordKeepsPublishInvariant, DraftKeepsPublishInvariant, OthersKeepPublishInvariant
       DEF PublishNext
  <2>3. QED BY <2>1, <2>2
<1>3. QED BY <1>1, <1>2, PTL DEF PublishSpec

(* main and the drafts of a step that is not about a draft.                  *)
LEMMA PushesKeepWhatWasReviewed ==
  ASSUME PublishInvariant, NEW j \in Jobs, PushDraft(j), NEW d \in DOMAIN drafts,
         NEW i \in DOMAIN drafts[d].head, drafts[d].head[i] = Late
  PROVE  drafts'[d] = drafts[d]
<1> DEFINE n == publishing[j].pr
<1>1. CASE UNCHANGED drafts BY <1>1
<1>2. CASE Reference(j) = publication[j].expected /\ drafts' = [drafts EXCEPT ![n].head = Target(j)]
  <2>1. CASE n = d
    <3>1. j \notin Manual BY DEF PushDraft
    <3>2. drafts[d].head = publication[j].expected BY <1>2, <2>1, <3>1 DEF Reference
    <3>3. publication[j].expected \in Seq(Unsaved) BY DEF PublishInvariant, PublishTypeOK
    <3>4. Late \in Unsaved BY <3>2, <3>3
    <3>5. QED BY <3>4, LateIsReviewed
  <2>2. CASE n # d BY <1>2, <2>2
  <2>3. QED BY <2>1, <2>2
<1>3. QED BY <1>1, <1>2 DEF PushDraft

(* No checkpoint gets a second draft while it has one, a draft keeps what was *)
(* committed to it after it was recorded, and main keeps everything: the     *)
(* property the runs check, for any Jobs.                                    *)
THEOREM PublicationResumesHolds == PublishSpec => PublicationResumes
<1> DEFINE NoSecond == \A d \in DOMAIN drafts' \ DOMAIN drafts : \A e \in DOMAIN drafts :
                         drafts[e].draft => drafts[e].marker # drafts'[d].marker
           Kept(d)  == (\E i \in DOMAIN drafts[d].head : drafts[d].head[i] = Late)
                       => \E i \in DOMAIN drafts'[d].head : drafts'[d].head[i] = Late
           Grows    == main' # main => Extends(main', main)
<1>1. PublishInvariant /\ [PublishNext]_publishVars
        => [NoSecond /\ (\A d \in DOMAIN drafts : Kept(d)) /\ Grows]_publishVars
  <2> SUFFICES ASSUME PublishInvariant, PublishNext
               PROVE  NoSecond /\ (\A d \in DOMAIN drafts : Kept(d)) /\ Grows
    OBVIOUS
  <2>1. PublishTypeOK /\ DOMAIN drafts = 1 .. Len(drafts) /\ Len(drafts) \in Nat
    BY DEF PublishInvariant, PublishTypeOK
  <2>2. NoSecond
    <3>1. CASE \E j \in Jobs : CreateDraft(j)
      <4>1. PICK j \in Jobs : CreateDraft(j) BY <3>1
      <4>2. \A e \in 1 .. Len(drafts) : drafts[e].draft => drafts[e].marker # Marker(j)
        BY <4>1 DEF PublishInvariant, CommandPart, CreateDraft
      <4> DEFINE new == [marker |-> Marker(j), draft |-> TRUE, head |-> main, text |-> {}, saved |-> FALSE]
      <4>3. drafts' = Append(drafts, new) /\ new.marker = Marker(j) BY <4>1 DEF CreateDraft
      <4>6. new \in Drafts
        <5>1. Marker(j) \in Jobs \X Nat BY <2>1 DEF Marker, PublishTypeOK, Publishing
        <5>2. main \in Seq(Reviewed) BY <2>1, PlainIsUnsaved DEF PublishTypeOK
        <5>3. QED BY <5>1, <5>2 DEF Drafts, Texts
      <4> HIDE DEF new
      <4>7. /\ DOMAIN drafts' = 1 .. Len(drafts) + 1 /\ drafts'[Len(drafts) + 1] = new
        BY <2>1, <4>3, <4>6, AppendProperties DEF PublishTypeOK
      <4>4. \A d \in DOMAIN drafts' \ DOMAIN drafts : drafts'[d] = new
        BY <2>1, <4>7
      <4>5. QED BY <2>1, <4>2, <4>3, <4>4
    <3>2. CASE DOMAIN drafts' = DOMAIN drafts BY <3>2
    <3>3. (\E j \in Jobs : CreateDraft(j)) \/ DOMAIN drafts' = DOMAIN drafts
      BY <2>1 DEF PublishNext, PublishTypeOK, StartCheckpoint, Initialize, CloneOrFetch,
         BreakClone, AddWorktree,
         WriteMetadata, CommitAssets, NothingToPublish, PublishDraft, ResumeDraft, PublishMain,
         Begins, Search, SaveDraft, CompareHeads, PushMain, PushDraft, VerifyPublished,
         ReadBody, EditBody, CommandFails, Reviews, Merges, hubVars
    <3>4. QED BY <3>1, <3>2, <3>3
  <2>3. ASSUME NEW d \in DOMAIN drafts PROVE Kept(d)
    <3>1. drafts[d] \in Drafts BY <2>1 DEF PublishTypeOK
    <3>2. CASE drafts' = drafts BY <3>2
    <3>3. CASE \E j \in Jobs : CreateDraft(j)
      <4>1. drafts'[d] = drafts[d] BY <2>1, <3>3 DEF CreateDraft, PublishTypeOK
      <4>2. QED BY <4>1
    <3>4. CASE \E j \in Jobs : SaveDraft(j) \/ EditBody(j)
      <4> DEFINE Kind(k) == \/ drafts' = [drafts EXCEPT ![k].saved = TRUE]
                            \/ \E text : drafts' = [drafts EXCEPT ![k].text = text]
                            \/ drafts' = drafts
      <4>2. PICK k : Kind(k)
        <5>1. PICK j \in Jobs : SaveDraft(j) \/ EditBody(j) BY <3>4
        <5>2. Kind(publishing[j].pr) BY <5>1 DEF SaveDraft, EditBody
        <5>3. QED BY <5>2
      <4>3. drafts'[d].head = drafts[d].head
        <5>1. CASE drafts' = [drafts EXCEPT ![k].saved = TRUE] BY <3>1, <5>1 DEF Drafts
        <5>2. CASE \E text : drafts' = [drafts EXCEPT ![k].text = text] BY <3>1, <5>2 DEF Drafts
        <5>3. QED BY <4>2, <5>1, <5>2
      <4>4. QED BY <4>3
    <3>5. CASE \E j \in Jobs : PushDraft(j) BY <3>5, PushesKeepWhatWasReviewed
    <3>6. CASE Reviews
      <4>1. CASE drafts'[d].head = drafts[d].head BY <4>1
      <4>2. ASSUME NEW commit \in Reviewed, drafts'[d].head = Append(drafts[d].head, commit)
            PROVE  Kept(d)
        <5>1. drafts[d].head \in Seq(Reviewed) BY <3>1 DEF Drafts
        <5>2. QED BY <4>2, <5>1, AppendProperties
      <4>3. Late \in Reviewed /\ Early \in Reviewed BY DEF Reviewed, Unsaved
      <4>4. \/ drafts'[d].head = drafts[d].head
            \/ drafts'[d].head = Append(drafts[d].head, Late)
            \/ drafts'[d].head = Append(drafts[d].head, Early)
        <5>1. PICK e \in DOMAIN drafts :
                \/ drafts' = [drafts EXCEPT ![e].head = Append(@, IF drafts[e].saved THEN Late ELSE Early)]
                \/ drafts[e].draft /\ drafts' = [drafts EXCEPT ![e].draft = FALSE]
                \/ drafts' = [drafts EXCEPT ![e].text = @ \cup {"note"}]
          BY <3>6 DEF Reviews
        <5>2. CASE drafts' = [drafts EXCEPT ![e].head = Append(@, IF drafts[e].saved THEN Late ELSE Early)]
          BY <3>1, <5>2 DEF Drafts
        <5>3. CASE drafts' = [drafts EXCEPT ![e].draft = FALSE] BY <3>1, <5>3 DEF Drafts
        <5>4. CASE drafts' = [drafts EXCEPT ![e].text = @ \cup {"note"}]
          BY <3>1, <5>4 DEF Drafts
        <5>5. QED BY <5>1, <5>2, <5>3, <5>4
      <4>5. QED BY <4>1, <4>2, <4>3, <4>4
    <3>7. \/ drafts' = drafts \/ Reviews
          \/ \E j \in Jobs : CreateDraft(j) \/ SaveDraft(j) \/ EditBody(j) \/ PushDraft(j)
      BY DEF PublishNext, StartCheckpoint, Initialize, CloneOrFetch, BreakClone, AddWorktree,
         WriteMetadata, CommitAssets, NothingToPublish, PublishDraft, ResumeDraft, PublishMain,
         Begins, Search, CompareHeads, PushMain, VerifyPublished, ReadBody, CommandFails, Merges, hubVars
    <3>8. QED BY <3>2, <3>3, <3>4, <3>5, <3>6, <3>7
  <2>4. Grows
    <3>1. CASE \E j \in Jobs : PushMain(j) BY <3>1 DEF PushMain
    <3>2. CASE Merges
      <4> DEFINE commit == <<"merge", Len(main)>>
      <4>1. main \in Seq(Plain) /\ Len(main) \in Nat BY <2>1 DEF PublishTypeOK
      <4>2. commit \in Plain BY <4>1 DEF Plain
      <4>3. main' = Append(main, commit) BY <3>2 DEF Merges
      <4> HIDE DEF commit
      <4>4. main' \in Seq(Plain) /\ Len(main') = Len(main) + 1
            /\ \A i \in 1 .. Len(main) : main'[i] = main[i]
        BY <4>1, <4>2, <4>3, AppendProperties
      <4>5. SubSeq(main', 1, Len(main)) = main
        BY <4>1, <4>4, SubSeqProperties, SeqEqual
      <4>6. QED BY <4>1, <4>4, <4>5 DEF Extends
    <3>3. main' = main \/ Merges \/ \E j \in Jobs : PushMain(j)
      BY DEF PublishNext, StartCheckpoint, Initialize, CloneOrFetch, BreakClone, AddWorktree,
         WriteMetadata, CommitAssets, NothingToPublish, PublishDraft, ResumeDraft, PublishMain,
         Begins, Search, CreateDraft, SaveDraft, CompareHeads, PushDraft, VerifyPublished,
         ReadBody, EditBody, CommandFails, Reviews, hubVars
    <3>4. QED BY <3>1, <3>2, <3>3
  <2>5. QED BY <2>2, <2>3, <2>4
<1>2. QED BY <1>1, PublishInvariantHolds, PTL DEF PublishSpec, PublicationResumes
=============================================================================
