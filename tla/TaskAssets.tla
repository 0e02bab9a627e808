------------------------------ MODULE TaskAssets ------------------------------
(***************************************************************************)
(* The asset roots of a Task in a working copy: assets.py (pull, replace,  *)
(* the clean marker, the repository lock) and asset_git.py (checkpoint,    *)
(* restore).  Several ale processes share the roots, their backups and the *)
(* marker; people and builds edit the roots without any lock.              *)
(*                                                                         *)
(* A root is a version of its files and a stamp, which stands for all an   *)
(* inventory reads (paths, sizes, modification times): writing a root      *)
(* gives it a stamp nothing else has, renaming it keeps its stamp.         *)
(* A commit is the tree of versions it holds.                              *)
(***************************************************************************)
EXTENDS Integers

CONSTANTS
  Procs,    \* ale processes; each runs one command
  Roots,    \* ASSET_ROOTS of the selected Tasks
  Order,    \* their order in `entries`
  Versions, \* what a root's files may be
  Stamps,   \* what an inventory may read (bounds the writes remembered at once)
  Sources,  \* the trees a pull may download or a restore may check out
  MaxEdits, \* bound on the edits made by others
  NoFiles, Partial, NoStamp, NoProc, NoMarker

Absent  == [version |-> NoFiles, stamp |-> NoStamp]
Content == {Absent} \cup [version: Versions \cup {Partial}, stamp: Stamps]
Trees   == [Roots -> Versions \cup {Partial, NoFiles}]
Inventories == [Roots -> Stamps \cup {NoStamp}]

ASSUME AssetsAssumption ==
  /\ NoProc \notin Procs
  /\ Order \in [Roots -> Nat]
  /\ \A r, q \in Roots : Order[r] = Order[q] => r = q
  /\ NoFiles \notin Versions \cup {Partial} /\ Partial \notin Versions
  /\ NoStamp \notin Stamps
  /\ Sources \subseteq Trees
  /\ MaxEdits \in Nat
  /\ NoMarker \notin [tree: Trees, inventory: Inventories, raced: BOOLEAN]

VARIABLES
  roots,   \* what is at each asset root
  backup,  \* what is at its .ale-backup
  marker,  \* the Task's entry of .ale-cache/assets.json
  lock,    \* the holder of assets.lock
  pc,      \* per process: where it is
  forced,  \* per process: --force, or a restore
  wanted,  \* per process: the tree it puts in place, or has committed
  todo,    \* per process: what is left of the loop it is in
  found,   \* per process: the roots its replacement began with
  cause,   \* per process: the loop that failed
  inv,     \* per process: a checkpoint's first inventory
  raced,   \* per process: others wrote where it had looked already
  edits

fileVars == <<roots, backup>>
procVars == <<forced, wanted, todo, found, cause, inv>>
vars == <<fileVars, marker, lock, pc, procVars, raced, edits>>

Replacement == {"clear", "rename", "copy", "fill", "discard", "rollback", "put_back"}
Saving      == {"inventory", "save", "saved"}
PCs         == {"idle", "download", "mark", "done"} \cup Replacement \cup Saving

TypeOK ==
  /\ roots \in [Roots -> Content] /\ backup \in [Roots -> Content]
  /\ marker \in {NoMarker} \cup [tree: Trees, inventory: Inventories, raced: BOOLEAN]
  /\ lock \in Procs \cup {NoProc}
  /\ pc \in [Procs -> PCs]
  /\ forced \in [Procs -> BOOLEAN]
  /\ wanted \in [Procs -> Trees]
  /\ todo \in [Procs -> SUBSET Roots]
  /\ found \in [Procs -> [Roots -> Content]]
  /\ cause \in [Procs -> {"none", "rename", "copy"}]
  /\ inv \in [Procs -> Inventories]
  /\ raced \in [Procs -> BOOLEAN]
  /\ edits \in 0..MaxEdits

Nothing     == [r \in Roots |-> NoFiles]
NoRoots     == [r \in Roots |-> Absent]
NoInventory == [r \in Roots |-> NoStamp]

Init ==
  /\ roots \in [Roots -> {Absent} \cup [version: Versions, stamp: Stamps]]
  /\ backup = NoRoots
  /\ marker = NoMarker
  /\ lock = NoProc
  /\ pc = [p \in Procs |-> "idle"]
  /\ forced = [p \in Procs |-> FALSE]
  /\ wanted = [p \in Procs |-> Nothing]
  /\ todo = [p \in Procs |-> {}]
  /\ found = [p \in Procs |-> NoRoots]
  /\ cause = [p \in Procs |-> "none"]
  /\ inv = [p \in Procs |-> NoInventory]
  /\ raced = [p \in Procs |-> FALSE]
  /\ edits = 0

-----------------------------------------------------------------------------
Inventory == [r \in Roots |-> roots[r].stamp]

(* A time of writing that no file or record has. *)
Unused(r) == {s \in Stamps :
  /\ s # roots[r].stamp /\ s # backup[r].stamp
  /\ marker # NoMarker => s # marker.inventory[r]
  /\ \A p \in Procs : s # inv[p][r] /\ s # found[p][r].stamp}

(* The next entry of the loop p is in. *)
Turn(p, here, r) == /\ pc[p] = here /\ r \in todo[p]
                    /\ \A q \in todo[p] : Order[r] <= Order[q]

Goto(p, there)  == pc' = [pc EXCEPT ![p] = there]
Loop(p, there)  == Goto(p, there) /\ todo' = [todo EXCEPT ![p] = Roots]
Took(p, r)      == todo' = [todo EXCEPT ![p] = @ \ {r}]
AllAbsent       == \A r \in Roots : roots[r] = Absent

(* The command ends, and with it the lock it holds and what it remembers. *)
Leave(p) ==
  /\ Goto(p, "done")
  /\ lock' = IF lock = p THEN NoProc ELSE lock
  /\ forced' = [forced EXCEPT ![p] = FALSE]
  /\ wanted' = [wanted EXCEPT ![p] = Nothing]
  /\ todo' = [todo EXCEPT ![p] = {}]
  /\ found' = [found EXCEPT ![p] = NoRoots]
  /\ cause' = [cause EXCEPT ![p] = "none"]
  /\ inv' = [inv EXCEPT ![p] = NoInventory]
  /\ raced' = [raced EXCEPT ![p] = FALSE]

Replaces(p)  == pc[p] \in Replacement
Busy         == \E p \in Procs : Replaces(p)

-----------------------------------------------------------------------------
(* pull_assets and restore_assets.                                          *)

(* Mutant: a pull asks once, before it downloads. *)
AskedBefore(p) == TRUE

(* _require_absent_assets *)
MayReplace(p) == forced[p] \/ AllAbsent

StartPull(p) ==
  /\ pc[p] = "idle"
  /\ \E f \in BOOLEAN, t \in Sources :
       /\ f \/ AllAbsent
       /\ forced' = [forced EXCEPT ![p] = f]
       /\ wanted' = [wanted EXCEPT ![p] = t]
  /\ Goto(p, "download")
  /\ UNCHANGED <<fileVars, marker, lock, todo, found, cause, inv, raced, edits>>

(* The lock is taken, the roots are looked at again and validated.  Those   *)
(* who are saving a checkpoint meanwhile have looked at them too early.     *)
StartReplacing(p) ==
  /\ pc[p] = "download" /\ lock = NoProc /\ MayReplace(p)
  /\ lock' = p
  /\ Loop(p, "clear")
  /\ found' = [found EXCEPT ![p] = roots]
  /\ raced' = [q \in Procs |-> raced[q] \/ pc[q] \in Saving]
  /\ UNCHANGED <<fileVars, marker, forced, wanted, cause, inv, edits>>

(* The download or the validation fails, or there are roots after all. *)
PullRefused(p) ==
  /\ pc[p] = "download"
  /\ Leave(p)
  /\ UNCHANGED <<fileVars, marker, edits>>

-----------------------------------------------------------------------------
(* _replace_selected_assets; rmtree(ignore_errors) may leave what it finds. *)

ClearBackup(p, r) ==
  /\ Turn(p, "clear", r)
  /\ backup' \in {backup, [backup EXCEPT ![r] = Absent]}
  /\ Took(p, r)
  /\ UNCHANGED <<roots, marker, lock, pc, forced, wanted, found, cause, inv, raced, edits>>

MoveAside(p, r) ==
  /\ Turn(p, "rename", r)
  /\ \/ roots[r] = Absent /\ UNCHANGED fileVars
     \/ /\ roots[r] # Absent /\ backup[r] = Absent
        /\ backup' = [backup EXCEPT ![r] = roots[r]]
        /\ roots' = [roots EXCEPT ![r] = Absent]
  /\ Took(p, r)
  /\ UNCHANGED <<marker, lock, pc, forced, wanted, found, cause, inv, raced, edits>>

(* copytree makes the directory, then its files; what is not in the         *)
(* download is skipped.                                                     *)
StartCopy(p, r) ==
  /\ Turn(p, "copy", r)
  /\ \/ /\ wanted[p][r] = NoFiles
        /\ Took(p, r)
        /\ UNCHANGED <<roots, pc>>
     \/ /\ wanted[p][r] # NoFiles /\ roots[r] = Absent
        /\ \E s \in Unused(r) : roots' = [roots EXCEPT ![r] = [version |-> Partial, stamp |-> s]]
        /\ Goto(p, "fill")
        /\ UNCHANGED todo
  /\ UNCHANGED <<backup, marker, lock, forced, wanted, found, cause, inv, raced, edits>>

FinishCopy(p, r) ==
  /\ Turn(p, "fill", r) /\ wanted[p][r] # NoFiles
  /\ \E s \in Unused(r) :
       roots' = [roots EXCEPT ![r] = [version |-> wanted[p][r], stamp |-> s]]
  /\ Took(p, r) /\ Goto(p, "copy")
  /\ UNCHANGED <<backup, marker, lock, forced, wanted, found, cause, inv, raced, edits>>

(* Mutant: what was already moved or copied is not rolled back. *)
ReplaceFailsShort(p) ==
  /\ pc[p] \in {"rename", "copy", "fill"} /\ todo[p] # {}
  /\ cause' = [cause EXCEPT ![p] = IF pc[p] = "rename" THEN "rename" ELSE "copy"]
  /\ Goto(p, "rollback")
  /\ UNCHANGED <<fileVars, marker, lock, forced, wanted, todo, found, inv, raced, edits>>

(* Any rename or copy may fail, a rename also because a backup is there. *)
ReplaceFails(p) ==
  /\ pc[p] \in {"rename", "copy", "fill"} /\ todo[p] # {}
  /\ cause' = [cause EXCEPT ![p] = IF pc[p] = "rename" THEN "rename" ELSE "copy"]
  /\ Loop(p, "rollback")
  /\ UNCHANGED <<fileVars, marker, lock, forced, wanted, found, inv, raced, edits>>

(* The rollback removes every root, one that was never moved aside too. *)
RemoveNew(p, r) ==
  /\ Turn(p, "rollback", r)
  /\ roots' \in {roots, [roots EXCEPT ![r] = Absent]}
  /\ Goto(p, "put_back")
  /\ UNCHANGED <<backup, marker, lock, procVars, raced, edits>>

PutBack(p, r) ==
  /\ Turn(p, "put_back", r)
  /\ \/ backup[r] = Absent /\ UNCHANGED fileVars
     \/ /\ backup[r] # Absent /\ roots[r] = Absent
        /\ roots' = [roots EXCEPT ![r] = backup[r]]
        /\ backup' = [backup EXCEPT ![r] = Absent]
  /\ Took(p, r) /\ Goto(p, "rollback")
  /\ UNCHANGED <<marker, lock, forced, wanted, found, cause, inv, raced, edits>>

(* Everything was rolled back, or a backup could not be put back. *)
RollbackEnds(p) ==
  /\ \/ pc[p] = "rollback" /\ todo[p] = {}
     \/ \E r \in Roots : Turn(p, "put_back", r) /\ backup[r] # Absent
  /\ Leave(p)
  /\ UNCHANGED <<fileVars, marker, edits>>

DiscardBackup(p, r) ==
  /\ Turn(p, "discard", r)
  /\ backup' \in {backup, [backup EXCEPT ![r] = Absent]}
  /\ Took(p, r)
  /\ UNCHANGED <<roots, marker, lock, pc, forced, wanted, found, cause, inv, raced, edits>>

(* Mutant: the backups go before the copies are made. *)
NextLoopEarly(p) ==
  /\ todo[p] = {}
  /\ \/ pc[p] = "clear" /\ Loop(p, "rename")
     \/ pc[p] = "rename" /\ Loop(p, "discard")
     \/ pc[p] = "discard" /\ Loop(p, "copy")
     \/ pc[p] = "copy" /\ Goto(p, "mark") /\ UNCHANGED todo
  /\ UNCHANGED <<fileVars, marker, lock, forced, wanted, found, cause, inv, raced, edits>>

NextLoop(p) ==
  /\ todo[p] = {}
  /\ \/ pc[p] = "clear" /\ Loop(p, "rename")
     \/ pc[p] = "rename" /\ Loop(p, "copy")
     \/ pc[p] = "copy" /\ Loop(p, "discard")
     \/ pc[p] = "discard" /\ Goto(p, "mark") /\ UNCHANGED todo
  /\ UNCHANGED <<fileVars, marker, lock, forced, wanted, found, cause, inv, raced, edits>>

-----------------------------------------------------------------------------
(* _mark_clean, under the lock.  It takes its own inventory; nobody reads   *)
(* the marker between that and the write.  A Task without roots has none.   *)

MarkClean(p) ==
  /\ pc[p] = "mark"
  /\ marker' = IF AllAbsent THEN NoMarker
               ELSE [tree |-> wanted[p], inventory |-> Inventory, raced |-> raced[p]]
  /\ Leave(p)
  /\ UNCHANGED <<fileVars, edits>>

(* The state file is unreadable, or a root holds a link. *)
MarkFails(p) ==
  /\ pc[p] = "mark"
  /\ Leave(p)
  /\ UNCHANGED <<fileVars, marker, edits>>

-----------------------------------------------------------------------------
(* checkpoint_assets.                                                       *)

TakeInventory(p) ==
  /\ pc[p] = "idle"
  /\ inv' = [inv EXCEPT ![p] = Inventory]
  /\ raced' = [raced EXCEPT ![p] = Busy]
  /\ Goto(p, "inventory")
  /\ UNCHANGED <<fileVars, marker, lock, forced, wanted, todo, found, cause, edits>>

(* observe_task_assets waits for the lock and lets it go; the second time   *)
(* it does is taken together with the first.                                *)
ObserveFirst(p) ==
  /\ pc[p] = "inventory" /\ lock = NoProc
  /\ Loop(p, "save")
  /\ UNCHANGED <<fileVars, marker, lock, forced, wanted, found, cause, inv, raced, edits>>

CopyRoot(p, r) ==
  /\ Turn(p, "save", r)
  /\ wanted' = [wanted EXCEPT ![p][r] = roots[r].version]
  /\ Took(p, r)
  /\ UNCHANGED <<fileVars, marker, lock, pc, forced, found, cause, inv, raced, edits>>

(* Mutant: the inventories are not compared. *)
CommitUnchecked(p) ==
  /\ pc[p] = "save" /\ todo[p] = {}
  /\ Goto(p, "saved")
  /\ UNCHANGED <<fileVars, marker, lock, procVars, raced, edits>>

(* The copy is committed; then the roots must be as they were at first. *)
Commit(p) ==
  /\ pc[p] = "save" /\ todo[p] = {}
  /\ Inventory = inv[p]
  /\ Goto(p, "saved")
  /\ UNCHANGED <<fileVars, marker, lock, procVars, raced, edits>>

(* Git fails, the roots changed, or the Task is clean and committed.  *)
CheckpointFails(p) ==
  /\ pc[p] \in Saving
  /\ Leave(p)
  /\ UNCHANGED <<fileVars, marker, edits>>

LockToMark(p) ==
  /\ pc[p] = "saved" /\ lock = NoProc
  /\ lock' = p
  /\ Goto(p, "mark")
  /\ UNCHANGED <<fileVars, marker, procVars, raced, edits>>

-----------------------------------------------------------------------------
(* Somebody writes or removes a root.  An edit in a directory that is being *)
(* copied counts as made before the copy or after it.  A checkpoint cannot  *)
(* see a root that came and went since its inventory.                       *)
Unseen(p, r) == pc[p] = "save" /\ inv[p][r] = NoStamp /\ roots'[r] = Absent

Edit(r) ==
  /\ edits < MaxEdits /\ edits' = edits + 1
  /\ roots[r].version # Partial
  /\ \/ roots' = [roots EXCEPT ![r] = Absent]
     \/ \E v \in Versions, s \in Unused(r) :
          roots' = [roots EXCEPT ![r] = [version |-> v, stamp |-> s]]
  /\ raced' = [p \in Procs |-> \/ raced[p] \/ Unseen(p, r)
                                  \/ pc[p] \in Replacement \cup {"saved", "mark"}]
  /\ UNCHANGED <<backup, marker, lock, pc, procVars>>

(* A killed process leaves its files; flock ends with it. *)
Kill(p) ==
  /\ pc[p] \notin {"idle", "done"}
  /\ Leave(p)
  /\ UNCHANGED <<fileVars, marker, edits>>

Pull(p) ==
  \/ StartPull(p) \/ StartReplacing(p) \/ PullRefused(p)
  \/ ReplaceFails(p) \/ RollbackEnds(p) \/ NextLoop(p)
  \/ \E r \in Roots : \/ ClearBackup(p, r) \/ MoveAside(p, r) \/ StartCopy(p, r)
                      \/ FinishCopy(p, r) \/ RemoveNew(p, r) \/ PutBack(p, r)
                      \/ DiscardBackup(p, r)

Checkpoint(p) ==
  \/ TakeInventory(p) \/ ObserveFirst(p) \/ Commit(p) \/ CheckpointFails(p) \/ LockToMark(p)
  \/ \E r \in Roots : CopyRoot(p, r)

Next ==
  \/ \E p \in Procs : Pull(p) \/ Checkpoint(p) \/ MarkClean(p) \/ MarkFails(p) \/ Kill(p)
  \/ \E r \in Roots : Edit(r)

Spec == Init /\ [][Next]_vars

-----------------------------------------------------------------------------
(* Properties.                                                              *)

Clean == marker # NoMarker /\ marker.inventory = Inventory
Named == \A r \in Roots : roots[r].version = marker.tree[r]

(* docs/specs/task-assets.md: "dirty assets cannot reuse an episode", and a *)
(* clean Task is named by its commit.  A Task that is observed clean holds  *)
(* the files of the commit in its marker (_mark_clean, checkpoint_assets,   *)
(* observe_task_assets).                                                    *)
CleanMeansCommitted == Clean => Named

(* The same as long as nobody wrote the roots between the look at them and  *)
(* the marker, whatever failed or was killed.                               *)
UnracedCleanMeansCommitted == Clean /\ ~marker.raced => Named

(* A pull without --force finds no root to move aside, though it asked      *)
(* before it downloaded and others pulled meanwhile (pull_assets: the       *)
(* second _require_absent_assets is under the lock).                        *)
PlainPullOverwritesNothing ==
  \A p \in Procs : pc[p] \in {"clear", "rename"} /\ ~forced[p] /\ ~raced[p] => AllAbsent

Undecided == Replacement \ {"discard"}
Has(p, r) == found[p][r] # Absent

(* Until every new root is in place the old ones are at their place or in   *)
(* their backup, so that a kill loses none of them; and after a copy failed *)
(* the rollback puts each of them back (_replace_selected_assets).          *)
OldRootsAreKept ==
  \A p \in Procs, r \in Roots :
    pc[p] \in Undecided /\ ~raced[p] /\ cause[p] # "rename" /\ Has(p, r) =>
      /\ found[p][r] \in {roots[r], backup[r]}
      /\ pc[p] = "rollback" /\ r \notin todo[p] => found[p][r] = roots[r]

(* tests/integration/test_assets_sync.py:106 names it: a pull "rolls back   *)
(* every selected root when replacement fails".  No root a failed           *)
(* replacement found is lost: it is in place or in its backup.              *)
RollbackRestoresEveryRoot ==
  \A p \in Procs, r \in Roots :
    pc[p] = "rollback" /\ ~raced[p] /\ Has(p, r) => found[p][r] \in {roots[r], backup[r]}

-----------------------------------------------------------------------------
(* The inductive invariant.                                                 *)

LockIsHeld == \A p \in Procs : Replaces(p) \/ pc[p] = "mark" => lock = p

CausesAreKnown == \A p \in Procs :
  cause[p] # "none" <=> pc[p] \in {"rollback", "put_back"}

(* A checkpoint that nobody replaced roots under: what it has copied of a   *)
(* root that reads as at first is what the root holds.                      *)
SaversAreAlone == \A p \in Procs : pc[p] \in Saving /\ ~raced[p] => ~Busy

CopiesAreTrue == \A p \in Procs, r \in Roots :
  pc[p] = "save" /\ ~raced[p] /\ r \notin todo[p] /\ roots[r].stamp = inv[p][r]
    => roots[r].version = wanted[p][r]

(* What a replacement has brought about so far. *)
Placed(p, r) ==
  /\ pc[p] = "clear" => found[p][r] = roots[r]
  /\ pc[p] = "rename" => IF r \in todo[p] THEN found[p][r] = roots[r] ELSE roots[r] = Absent
  /\ pc[p] = "copy" /\ r \in todo[p] => roots[r] = Absent
  /\ pc[p] = "fill" /\ r \in todo[p] =>
       roots[r] = Absent \/ \A q \in todo[p] : Order[r] <= Order[q]
  /\ pc[p] \in {"copy", "fill"} /\ r \notin todo[p] => roots[r].version = wanted[p][r]
  /\ pc[p] \in {"discard", "saved", "mark"} => roots[r].version = wanted[p][r]

RootsArePlaced == \A p \in Procs, r \in Roots : ~raced[p] => Placed(p, r)

(* Where a replacement keeps what it found. *)
KeptInBackup(p, r) ==
  \/ pc[p] = "rename" /\ r \notin todo[p]
  \/ pc[p] \in {"copy", "fill"}
  \/ pc[p] \in {"rollback", "put_back"} /\ r \in todo[p] /\ cause[p] = "copy"

BackupsAreKept == \A p \in Procs, r \in Roots :
  ~raced[p] /\ Has(p, r) =>
    /\ KeptInBackup(p, r) => backup[r] = found[p][r]
    /\ pc[p] \in {"rollback", "put_back"} /\ r \notin todo[p] /\ cause[p] = "copy"
         => roots[r] = found[p][r]

StampsAgree == \A r \in Roots :
  roots[r].stamp = backup[r].stamp => roots[r].version = backup[r].version

Agrees(c, r) == c.stamp = marker.inventory[r] => c.version = marker.tree[r]

MarkerIsTrue == marker # NoMarker /\ ~marker.raced =>
  \A r \in Roots : Agrees(roots[r], r) /\ Agrees(backup[r], r) /\ Agrees(Absent, r)

AssetsInvariant ==
  /\ TypeOK /\ LockIsHeld /\ CausesAreKnown
  /\ SaversAreAlone /\ CopiesAreTrue /\ RootsArePlaced /\ BackupsAreKept
  /\ StampsAgree /\ MarkerIsTrue /\ PlainPullOverwritesNothing
=============================================================================
