----------------------------- MODULE ImageCache -----------------------------
(***************************************************************************)
(* What the preparation of images keeps on a Host between runs             *)
(* (task_images.py, images.py, framework.py): an entry per hash of the     *)
(* inputs, made under the entry's flock by whichever process comes first.  *)
(* Authors edit a Task while it is prepared, calls fail, processes die,    *)
(* disks are damaged and Docker's images are pruned.                       *)
(*                                                                         *)
(* EntryContents are named by the version of the inputs they were made from.    *)
(* An author never restores an earlier version.                            *)
(***************************************************************************)
EXTENDS Integers

CONSTANTS
  Preparers, \* processes that prepare the same image
  Kinds,     \* the kinds of entry, as below
  MaxEdit    \* bound: versions of the build context after the first

ImageKinds == {"container", "layer", "vm_build", "materialized", "framed", "extracted",
               "fetched"}

ASSUME CacheAssumption == Kinds \subseteq ImageKinds /\ MaxEdit \in Nat

VARIABLES
  kind,    \* the kind of entry this run prepares
  context, \* the version of the inputs as they are now
  entry,   \* per version: what the record, or the disk in place, holds
  docker,  \* the images Docker has
  holder,  \* per version: who holds the entry's lock
  step,    \* per preparer: what it does next
  asked,   \* per preparer: the version it hashed
  work,    \* per preparer: the version it is building, or has built
  given    \* per preparer: what it was given

cacheVars == <<kind, context, entry, docker, holder, step, asked, work, given>>

Versions == 0..MaxEdit
None     == -1
Damaged  == -2
Unlocked == "nobody"

(* Only what a Task's folder holds can change while it is prepared. *)
Authored == kind \in {"container", "vm_build"}

CacheInit ==
  /\ kind \in Kinds /\ context = 0
  /\ entry = [v \in Versions |-> None] /\ docker = {}
  /\ holder = [v \in Versions |-> Unlocked]
  /\ step = [p \in Preparers |-> "hash"]
  /\ asked = [p \in Preparers |-> None] /\ work = [p \in Preparers |-> None]
  /\ given = [p \in Preparers |-> None]

PrepareAt(p, s) == step' = [step EXCEPT ![p] = s]
Key(p)      == asked[p]
Unlocks(p)  == holder' = [holder EXCEPT ![Key(p)] = Unlocked]
Place(p, c) == entry' = [entry EXCEPT ![Key(p)] = c]
Works(p, c) == work' = [work EXCEPT ![p] = c]
Fails(p)    == /\ Unlocks(p) /\ PrepareAt(p, "failed") /\ Works(p, None)

-----------------------------------------------------------------------------
(* _context_identity and _vm_context_identity, or a pinned identity. *)
Hash(p) ==
  /\ step[p] = "hash"
  /\ asked' = [asked EXCEPT ![p] = context]
  /\ PrepareAt(p, "lock")
  /\ UNCHANGED <<kind, context, entry, docker, holder, work, given>>

Acquire(p) ==
  /\ step[p] = "lock" /\ holder[Key(p)] = Unlocked
  /\ holder' = [holder EXCEPT ![Key(p)] = p]
  /\ PrepareAt(p, "find")
  /\ UNCHANGED <<kind, context, entry, docker, asked, work, given>>

(* Mutant: an entry that is there is taken without a look at it. *)
Present(p) == entry[Key(p)] # None

(* _recorded asks Docker for the image; _valid_qcow2 checks the disk; a     *)
(* fetched directory is there only when it is whole.                        *)
Found(p) ==
  CASE kind \in {"container", "layer"} -> entry[Key(p)] \in docker
    [] kind = "fetched"                -> entry[Key(p)] # None
    [] OTHER                           -> entry[Key(p)] \notin {None, Damaged}

Give(p, c) == given' = [given EXCEPT ![p] = c]

(* A fetched directory is also taken before the lock is asked for. *)
Reuse(p) ==
  /\ \/ step[p] = "find" /\ Unlocks(p)
     \/ step[p] = "lock" /\ kind = "fetched" /\ UNCHANGED holder
  /\ Found(p)
  /\ Give(p, entry[Key(p)]) /\ PrepareAt(p, "done")
  /\ UNCHANGED <<kind, context, entry, docker, asked, work>>

(* An invalid disk is unlinked before the new one is made, or replaced. *)
Miss(p) ==
  /\ step[p] = "find" /\ ~Found(p)
  /\ IF kind \in {"extracted", "materialized"} THEN Place(p, None) ELSE UNCHANGED entry
  /\ PrepareAt(p, IF kind = "vm_build" THEN "stage" ELSE "make")
  /\ UNCHANGED <<kind, context, docker, holder, asked, work, given>>

-----------------------------------------------------------------------------
(* What is made is made in a directory, or under a name, of its own.        *)

StageVmContext(p) ==
  /\ step[p] = "stage"
  /\ Works(p, context) /\ PrepareAt(p, "make")
  /\ UNCHANGED <<kind, context, entry, docker, holder, asked, given>>

(* _build_oci sends Docker the context as it is now. *)
BuildOci(p) ==
  /\ step[p] = "make" /\ kind = "container"
  /\ docker' = docker \cup {context}
  /\ Works(p, context) /\ PrepareAt(p, "publish")
  /\ UNCHANGED <<kind, context, entry, holder, asked, given>>

(* _build: the framework layer, tagged by the digest of its inputs. *)
Layer(p) ==
  /\ step[p] = "make" /\ kind = "layer"
  /\ docker' = docker \cup {Key(p)}
  /\ Works(p, Key(p)) /\ PrepareAt(p, "publish")
  /\ UNCHANGED <<kind, context, entry, holder, asked, given>>

(* The staged context holds links: a file edited in place changes in both. *)
BuildVm(p) ==
  /\ step[p] = "make" /\ kind = "vm_build"
  /\ \E v \in {work[p], context} : Works(p, v)
  /\ PrepareAt(p, "compare")
  /\ UNCHANGED <<kind, context, entry, docker, holder, asked, given>>

(* Mutant: the inputs are not looked at again. *)
AsStaged(p) == TRUE

SameInputs(p) == context = Key(p)

CompareInputs(p) ==
  /\ step[p] = "compare"
  /\ IF SameInputs(p) THEN PrepareAt(p, "validate") /\ UNCHANGED <<holder, work>> ELSE Fails(p)
  /\ UNCHANGED <<kind, context, entry, docker, asked, given>>

(* _materialize, _extract_vm_disk, and the copy that framed_disk frames: the *)
(* tool may leave a broken disk behind without failing.                      *)
MakeDisk(p) ==
  /\ step[p] = "make" /\ kind \in {"materialized", "extracted", "framed"}
  /\ \E c \in {Key(p), Damaged} : Works(p, c)
  /\ PrepareAt(p, "validate")
  /\ UNCHANGED <<kind, context, entry, docker, holder, asked, given>>

Validate(p) ==
  /\ step[p] = "validate"
  /\ IF work[p] = Damaged THEN Fails(p) ELSE PrepareAt(p, "publish") /\ UNCHANGED <<holder, work>>
  /\ UNCHANGED <<kind, context, entry, docker, asked, given>>

(* _fetched: the download's checksum is compared before it is unpacked. *)
Fetch(p) ==
  /\ step[p] = "make" /\ kind = "fetched"
  /\ Works(p, Key(p)) /\ PrepareAt(p, "publish")
  /\ UNCHANGED <<kind, context, entry, docker, holder, asked, given>>

(* The disk already carries the framework: it is recorded and used itself. *)
Carried(p) ==
  /\ step[p] = "make" /\ kind = "framed"
  /\ Give(p, Key(p)) /\ Unlocks(p) /\ PrepareAt(p, "done")
  /\ UNCHANGED <<kind, context, entry, docker, asked, work>>

(* One os.replace, or one rename, of what is whole. *)
Publish(p) ==
  /\ step[p] = "publish"
  /\ Place(p, work[p])
  /\ Give(p, work[p]) /\ Unlocks(p) /\ Works(p, None) /\ PrepareAt(p, "done")
  /\ UNCHANGED <<kind, context, docker, asked>>

-----------------------------------------------------------------------------
(* A call fails, is cancelled, or its process dies: the lock is released    *)
(* and whatever was being made is left behind under its own name.           *)
Stop(p) ==
  /\ step[p] \notin {"hash", "lock", "done", "failed"}
  /\ Fails(p)
  /\ UNCHANGED <<kind, context, entry, docker, asked, given>>

Again(p) ==
  /\ step[p] = "failed" /\ PrepareAt(p, "hash")
  /\ UNCHANGED <<kind, context, entry, docker, holder, asked, work, given>>

Edit ==
  /\ Authored /\ context < MaxEdit /\ context' = context + 1
  /\ UNCHANGED <<kind, entry, docker, holder, step, asked, work, given>>

Prune ==
  /\ \E v \in docker : docker' = docker \ {v}
  /\ UNCHANGED <<kind, context, entry, holder, step, asked, work, given>>

Damage ==
  /\ kind \in {"vm_build", "materialized", "framed", "extracted"}
  /\ \E v \in Versions : entry[v] >= 0 /\ entry' = [entry EXCEPT ![v] = Damaged]
  /\ UNCHANGED <<kind, context, docker, holder, step, asked, work, given>>

Prepare(p) ==
  \/ Hash(p) \/ Acquire(p) \/ Reuse(p) \/ Miss(p) \/ StageVmContext(p) \/ BuildOci(p)
  \/ Layer(p) \/ BuildVm(p) \/ CompareInputs(p) \/ MakeDisk(p) \/ Validate(p) \/ Fetch(p)
  \/ Carried(p) \/ Publish(p)

CacheNext ==
  \/ \E p \in Preparers : Prepare(p) \/ Stop(p) \/ Again(p)
  \/ Edit \/ Prune \/ Damage

CacheSpec == CacheInit /\ [][CacheNext]_cacheVars

-----------------------------------------------------------------------------
(* What the states that can be reached have in common: the parts of the     *)
(* inductive invariant.                                                     *)

EntryContents == Versions \cup {None, Damaged}

CacheTypeOK ==
  /\ kind \in ImageKinds /\ context \in Versions
  /\ entry \in [Versions -> EntryContents] /\ docker \in SUBSET Versions
  /\ holder \in [Versions -> Preparers \cup {Unlocked}]
  /\ step \in [Preparers -> {"hash", "lock", "find", "stage", "make", "compare", "validate",
                             "publish", "done", "failed"}]
  /\ asked \in [Preparers -> Versions \cup {None}]
  /\ work \in [Preparers -> EntryContents] /\ given \in [Preparers -> EntryContents]

(* A preparer has hashed a version before it looks for it, an earlier one    *)
(* than the inputs have now, or the same.                                    *)
Asked == \A p \in Preparers : step[p] # "hash" => asked[p] \in Versions /\ asked[p] <= context

(* Whatever is under an entry's name was made for it, and a fetched one is   *)
(* whole.                                                                    *)
EntriesMatch ==
  kind # "container" =>
    \A v \in Versions : /\ entry[v] \in {None, Damaged, v}
                        /\ kind = "fetched" => entry[v] # Damaged

(* What a VM is built from lies between what was hashed and what is there    *)
(* now; the comparison closes the gap, and only then it may be published.    *)
WorkMatches ==
  kind # "container" =>
    \A p \in Preparers :
      /\ step[p] \in {"make", "compare"} /\ kind = "vm_build" =>
           work[p] \in Versions /\ asked[p] <= work[p] /\ work[p] <= context
      /\ step[p] \in {"stage", "compare"} => kind = "vm_build"
      /\ step[p] = "validate" => work[p] \in {asked[p], Damaged}
      /\ step[p] = "publish" => work[p] = asked[p]
      /\ step[p] = "done" => given[p] = asked[p]

CacheInvariant == CacheTypeOK /\ Asked /\ EntriesMatch /\ WorkMatches

-----------------------------------------------------------------------------
(* What a preparer is given, made or found, was made whole, and from the inputs
   the preparer identified: whichever process made it, however many died while
   making it, and whatever the author changed meanwhile.  An image Docker built
   is excepted: see the next property. *)
ImagesMatchTheirInputs ==
  kind # "container" => \A p \in Preparers : step[p] = "done" => given[p] = asked[p]

(* "The result is recorded under everything that goes into it: the build
   context, ..." (_prepare_local). *)
RecordedUnderItsInputs ==
  kind = "container" => \A v \in Versions : entry[v] \in {None, v}
=============================================================================
