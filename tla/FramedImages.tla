---------------------------- MODULE FramedImages ----------------------------
(***************************************************************************)
(* The framed macOS images of a Host (providers/orchard_framing.py with    *)
(* LocalOrchard of orchard_client.py): one image and account, framed once, *)
(* signed in once, kept under one name, and cloned for every desktop       *)
(* resolution.  Creates of several processes share them; a create fails or *)
(* dies at any await, its `tart` may go on without it, guests lose power,  *)
(* and an operator removes images and records.                             *)
(*                                                                         *)
(* OrchardVM has the VM that signs in.  An image is known by the framing   *)
(* that made it and by what was done to its disk.                          *)
(***************************************************************************)
EXTENDS Integers, FiniteSets

CONSTANTS
  Creators,  \* creates of one image and account
  Sizes,     \* desktop resolutions
  MaxFramed, \* bound: framings that are begun, the earlier run's included
  MaxStrays  \* bound: `tart`s that go on at a time without their create

NoOne  == "no_one"
TheOne == "framed"  \* the name of the framed image; the others end in a size

ASSUME FramingAssumption ==
  /\ MaxFramed \in Nat
  /\ TheOne \notin Sizes
  /\ NoOne \notin Creators

VARIABLES
  create,      \* per create: where it is, its resolution, the clone it works
               \* on, the power of that clone's guest, and what it has to delete
  framed,      \* the image kept as framed
  sized,       \* per resolution: the clone that is booted at it
  frameRecord, \* the record's file: "none", "whole", "torn"
  frameLock,   \* who holds the lock of the framing
  sizeLock,    \* per resolution: who holds the lock of its clone
  begun,       \* framings begun
  strays,      \* `tart`s that go on without their create: the image that one
               \* puts under a name, or NoImage if it deletes that
  raced        \* something was removed or replaced under a create that had
               \* been given the framed image and was cloning it

framingVars == <<create, framed, sized, frameRecord, frameLock, sizeLock, begun, strays, raced>>

NoImage == [framing |-> 0, did |-> {}]
Clone(n) == [framing |-> n, did |-> {}]

(* What an earlier run framed, as far as an operator left it. *)
Earlier == [framing |-> 1, did |-> {"framed", "dismissed", "forgotten", "shut_down"}]

FramingInit ==
  /\ create \in [Creators -> [at: {"ask"}, size: Sizes, work: {NoImage}, guest: {"off"},
                              stale: {{}}]]
  /\ framed \in {NoImage, Earlier} /\ sized \in [Sizes -> {NoImage, Earlier}]
  /\ frameRecord \in {"none", "whole"}
  /\ frameLock = NoOne /\ sizeLock = [s \in Sizes |-> NoOne]
  /\ begun = 1 /\ strays = {} /\ raced = FALSE

Goes(c, p)    == create' = [create EXCEPT ![c].at = p]
Ends(c, p)    == create' = [create EXCEPT ![c] = [@ EXCEPT !.at = p, !.work = NoImage,
                                                          !.guest = "off", !.stale = {}]]
Does(c, p, d) == create' = [create EXCEPT ![c].at = p, ![c].work.did = @ \cup {d}]
SizeOf(c)     == create[c].size
NothingKept   == UNCHANGED <<framed, sized, frameRecord, strays, raced>>
NoLockTaken   == UNCHANGED <<frameLock, sizeLock>>

-----------------------------------------------------------------------------
(* frame_image, up to the framing.                                          *)

LockFrame(c) ==
  /\ create[c].at = "ask" /\ frameLock = NoOne /\ frameLock' = c /\ Goes(c, "look")
  /\ UNCHANGED <<sizeLock, begun>> /\ NothingKept

(* Mutant: what was cloned from the earlier framing stays. *)
KeepStale == {}

Stale == {s \in Sizes : sized[s] # NoImage}

(* A torn record cannot be read, and the create fails. *)
LookForFrame(c) ==
  /\ create[c].at = "look" /\ frameRecord # "torn"
  /\ IF frameRecord = "whole" /\ framed # NoImage
       THEN Goes(c, "given") /\ frameLock' = NoOne
       ELSE /\ create' = [create EXCEPT ![c].at = "clear", ![c].stale = Stale]
            /\ UNCHANGED frameLock
  /\ UNCHANGED <<sizeLock, begun>> /\ NothingKept

ClearStale(c) ==
  /\ create[c].at = "clear"
  /\ \E s \in create[c].stale :
       /\ sized[s] # NoImage /\ sized' = [sized EXCEPT ![s] = NoImage]
       /\ create' = [create EXCEPT ![c].stale = @ \ {s}]
  /\ UNCHANGED <<framed, frameRecord, strays, raced, begun>> /\ NoLockTaken

-----------------------------------------------------------------------------
(* _frame and _first_login                                                  *)

CloneSource(c) ==
  /\ create[c].at = "clear" /\ create[c].stale = {} /\ begun < MaxFramed
  /\ begun' = begun + 1
  /\ create' = [create EXCEPT ![c].at = "install", ![c].work = Clone(begun')]
  /\ NothingKept /\ NoLockTaken

FrameDisk(c) ==
  /\ create[c].at = "install" /\ Does(c, "boot", "framed")
  /\ UNCHANGED begun /\ NothingKept /\ NoLockTaken

BootOnce(c) ==
  /\ create[c].at = "boot"
  /\ create' = [create EXCEPT ![c].at = "console", ![c].guest = "starting"]
  /\ UNCHANGED begun /\ NothingKept /\ NoLockTaken

(* The guest by itself: the account is signed in, its background items are  *)
(* registered and announced, and it may lose power before it was shut down. *)
GuestGoesOn(c) ==
  /\ create[c].guest \in {"starting", "signed_in"}
  /\ create' = [create EXCEPT ![c].guest = IF @ = "starting" THEN "signed_in" ELSE "announced"]
  /\ UNCHANGED begun /\ NothingKept /\ NoLockTaken

PowerLoss(c) ==
  /\ create[c].guest # "off"
  /\ create' = [create EXCEPT ![c].guest = "off", ![c].work.did = @ \cup {"cut_off"}]
  /\ UNCHANGED begun /\ NothingKept /\ NoLockTaken

(* _settled: the console is the account's, nothing is pending, and then the *)
(* notices are dismissed and the display forgotten.                         *)
SeeConsole(c) ==
  /\ create[c].at = "console" /\ create[c].guest \in {"signed_in", "announced"}
  /\ Goes(c, "notices") /\ UNCHANGED begun /\ NothingKept /\ NoLockTaken

PendingNotices(c) == create[c].guest # "announced"

DismissNotices(c) ==
  /\ create[c].at = "notices" /\ ~PendingNotices(c)
  /\ Does(c, "displays", "dismissed") /\ UNCHANGED begun /\ NothingKept /\ NoLockTaken

ForgetDisplays(c) ==
  /\ create[c].at = "displays" /\ create[c].guest # "off"
  /\ Does(c, "shut_down", "forgotten") /\ UNCHANGED begun /\ NothingKept /\ NoLockTaken

(* Told to shut down, the guest does; and one that cannot be reached is     *)
(* taken to have gone down with the command's session.                      *)
ShutDown(c) ==
  /\ create[c].at = "shut_down"
  /\ create' = [create EXCEPT ![c].at = "await_down"]
  /\ UNCHANGED begun /\ NothingKept /\ NoLockTaken

GuestGoesDown(c) ==
  /\ create[c].at = "await_down" /\ create[c].guest # "off"
  /\ create' = [create EXCEPT ![c].guest = "off", ![c].work.did = @ \cup {"shut_down"}]
  /\ UNCHANGED begun /\ NothingKept /\ NoLockTaken

Stopped(c) ==
  /\ create[c].at = "await_down" /\ create[c].guest = "off"
  /\ Goes(c, "save") /\ UNCHANGED begun /\ NothingKept /\ NoLockTaken

(* tart clone --overwrite, after which the VM and the clone are deleted. *)
Save(c) ==
  /\ create[c].at = "save" /\ framed' = create[c].work /\ Goes(c, "record")
  /\ UNCHANGED <<sized, frameRecord, strays, raced, begun>> /\ NoLockTaken

RecordFrame(c) ==
  /\ create[c].at = "record" /\ frameRecord' = "whole" /\ frameLock' = NoOne /\ Ends(c, "given")
  /\ UNCHANGED <<framed, sized, strays, raced, sizeLock, begun>>

-----------------------------------------------------------------------------
(* at_resolution                                                            *)

LockSize(c) ==
  /\ create[c].at = "given" /\ sizeLock[SizeOf(c)] = NoOne
  /\ sizeLock' = [sizeLock EXCEPT ![SizeOf(c)] = c] /\ Goes(c, "look_for_size")
  /\ UNCHANGED <<frameLock, begun>> /\ NothingKept

UnlockSize(c) == sizeLock' = [s \in Sizes |-> IF sizeLock[s] = c THEN NoOne ELSE sizeLock[s]]

LookForSize(c) ==
  /\ create[c].at = "look_for_size"
  /\ IF sized[SizeOf(c)] # NoImage THEN Ends(c, "booting") /\ UnlockSize(c)
                                   ELSE Goes(c, "clone_size") /\ UNCHANGED sizeLock
  /\ UNCHANGED <<frameLock, begun>> /\ NothingKept

CloneFramed(c) ==
  /\ create[c].at = "clone_size" /\ framed # NoImage
  /\ create' = [create EXCEPT ![c].at = "rename", ![c].work = framed]
  /\ UNCHANGED begun /\ NothingKept /\ NoLockTaken

(* Its display is set, under the name it works under, before it is renamed. *)
RenameSized(c) ==
  /\ create[c].at = "rename" /\ sized[SizeOf(c)] = NoImage
  /\ sized' = [sized EXCEPT ![SizeOf(c)] = create[c].work]
  /\ Ends(c, "booting") /\ UnlockSize(c)
  /\ UNCHANGED <<framed, frameRecord, strays, raced, frameLock, begun>>

-----------------------------------------------------------------------------
(* A create fails at any await, is cancelled or is killed: its locks are    *)
(* free, what it worked on is deleted or left under a name nobody uses, its *)
(* `tart` may go on, and what it was writing of the record is there.        *)
Underway(c) ==
  CASE create[c].at = "save"   -> {[name |-> TheOne, image |-> create[c].work]}
    [] create[c].at = "rename" -> {[name |-> SizeOf(c), image |-> create[c].work]}
    [] create[c].at = "clear"  -> [name: create[c].stale, image: {NoImage}]
    [] OTHER                   -> {}

CreateFails(c) ==
  /\ create[c].at \notin {"ask", "booting", "failed"} /\ Ends(c, "failed")
  /\ frameLock' = (IF frameLock = c THEN NoOne ELSE frameLock) /\ UnlockSize(c)
  /\ frameRecord' \in {frameRecord} \cup (IF create[c].at = "record" THEN {"torn"} ELSE {})
  /\ \/ UNCHANGED strays
     \/ /\ Cardinality(strays) < MaxStrays
        /\ \E tart \in Underway(c) : strays' = strays \cup {tart}
  /\ UNCHANGED <<framed, sized, raced, begun>>

AnotherCreate(c) ==
  /\ create[c].at \in {"failed", "booting"} /\ \E s \in Sizes :
       create' = [create EXCEPT ![c].at = "ask", ![c].size = s]
  /\ UNCHANGED begun /\ NothingKept /\ NoLockTaken

(* A clone overwrites what has its name; a rename fails where there is one. *)
StrayLands ==
  /\ \E tart \in strays :
       /\ strays' = strays \ {tart}
       /\ IF tart.name = TheOne
            THEN framed' = tart.image /\ UNCHANGED sized
            ELSE /\ sized' = IF NoImage \in {tart.image, sized[tart.name]}
                               THEN [sized EXCEPT ![tart.name] = tart.image] ELSE sized
                 /\ UNCHANGED framed
  /\ raced' = TRUE
  /\ UNCHANGED <<create, frameRecord, begun>> /\ NoLockTaken

Cloning == \E c \in Creators :
             create[c].at \in {"given", "look_for_size", "clone_size", "rename"}

(* The operator deletes the image, a clone, or the record. *)
OperatorRemoves ==
  /\ \/ framed # NoImage /\ framed' = NoImage /\ UNCHANGED <<sized, frameRecord>>
     \/ frameRecord # "none" /\ frameRecord' = "none" /\ UNCHANGED <<framed, sized>>
     \/ \E s \in Sizes : sized[s] # NoImage /\ sized' = [sized EXCEPT ![s] = NoImage]
          /\ UNCHANGED <<framed, frameRecord>>
  /\ raced' = (raced \/ Cloning)
  /\ UNCHANGED <<create, strays, begun>> /\ NoLockTaken

FramingNext ==
  \/ \E c \in Creators :
       \/ LockFrame(c) \/ LookForFrame(c) \/ ClearStale(c) \/ CloneSource(c) \/ FrameDisk(c)
       \/ BootOnce(c) \/ GuestGoesOn(c) \/ PowerLoss(c) \/ SeeConsole(c) \/ DismissNotices(c)
       \/ ForgetDisplays(c) \/ ShutDown(c) \/ GuestGoesDown(c) \/ Stopped(c) \/ Save(c)
       \/ RecordFrame(c) \/ LockSize(c) \/ LookForSize(c) \/ CloneFramed(c) \/ RenameSized(c)
       \/ CreateFails(c) \/ AnotherCreate(c)
  \/ StrayLands \/ OperatorRemoves

FramingSpec == FramingInit /\ [][FramingNext]_framingVars

-----------------------------------------------------------------------------
(* What the states that can be reached have in common: the parts of the     *)
(* inductive invariant.                                                     *)

Deeds  == {"framed", "dismissed", "forgotten", "shut_down", "cut_off"}
Images == [framing: Nat, did: SUBSET Deeds]
Tarts  == [name: Sizes \cup {TheOne}, image: Images]

UpTo    == {"install", "boot"}
Signing == {"console", "notices", "displays", "shut_down", "await_down"}
Framing == {"look", "clear", "save", "record"} \cup UpTo \cup Signing
Given   == {"given", "look_for_size", "clone_size", "rename"}

FramingTypeOK ==
  /\ create \in [Creators -> [at: {"ask", "booting", "failed"} \cup Framing \cup Given,
                              size: Sizes, work: Images,
                              guest: {"off", "starting", "signed_in", "announced"},
                              stale: SUBSET Sizes]]
  /\ framed \in Images /\ sized \in [Sizes -> Images]
  /\ frameRecord \in {"none", "whole", "torn"}
  /\ frameLock \in Creators \cup {NoOne} /\ sizeLock \in [Sizes -> Creators \cup {NoOne}]
  /\ begun \in Nat /\ strays \in SUBSET Tarts /\ raced \in BOOLEAN

FrameLockHeld == \A c \in Creators : create[c].at \in Framing => frameLock = c

Settled(i) == /\ {"framed", "dismissed", "forgotten"} \subseteq i.did
              /\ i.did \cap {"shut_down", "cut_off"} # {}

(* Where a create is tells what was done to the clone it works on.           *)
WorkInOrder ==
  \A c \in Creators : LET at == create[c].at  did == create[c].work.did IN
    /\ at \in {"boot"} \cup Signing => "framed" \in did
    /\ at \in {"displays", "shut_down", "await_down"} => "dismissed" \in did
    /\ at \in {"shut_down", "await_down"} => "forgotten" \in did
    /\ at \in Signing /\ create[c].guest = "off" => did \cap {"shut_down", "cut_off"} # {}
    /\ create[c].guest # "off" => at \in Signing
    /\ at \in {"save", "record"} => Settled(create[c].work)

KeptAreSettled ==
  /\ framed # NoImage => Settled(framed)
  /\ \A tart \in strays : tart.name = TheOne => Settled(tart.image)

(* Nobody frames while another create clones what is framed: a create that   *)
(* was given an image goes on without one only if it is removed.             *)
FramedForGood ==
  ~raced =>
    /\ \A d \in Creators : create[d].at \in Given => frameRecord # "none"
    /\ \A d \in Creators : create[d].at = "rename" => create[d].work = framed /\ framed # NoImage
    /\ \A c \in Creators : create[c].at \in {"clear", "save"} \cup UpTo \cup Signing =>
         /\ (\E d \in Creators : create[d].at \in Given) => framed = NoImage
         /\ \A s \in Sizes : sized[s] # NoImage => create[c].at = "clear" /\ s \in create[c].stale
    /\ \A s \in Sizes : sized[s] # NoImage /\ framed # NoImage => sized[s] = framed

FramingInvariant ==
  FramingTypeOK /\ FrameLockHeld /\ WorkInOrder /\ KeptAreSettled /\ FramedForGood

-----------------------------------------------------------------------------
(* What is kept as framed has been signed in, cleared of its notices and shut  *)
(* down, unless its guest lost power after that was asked of it; and what      *)
(* boots at a resolution is a clone of that image and of no earlier framing:   *)
(* whichever create made it, however many failed half way, and whatever the    *)
(* operator removed, as long as nobody was cloning it then and no `tart` went  *)
(* on to change one of them after its create had failed.                       *)
FramesAreSettled ==
  /\ framed # NoImage =>
       /\ {"framed", "dismissed", "forgotten"} \subseteq framed.did
       /\ framed.did \cap {"shut_down", "cut_off"} # {}
  /\ ~raced => \A s \in Sizes : sized[s] # NoImage /\ framed # NoImage => sized[s] = framed
=============================================================================
