---------------------------- MODULE AssetPublish ----------------------------
(***************************************************************************)
(* How the checkpoints of Task assets reach Hugging Face: each Job has a   *)
(* worktree of its checkout's one clone, commits there, and publishes a    *)
(* commit to a draft pull request of its own, or to main.  Everything      *)
(* remote is shared with reviewers, maintainers and other Jobs, any        *)
(* command may fail or be killed after any step, and is then repeated.     *)
(* What a checkpoint takes from the Task is TaskAssets.                    *)
(***************************************************************************)
EXTENDS Integers, Sequences

CONSTANTS
  Jobs,       \* Tasks being worked on, each with a branch and worktree
  Manual,     \* those that push to main instead of a draft
  Checkouts,  \* clones of the Task repository
  MaxTip,     \* bound: commits of a Job
  MaxOthers   \* bound: what others do, and commands that fail or are killed

(* A commit of a Job is told from one of a reviewer.                         *)
ASSUME ReviewersAreNoJobs == "review" \notin Jobs

VARIABLES
  main,       \* the dataset's main: its commits
  drafts,     \* the pull requests there are, by number
  checkout,   \* where each Job works
  clone,      \* of each checkout: "none", "broken", or the main it has seen
  tree,       \* of each Job: its worktree, and the line of commits below its own
  tip,        \* how many commits of its own it has
  publication,     \* the publication record in each Job's output file
  publishing,    \* what each Job's current command is doing
  others      \* how often others, or faults, have intervened

publishVars == <<main, drafts, checkout, clone, tree, tip, publication, publishing, others>>
hubVars     == <<main, drafts>>
localVars   == <<checkout, clone, tree, tip>>

Idle       == [at |-> "idle", of |-> 0, pr |-> 0, text |-> {}]
NoTree     == [made |-> FALSE, meta |-> FALSE, line |-> <<>>]
NoDraft    == [of |-> 0, pr |-> 0, expected |-> <<>>, status |-> "none"]
Late       == <<"review", "late">>
Early      == <<"review", "early">>
NotCloned  == <<"none">>
Broken     == <<"broken">>

PublishInit ==
  /\ main = <<>> /\ drafts = <<>>
  /\ checkout \in [Jobs -> Checkouts]
  /\ clone = [k \in Checkouts |-> NotCloned]
  /\ tree = [j \in Jobs |-> NoTree] /\ tip = [j \in Jobs |-> 0]
  /\ publication = [j \in Jobs |-> NoDraft]
  /\ publishing = [j \in Jobs |-> Idle] /\ others = 0

Intervene == others < MaxOthers /\ others' = others + 1
To(j, at) == publishing' = [publishing EXCEPT ![j].at = at]
End(j)    == publishing' = [publishing EXCEPT ![j] = Idle]

(* The commits of a Job up to its k-th, on top of the main it started from.  *)
Line(j, k) == tree[j].line \o [i \in 1 .. k |-> <<j, i>>]

-----------------------------------------------------------------------------
(* `ale assets checkpoint`: the worktree, under the clone's lock.            *)
Locked(j) == publishing[j].at \in {"initialize", "clone", "worktree", "metadata"}

StartCheckpoint(j) ==
  /\ publishing[j].at = "idle"
  /\ \A other \in Jobs : checkout[other] = checkout[j] => ~Locked(other)
  /\ To(j, "initialize")
  /\ UNCHANGED <<hubVars, localVars, publication, others>>

(* A worktree is used again, if it has its metadata.                         *)
Initialize(j) ==
  /\ publishing[j].at = "initialize"
  /\ IF tree[j].made
       THEN IF tree[j].meta THEN To(j, "commit") ELSE End(j)
       ELSE To(j, "clone")
  /\ UNCHANGED <<hubVars, localVars, publication, others>>

CloneOrFetch(j) ==
  /\ publishing[j].at = "clone"
  /\ IF clone[checkout[j]] = Broken
       THEN End(j) /\ UNCHANGED clone
       ELSE To(j, "worktree") /\ clone' = [clone EXCEPT ![checkout[j]] = <<"seen", main>>]
  /\ UNCHANGED <<hubVars, checkout, tree, tip, publication, others>>

(* Killed while it is cloned, half a repository stays.                       *)
BreakClone(j) ==
  /\ publishing[j].at = "clone" /\ clone[checkout[j]] = NotCloned /\ Intervene
  /\ clone' = [clone EXCEPT ![checkout[j]] = Broken] /\ End(j)
  /\ UNCHANGED <<hubVars, checkout, tree, tip, publication>>

AddWorktree(j) ==
  /\ publishing[j].at = "worktree" /\ To(j, "metadata")
  /\ tree' = [tree EXCEPT ![j] = [NoTree EXCEPT !.made = TRUE, !.line = clone[checkout[j]][2]]]
  /\ UNCHANGED <<hubVars, checkout, clone, tip, publication, others>>

WriteMetadata(j) ==
  /\ publishing[j].at = "metadata" /\ To(j, "commit")
  /\ tree' = [tree EXCEPT ![j].meta = TRUE]
  /\ UNCHANGED <<hubVars, checkout, clone, tip, publication, others>>

(* The Task's assets as they are, which may be those of the last commit.     *)
CommitAssets(j) ==
  /\ publishing[j].at = "commit" /\ End(j)
  /\ \E more \in {0, 1} : tip[j] + more <= MaxTip /\ tip' = [tip EXCEPT ![j] = @ + more]
  /\ UNCHANGED <<hubVars, checkout, clone, tree, publication, others>>

-----------------------------------------------------------------------------
(* `ale assets publish`, or the second half of `push`, of a checkpoint that  *)
(* was accepted once.  One that is what main held is nothing to publish.     *)
Marker(j)   == <<j, publishing[j].of>>
Reference(j) == IF j \in Manual THEN main ELSE drafts[publishing[j].pr].head
Target(j)   == Line(j, publishing[j].of)

NothingToPublish(j) ==
  /\ publishing[j].at = "idle" /\ tree[j].meta
  /\ publication' = [publication EXCEPT ![j] = [NoDraft EXCEPT !.status = "unchanged"]]
  /\ UNCHANGED <<hubVars, localVars, publishing, others>>

Begins(j, at) ==
  /\ publishing[j].at = "idle"
  /\ \E k \in 1 .. tip[j] :
       /\ j \notin Manual /\ publication[j].status # "none" => publication[j].of = k
       /\ publishing' = [publishing EXCEPT ![j] = [@ EXCEPT !.at = at, !.of = k, !.pr = publication[j].pr]]
  /\ UNCHANGED <<hubVars, localVars, publication, others>>

(* A record that names the draft resumes it, under the lease it has.         *)
ResumeAnew(j) == j \notin Manual /\ publication[j].pr # 0 /\ Begins(j, "save")
ResumeDraft(j)     == j \notin Manual /\ publication[j].pr # 0 /\ Begins(j, "compare")
PublishDraft(j) == j \notin Manual /\ publication[j].pr = 0 /\ Begins(j, "search")
PublishMain(j)  == j \in Manual /\ Begins(j, "compare")

(* A draft of a command that ended before it was recorded is found by its    *)
(* marker, as long as it is one.                                             *)
Search(j) ==
  /\ publishing[j].at = "search"
  /\ LET mine == {d \in DOMAIN drafts : drafts[d].draft /\ drafts[d].marker = Marker(j)}
     IN IF mine = {} THEN To(j, "create")
        ELSE \E d \in mine : publishing' = [publishing EXCEPT ![j].at = "save", ![j].pr = d]
  /\ UNCHANGED <<hubVars, localVars, publication, others>>

(* It starts at main.                                                        *)
CreateDraft(j) ==
  /\ publishing[j].at = "create"
  /\ drafts' = Append(drafts, [marker |-> Marker(j), draft |-> TRUE, head |-> main,
                               text |-> {}, saved |-> FALSE])
  /\ publishing' = [publishing EXCEPT ![j].at = "save", ![j].pr = Len(drafts')]
  /\ UNCHANGED <<main, localVars, publication, others>>

(* The lease is the head it is seen to have.                                 *)
SaveDraft(j) ==
  /\ publishing[j].at = "save" /\ To(j, "compare")
  /\ publication' = [publication EXCEPT ![j] = [of |-> publishing[j].of, pr |-> publishing[j].pr,
                                      expected |-> Reference(j), status |-> "pending"]]
  /\ drafts' = [drafts EXCEPT ![publishing[j].pr].saved = TRUE]
  /\ UNCHANGED <<main, localVars, others>>

CompareHeads(j) ==
  /\ publishing[j].at = "compare"
  /\ To(j, IF Reference(j) = Target(j) THEN "verify" ELSE "push")
  /\ UNCHANGED <<hubVars, localVars, publication, others>>

(* main is only moved forward.                                               *)
Extends(line, below) == Len(below) < Len(line) /\ SubSeq(line, 1, Len(below)) = below

PushMain(j) ==
  /\ publishing[j].at = "push" /\ j \in Manual
  /\ IF Extends(Target(j), main) THEN main' = Target(j) /\ To(j, "verify")
                                 ELSE UNCHANGED main /\ End(j)
  /\ UNCHANGED <<drafts, localVars, publication, others>>

PushDraft(j) ==
  /\ publishing[j].at = "push" /\ j \notin Manual
  /\ IF Reference(j) = publication[j].expected
       THEN drafts' = [drafts EXCEPT ![publishing[j].pr].head = Target(j)] /\ To(j, "verify")
       ELSE UNCHANGED drafts /\ End(j)
  /\ UNCHANGED <<main, localVars, publication, others>>

VerifyPublished(j) ==
  /\ publishing[j].at = "verify" /\ End(j)
  /\ publication' = IF Reference(j) # Target(j) THEN publication
               ELSE [publication EXCEPT ![j].of = publishing[j].of, ![j].status = "published"]
  /\ UNCHANGED <<hubVars, localVars, others>>

(* `comment-pr`: the body is read, and written with the link if it lacks it. *)
ReadBody(j) ==
  /\ publishing[j].at = "idle" /\ publication[j].pr # 0
  /\ publishing' = [publishing EXCEPT ![j] = [@ EXCEPT !.at = "edit", !.pr = publication[j].pr,
                                         !.text = drafts[publication[j].pr].text]]
  /\ UNCHANGED <<hubVars, localVars, publication, others>>

EditBody(j) ==
  /\ publishing[j].at = "edit" /\ End(j)
  /\ drafts' = IF "link" \in publishing[j].text THEN drafts
               ELSE [drafts EXCEPT ![publishing[j].pr].text = publishing[j].text \cup {"link"}]
  /\ UNCHANGED <<main, localVars, publication, others>>

(* An error of Git or Hugging Face, no answer, or a kill, at any step.       *)
CommandFails(j) ==
  /\ publishing[j].at # "idle" /\ Intervene /\ End(j)
  /\ UNCHANGED <<hubVars, localVars, publication>>

-----------------------------------------------------------------------------
(* Reviewers commit to a draft, mark it ready or edit its body; maintainers  *)
(* merge into main.                                                          *)
Reviews ==
  /\ Intervene /\ UNCHANGED <<main, localVars, publication, publishing>>
  /\ \E d \in DOMAIN drafts :
       \/ drafts' = [drafts EXCEPT ![d].head = Append(@, IF drafts[d].saved THEN Late ELSE Early)]
       \/ drafts[d].draft /\ drafts' = [drafts EXCEPT ![d].draft = FALSE]
       \/ drafts' = [drafts EXCEPT ![d].text = @ \cup {"note"}]

Merges ==
  /\ Intervene /\ main' = Append(main, <<"merge", Len(main)>>)
  /\ UNCHANGED <<drafts, localVars, publication, publishing>>

PublishNext ==
  \/ \E j \in Jobs :
       \/ StartCheckpoint(j) \/ Initialize(j) \/ CloneOrFetch(j) \/ BreakClone(j)
       \/ AddWorktree(j) \/ WriteMetadata(j) \/ CommitAssets(j)
       \/ NothingToPublish(j) \/ PublishDraft(j) \/ ResumeDraft(j) \/ PublishMain(j)
       \/ Search(j) \/ CreateDraft(j) \/ SaveDraft(j) \/ CompareHeads(j)
       \/ PushMain(j) \/ PushDraft(j) \/ VerifyPublished(j)
       \/ ReadBody(j) \/ EditBody(j) \/ CommandFails(j)
  \/ Reviews \/ Merges

PublishSpec == PublishInit /\ [][PublishNext]_publishVars

-----------------------------------------------------------------------------
(* However often a publication fails and is repeated, a checkpoint gets no   *)
(* second draft while it has one, a draft keeps what was committed to it     *)
(* after it was recorded ("a concurrent update is not overwritten"), and     *)
(* main keeps everything.                                                    *)
PublicationResumes ==
  [][/\ \A d \in DOMAIN drafts' \ DOMAIN drafts : \A e \in DOMAIN drafts :
          drafts[e].draft => drafts[e].marker # drafts'[d].marker
     /\ \A d \in DOMAIN drafts :
          (\E i \in DOMAIN drafts[d].head : drafts[d].head[i] = Late)
          => \E i \in DOMAIN drafts'[d].head : drafts'[d].head[i] = Late
     /\ main' # main => Extends(main', main)]_publishVars
=============================================================================
