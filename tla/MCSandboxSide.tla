--------------------------- MODULE MCSandboxSide ---------------------------
(***************************************************************************)
(* What the providers, the image caches, the evidence of an episode and    *)
(* the solvers left behind keep between awaits, crashes and commands, what *)
(* a verifier asks of its Judges, what is made of an agent's transcripts   *)
(* and its subagents, how Task assets are published, what files guestd     *)
(* writes for the Host, and how macOS images are framed.  Each behaviour   *)
(* is about one part; the others keep their first value.                   *)
(***************************************************************************)
EXTENDS LogMirror, EvidenceStore, DeviceLease, OrchardVM, ImageCache, QemuVM,
        Continuation, Judges, Transcripts, Delegations, AssetPublish, GuestFiles,
        FramedImages

VARIABLE part

OneAndTwo == <<1, 2>>
First(S)  == CHOOSE x \in S : TRUE

sideVars == <<part, mirrorVars, evidenceVars, deviceVars, orchardVars, cacheVars,
              qemuVars, continuationVars, judgeVars, transcriptVars, delegationVars, publishVars,
              fileVars, framingVars>>

SideInit ==
  /\ part \in {"mirror", "evidence", "devices", "orchard", "images", "qemu", "continuation",
              "judges", "transcripts", "delegations", "publish", "files", "frames"}
  /\ MirrorInit      /\ (part # "mirror"      => copy = [f \in Logs |-> <<>>])
  /\ OrchardInit     /\ (part # "orchard"     => record = NoRecord)
  /\ CacheInit       /\ (part # "images"      => kind = "container")
  /\ JudgesInit      /\ (part # "judges"      => budget = NoBudget)
  /\ TranscriptsInit /\ (part # "transcripts" => adapter = "pi_cli")
  /\ DelegationsInit /\ (part # "delegations" => cli = "codex_cli")
  /\ PublishInit     /\ (part # "publish" => checkout = [j \in Jobs |-> First(Checkouts)])
  /\ FramingInit     /\ (part # "frames"  =>
                          /\ \A c \in Creators : create[c].size = First(Sizes)
                          /\ framed = NoImage /\ frameRecord = "none"
                          /\ \A s \in Sizes : sized[s] = NoImage)
  /\ EvidenceInit /\ DeviceInit /\ QemuInit /\ ContinuationInit /\ FilesInit

Others(p) ==
  /\ part = p /\ part' = p
  /\ p # "mirror"       => UNCHANGED mirrorVars
  /\ p # "evidence"     => UNCHANGED evidenceVars
  /\ p # "devices"      => UNCHANGED deviceVars
  /\ p # "orchard"      => UNCHANGED orchardVars
  /\ p # "images"       => UNCHANGED cacheVars
  /\ p # "qemu"         => UNCHANGED qemuVars
  /\ p # "continuation" => UNCHANGED continuationVars
  /\ p # "judges"       => UNCHANGED judgeVars
  /\ p # "transcripts"  => UNCHANGED transcriptVars
  /\ p # "delegations"  => UNCHANGED delegationVars
  /\ p # "publish"      => UNCHANGED publishVars
  /\ p # "files"        => UNCHANGED fileVars
  /\ p # "frames"       => UNCHANGED framingVars

SideNext ==
  \/ Others("mirror") /\ MirrorNext
  \/ Others("evidence") /\ EvidenceNext
  \/ Others("devices") /\ DeviceNext
  \/ Others("orchard") /\ OrchardNext
  \/ Others("images") /\ CacheNext
  \/ Others("qemu") /\ QemuNext
  \/ Others("continuation") /\ ContinuationNext
  \/ Others("judges") /\ JudgesNext
  \/ Others("transcripts") /\ TranscriptsNext
  \/ Others("delegations") /\ DelegationsNext
  \/ Others("publish") /\ PublishNext
  \/ Others("files") /\ FilesNext
  \/ Others("frames") /\ FramingNext

SideSpec == SideInit /\ [][SideNext]_sideVars
=============================================================================
