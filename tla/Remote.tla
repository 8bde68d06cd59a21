-------------------------------- MODULE Remote -------------------------------
(***************************************************************************)
(* What the CLI asks of the service and of GitHub: a preparation by        *)
(* Resolution, the checks of what it delivers, direct access to GitHub,    *)
(* comparisons of commits, and listings.  A command does one of them, and  *)
(* they share no state; so each behaviour is one of them (part).           *)
(***************************************************************************)
EXTENDS Naturals, Sequences

CONSTANTS
  Commits, Asked, None,
  Timeout, RequestTimeout, StalledLimit, Jitter, Waits, MaxPolls, MaxRetries, MaxResolutionRetries,
  MaxRedirects, ArtifactDownloads, MaxLinkedFiles,                      \* a preparation
  Pin, Roots, Attestations, SignedArchives, LinkedFiles, Folded(_), MaxSignedFiles, MaxLinkedBytes,
  Trees, DirectRequests, Tarballs(_), GitTarballs(_), MaxTarballTree, MaxFiles, MaxTreeEntries, MaxPushes,
  Unread, Unavailable, OtherBytes,                                      \* direct access
  InputLists, Workers, ServiceBatch, PerPage, MaxCommits, MaxComparisons, Unknown,
  Repositories, Rows, InTree, References, PageSize, MaxPages, MaxEntries, MaxDirectSkills

VARIABLES
  part,
  wanted, signedIn, cancelled, pc, left, requests, polls, waiting, req, reply, artifact, granted, downloads,
  linked, result, created, final,
  root, attestation, archive, served, stage, verifiedFiles,
  head, pushes, todo, step, memo, plan, files, installed, reads,
  inputs, account, stopped, phase, tasks, next, at, drawn, holder, job, results, answer, spoiled,
  reference, point, slugs, entries, page, pages, rows, known, items, fetched, lost

deliveryVars == <<wanted, signedIn, cancelled, pc, left, requests, polls, waiting, req, reply, artifact, granted,
                  downloads, linked, result, created, final>>
verificationVars == <<root, attestation, archive, served, stage, verifiedFiles>>
directVars == <<head, pushes, todo, step, memo, plan, files, installed, reads>>
compareVars == <<inputs, account, stopped, phase, tasks, next, at, drawn, holder, job, results, answer, spoiled>>
listingVars == <<reference, point, slugs, entries, page, pages, rows, known, items, fetched, lost>>
vars == <<part, deliveryVars, verificationVars, directVars, compareVars, listingVars>>

Delivery == INSTANCE ArtifactDelivery

Verify == INSTANCE Verification WITH
            Archives <- SignedArchives, MaxFiles <- MaxSignedFiles, files <- verifiedFiles

Direct == INSTANCE DirectDownload WITH Requests <- DirectRequests, Archives <- Tarballs, pc <- step

Compare == INSTANCE UpdateComparisons WITH signedIn <- account, cancelled <- stopped, pc <- phase

Listing == INSTANCE Listings WITH pc <- point, memo <- known

ASSUME DeliveryAssumption == Delivery!DeliveryAssumption
ASSUME VerificationAssumption == Verify!VerificationAssumption
ASSUME DirectAssumption == Direct!DirectAssumption
ASSUME GitAssumption == \A c \in Commits : \A tar \in GitTarballs(c) : Direct!AsGitWrites(tar, Trees[c])
ASSUME CompareAssumption == Compare!CompareAssumption
ASSUME ListingAssumption == Listing!ListingAssumption

(* A component that does not run starts in one of its initial states.      *)
Some(set) == CHOOSE one \in set : TRUE
Idle(name, start) == part # name => start

Init ==
  /\ part \in {"delivery", "verification", "direct", "compare", "listing"}
  /\ Delivery!Init /\ Idle("delivery", wanted = None /\ signedIn)
  /\ Verify!Init /\ Idle("verification", /\ root = Some(Roots) /\ attestation = Some(Attestations)
                                         /\ archive = Some(SignedArchives) /\ served = Some(LinkedFiles))
  /\ Direct!Init /\ Idle("direct", head = Some(Commits) /\ todo = Some(DirectRequests))
  /\ Compare!Init /\ Idle("compare", inputs = Some(InputLists) /\ account)
  /\ Listing!Init /\ Idle("listing", reference = Some(References))

Next ==
  \/ /\ part = "delivery" /\ Delivery!Next
     /\ UNCHANGED <<part, verificationVars, directVars, compareVars, listingVars>>
  \/ /\ part = "verification" /\ Verify!Next
     /\ UNCHANGED <<part, deliveryVars, directVars, compareVars, listingVars>>
  \/ /\ part = "direct" /\ Direct!Next
     /\ UNCHANGED <<part, deliveryVars, verificationVars, compareVars, listingVars>>
  \/ /\ part = "compare" /\ Compare!Next
     /\ UNCHANGED <<part, deliveryVars, verificationVars, directVars, listingVars>>
  \/ /\ part = "listing" /\ Listing!Next
     /\ UNCHANGED <<part, deliveryVars, verificationVars, directVars, compareVars>>

Fairness ==
  /\ WF_deliveryVars(part = "delivery" /\ Delivery!Client)
  /\ WF_compareVars(part = "compare" /\ Compare!Start)
  /\ WF_compareVars(part = "compare" /\ Compare!Collect)
  /\ \A w \in Workers : WF_compareVars(part = "compare" /\ Compare!Work(w))

Spec == Init /\ [][Next]_vars /\ Fairness

-----------------------------------------------------------------------------
TypesOK == Delivery!TypeOK

(* Whatever the network answers, loses or mixes, a Skill that is ready is  *)
(* the one that was asked for, from the one Resolution made for it; and    *)
(* what several Skills need is asked for once: --direct reads a Repository *)
(* at one commit, though the branch moves, and a listing looks it up once. *)
DeliveredAsAsked ==
  /\ Delivery!PreparedAsAsked /\ Delivery!ResolutionsBounded
  /\ Direct!OneCommitForAll /\ Listing!LookedUpOnce

(* The files are those of the source: what a trusted key signed, each once *)
(* and no other; or what the Git tree holds, for which a tarball as Git    *)
(* writes it is enough.  Files of the tree that no tarball serves have the *)
(* bytes that GitHub answers.                                              *)
FilesAreTheSource ==
  /\ Verify!VerifiedIsSigned /\ Direct!FilesAreTheTree
  /\ (step = "tarball" /\ Direct!Usable) =>
       (Direct!Snapshot.tarball \in GitTarballs(Direct!Snapshot.commit) => Direct!Serves(Direct!Snapshot.tarball))

(* Each comparison gets its own answer in its own place, its true last     *)
(* commits in order, and fails only for what went wrong with it; a listing *)
(* names each Skill once and misses none that a selector can name and      *)
(* whose Repository was read.                                              *)
AnswersTheirOwn ==
  /\ Compare!AnswersMatch /\ Compare!FailuresStayLocal /\ Compare!LatestCommits
  /\ Listing!EachSkillOnce

(* The user is told never to retry only after an answer that stays the     *)
(* same, and a Resolution is asked for again only with time left.          *)
Patience == [][Delivery!NeverMeansFinal' /\ Delivery!RetriesInTime]_vars

(* A preparation ends whatever the service answers, and a comparison with  *)
(* as many answers as it has tasks, whatever its workers wait for.         *)
CommandsEnd ==
  /\ part = "delivery" ~> pc \in {"ready", "failed"}
  /\ part = "compare" ~> phase \in {"answered", "rejected"}
=============================================================================
