--------------------------- MODULE ArtifactDelivery ---------------------------
(***************************************************************************)
(* One remote preparation of a Skill (command/src/remote.rs, prepare): a   *)
(* Resolution is requested and polled under one deadline, requested again  *)
(* when its failure can pass, then its attestation is verified and its     *)
(* Artifact granted, downloaded, checked, and completed by linked files.   *)
(*                                                                         *)
(* The service and the network are external and answer anything.  Time is  *)
(* in ticks; left is what remains of the ResolutionDeadline, whose two     *)
(* clocks (sleeps, and the wall) agree on the smaller one.                 *)
(***************************************************************************)
EXTENDS Naturals, FiniteSets

CONSTANTS
  Commits,
  Asked,           \* bound: commits that callers name, None where they leave it open
  Timeout,         \* RESOLUTION_TIMEOUT_MS
  RequestTimeout,  \* REQUEST_TIMEOUT
  StalledLimit,    \* STALLED_STAGE_LIMIT
  Jitter,          \* the most that jitter adds to a wait
  Waits,           \* poll intervals and waits that the service names
  MaxPolls, MaxRetries, MaxResolutionRetries, MaxRedirects,
  ArtifactDownloads,
  MaxLinkedFiles,  \* bound: linked files of a Skill
  None

DeliveryAssumption ==
  /\ {Timeout, RequestTimeout, StalledLimit, Jitter} \subseteq Nat /\ Waits \subseteq Nat
  /\ {MaxPolls, MaxRetries, MaxResolutionRetries, MaxRedirects, ArtifactDownloads,
      MaxLinkedFiles} \subseteq Nat
  /\ ArtifactDownloads > 0
  /\ None \notin Commits \cup Nat /\ Asked \subseteq Commits \cup {None}

Kinds == {"post", "poll", "root", "grant", "artifact", "linked"}
Hosts == {"service", "cdn", "raw", "other"}
Stages == {"checking", "signing", "unknown"}

(* AllowedOrigin of each request, and the host it is first sent to. *)
AllowedHosts(kind) ==
  CASE kind = "artifact" -> {"service", "cdn"}
    [] kind = "linked"   -> {"raw"}
    [] OTHER             -> {"service"}
FirstHosts(kind) ==
  IF kind = "artifact" THEN Hosts ELSE AllowedHosts(kind)   \* content_url comes from the grant
InDeadline(kind) == kind \in {"post", "poll"}
IsGet(kind) == kind \notin {"post", "grant"}
RetryLimit(kind) == IF kind = "artifact" THEN 1 ELSE MaxRetries

VARIABLES
  wanted,      \* the commit the caller names, or None
  signedIn,    \* a token can be read
  cancelled,
  pc, left,
  requests,    \* Resolutions requested; the idempotency key of the last one
  polls, waiting,   \* polls of this Resolution; its stage and how long it waits there
  req,         \* the HTTP request under way
  reply,       \* what came back for it
  artifact,    \* the Artifact of the Resolution: its number, commit and visibility
  granted,     \* history: the Resolution whose grant is used
  downloads, linked,   \* downloads made; linked files still to read
  result,
  created,     \* history: Resolutions the service made
  final        \* history: an answer came that no repetition changes

http == <<req, reply>>
resolution == <<polls, waiting>>
transfer == <<granted, downloads>>
vars == <<wanted, signedIn, cancelled, pc, left, requests, resolution, http, artifact, transfer, linked,
          result, created, final>>

NoRequest == [kind |-> "root", host |-> "service", retry |-> 0, redirects |-> 0]
NoReply == [status |-> "none", host |-> "service"]
NoArtifact == [of |-> 0, commit |-> None, private |-> FALSE]
NotWaiting == [stage |-> "unknown", waited |-> 0]

Init ==
  /\ wanted \in Asked /\ signedIn \in BOOLEAN /\ cancelled = FALSE
  /\ pc = "resolve" /\ left = Timeout /\ requests = 0
  /\ polls = 0 /\ waiting = NotWaiting
  /\ req = NoRequest /\ reply = NoReply
  /\ artifact = NoArtifact /\ granted = 0 /\ downloads = 0 /\ linked = 0
  /\ result = [code |-> "none", advice |-> "none"]
  /\ created = {} /\ final = FALSE

(* guide and unverifiable_artifact: what the user is told to do next. *)
Advice(code) ==
  CASE code = "RESOLUTION_TIMEOUT" -> "again"
    [] code \in {"SERVICE_UNAVAILABLE", "RATE_LIMITED", "TRANSFER_MISMATCH"} -> "later"
    [] code \in {"CHECK_BLOCKED", "SOURCE_NOT_FOUND", "UNVERIFIABLE", "SOURCE_MISMATCH"} -> "never"
    [] OTHER -> "none"

FailWith(code) ==
  /\ pc' = "failed"
  /\ result' = [code |-> code, advice |-> Advice(code)]

Fail(code) ==
  /\ FailWith(code)
  /\ UNCHANGED <<wanted, signedIn, cancelled, left, requests, resolution, http, artifact,
                 transfer, linked, created, final>>

FailFinally(code) ==
  /\ FailWith(code) /\ final' = TRUE
  /\ UNCHANGED <<wanted, signedIn, cancelled, left, requests, resolution, http, artifact,
                 transfer, linked, created>>

-----------------------------------------------------------------------------
(* execute_bounded *)
Request(kind) ==
  /\ \E h \in FirstHosts(kind) :
       req' = [kind |-> kind, host |-> h, retry |-> 0, redirects |-> 0]
  /\ reply' = NoReply
  /\ pc' = "send"

(* Before each attempt; a URL with an unapproved origin is not sent. *)
MaySend ==
  /\ ~cancelled
  /\ InDeadline(req.kind) => left > 0

Rejected ==
  /\ pc = "send" /\ req.host \notin AllowedHosts(req.kind)
  /\ Fail("REMOTE_ORIGIN_REJECTED")

NotSent ==
  /\ pc = "send" /\ req.host \in AllowedHosts(req.kind) /\ ~MaySend
  /\ Fail(IF cancelled THEN "CANCELLED" ELSE "RESOLUTION_TIMEOUT")

(* The request takes time and comes back, or is lost on either way.  The   *)
(* service makes one Resolution for one idempotency key.                   *)
Exchange ==
  /\ pc = "send" /\ req.host \in AllowedHosts(req.kind) /\ MaySend
  /\ \E ticks \in 0..RequestTimeout :
       left' = IF InDeadline(req.kind) THEN IF ticks < left THEN left - ticks ELSE 0 ELSE left
  /\ \E s \in {"ok", "transient", "redirect", "error", "transport", "huge"}, h \in Hosts :
       /\ s # "redirect" => h = req.host
       /\ reply' = [status |-> s, host |-> h]
       /\ \/ s # "transport" /\ req.kind = "post" /\ created' = created \cup {requests}
          \/ s = "transport" /\ req.kind = "post" /\ created' \in {created, created \cup {requests}}
          \/ req.kind # "post" /\ UNCHANGED created
  /\ pc' = "reply"
  /\ UNCHANGED <<wanted, signedIn, cancelled, requests, resolution, req, artifact, transfer, linked, result, final>>

Interrupted == cancelled \/ (InDeadline(req.kind) /\ left = 0)

StopAtReply ==
  /\ pc = "reply" /\ Interrupted
  /\ Fail(IF cancelled THEN "CANCELLED" ELSE "RESOLUTION_TIMEOUT")

(* Faulty variant: the limit of the attempts is not looked at. *)
RetryAnyway ==
  /\ pc = "reply" /\ ~Interrupted /\ reply.status \in {"transient", "transport"}
  /\ req' = [req EXCEPT !.retry = @ + 1]
  /\ reply' = NoReply /\ pc' = "send"
  /\ UNCHANGED <<wanted, signedIn, cancelled, left, requests, resolution, artifact, transfer, linked,
                 result, created, final>>

(* Faulty variant: the attempts are not counted. *)
RetryUncounted ==
  /\ pc = "reply" /\ ~Interrupted /\ reply.status \in {"transient", "transport"}
  /\ reply' = NoReply /\ pc' = "send"
  /\ UNCHANGED <<wanted, signedIn, cancelled, left, requests, resolution, req, artifact, transfer,
                 linked, result, created, final>>

(* A wait inside the deadline uses it up; a longer one ends the run. *)
Retry ==
  /\ pc = "reply" /\ ~Interrupted
  /\ reply.status \in {"transient", "transport"} /\ req.retry < RetryLimit(req.kind)
  /\ \E wait \in Waits \cup {0} :
       IF InDeadline(req.kind) /\ wait >= left
       THEN Fail("RESOLUTION_TIMEOUT")
       ELSE /\ left' = IF InDeadline(req.kind) THEN left - wait ELSE left
            /\ req' = [req EXCEPT !.retry = @ + 1]
            /\ reply' = NoReply /\ pc' = "send"
            /\ UNCHANGED <<wanted, signedIn, cancelled, requests, resolution, artifact, transfer, linked,
                           result, created, final>>

FollowRedirect ==
  /\ pc = "reply" /\ ~Interrupted /\ reply.status = "redirect"
  /\ IsGet(req.kind) /\ req.redirects < MaxRedirects /\ reply.host \in AllowedHosts(req.kind)
  /\ req' = [req EXCEPT !.redirects = @ + 1, !.retry = 0, !.host = reply.host]
  /\ reply' = NoReply /\ pc' = "send"
  /\ UNCHANGED <<wanted, signedIn, cancelled, left, requests, resolution, artifact, transfer, linked,
                 result, created, final>>

RejectReply ==
  /\ pc = "reply" /\ ~Interrupted
  /\ \/ /\ reply.status = "redirect"
        /\ ~(IsGet(req.kind) /\ req.redirects < MaxRedirects /\ reply.host \in AllowedHosts(req.kind))
        /\ Fail("REDIRECT_REJECTED")
     \/ reply.status = "huge" /\ Fail("RESPONSE_TOO_LARGE")
     \/ /\ reply.status \in {"transient", "transport"} /\ req.retry = RetryLimit(req.kind)
        /\ Fail("SERVICE_UNAVAILABLE")
     \/ reply.status = "error" /\ Fail("INVALID_SOURCE")

Accepted(kind) == pc = "reply" /\ ~Interrupted /\ reply.status = "ok" /\ req.kind = kind

(* An answer that does not parse, or that breaks the contract. *)
RejectBody ==
  /\ pc = "reply" /\ ~Interrupted /\ reply.status = "ok" /\ req.kind \notin {"artifact", "linked"}
  /\ Fail("INVALID_RESPONSE")

-----------------------------------------------------------------------------
(* resolve_once: a new Resolution with a new idempotency key. *)
PostResolution ==
  /\ pc = "resolve"
  /\ requests' = requests + 1 /\ polls' = 0 /\ waiting' = NotWaiting
  /\ Request("post")
  /\ UNCHANGED <<wanted, signedIn, cancelled, left, artifact, transfer, linked, result, created, final>>

Answered == Accepted("post") \/ Accepted("poll")

(* validate_resolved_source; the caller of prepare_exact compares again. *)
ResolvedSource(commit) == wanted = None \/ commit = wanted

Ready ==
  /\ Answered /\ polls < MaxPolls
  /\ \E c \in Commits, private \in BOOLEAN, own \in BOOLEAN :
       IF own /\ ResolvedSource(c)
       THEN /\ artifact' = [of |-> requests, commit |-> c, private |-> private]
            /\ Request("root")
            /\ UNCHANGED <<wanted, signedIn, cancelled, left, requests, resolution, transfer, linked,
                           result, created, final>>
       ELSE FailFinally(IF own THEN "SOURCE_MISMATCH" ELSE "ATTESTATION_MISMATCH")

Stopped ==
  /\ Answered /\ polls < MaxPolls
  /\ \E code \in {"CHECK_BLOCKED", "ARTIFACT_REVOKED", "SOURCE_NOT_FOUND"} : FailFinally(code)

(* What the loop of resolve does with a failure that can pass: wait is     *)
(* what the service named, or None.                                        *)
Pauses(wait) ==
  IF wait = None THEN {2 ^ requests \div 2, (2 ^ requests \div 2) + Jitter} ELSE {wait, wait + Jitter}

(* Faulty variant: the wait may use up the deadline. *)
RetryPatiently(code, wait) ==
  IF requests > MaxResolutionRetries THEN Fail(code)
  ELSE /\ left' = IF left > 0 THEN left - 1 ELSE 0
       /\ pc' = "resolve"
       /\ UNCHANGED <<wanted, signedIn, cancelled, requests, resolution, http, artifact, transfer, linked,
                      result, created, final>>

RetryResolution(code, wait) ==
  IF requests > MaxResolutionRetries THEN Fail(code)
  ELSE \E pause \in Pauses(wait) :
         IF pause >= left THEN Fail(code)
         ELSE /\ left' = left - pause /\ pc' = "resolve"
              /\ UNCHANGED <<wanted, signedIn, cancelled, requests, resolution, http, artifact, transfer, linked,
                             result, created, final>>

FailedRetryably ==
  /\ Answered /\ polls < MaxPolls
  /\ \E wait \in Waits \cup {None} : RetryResolution("RATE_LIMITED", wait)

(* How long the Resolution has been waiting at this stage. *)
WaitedAt(stage) == IF stage # "unknown" /\ waiting.stage = stage THEN waiting.waited ELSE 0
Stalled(stage) == stage = "signing" /\ WaitedAt(stage) >= StalledLimit

PendingStalled ==
  /\ Answered /\ polls < MaxPolls /\ Stalled("signing")
  /\ RetryResolution("RESOLUTION_TIMEOUT", 0)

(* The poll sleeps inside the deadline and asks again. *)
Pending ==
  /\ Answered /\ polls < MaxPolls
  /\ \E stage \in Stages, wait \in Waits :
       /\ ~Stalled(stage)
       /\ IF wait >= left THEN Fail("RESOLUTION_TIMEOUT")
          ELSE /\ left' = left - wait
               /\ waiting' = [stage |-> stage,
                              waited |-> IF stage = "unknown" THEN 0 ELSE WaitedAt(stage) + wait]
               /\ polls' = polls + 1
               /\ Request("poll")
               /\ UNCHANGED <<wanted, signedIn, cancelled, requests, artifact, transfer, linked, result,
                              created, final>>

(* The loop ends without a look at the last answer. *)
PollsEnd == Answered /\ polls = MaxPolls /\ Fail("RESOLUTION_TIMEOUT")

-----------------------------------------------------------------------------
(* prepare: root and attestation, then the grant for this Resolution. *)
VerifyAttestation ==
  /\ Accepted("root")
  /\ \/ /\ Request("grant")
        /\ UNCHANGED <<wanted, signedIn, cancelled, left, requests, resolution, artifact, transfer, linked,
                       result, created, final>>
     \/ FailFinally("UNVERIFIABLE")

Download(of) ==
  /\ granted' = of /\ downloads' = downloads + 1 /\ Request("artifact")
  /\ UNCHANGED <<wanted, signedIn, cancelled, left, requests, resolution, artifact, linked, result, created, final>>

(* Faulty variant: the Artifact of the grant is not compared. *)
AnyGrant(of) == TRUE

GrantFits(of) == of = artifact.of

Grant ==
  /\ Accepted("grant")
  /\ \E of \in 1..requests \cup {0} :
       \/ GrantFits(of) /\ (artifact.private => signedIn) /\ Download(of)
       \/ GrantFits(of) /\ artifact.private /\ ~signedIn /\ Fail("AUTH_REQUIRED")
       \/ ~GrantFits(of) /\ FailFinally("ATTESTATION_MISMATCH")

(* verify_artifact: the same grant serves bytes once more that arrived     *)
(* short or changed.                                                       *)
TransferMismatch ==
  /\ Accepted("artifact")
  /\ IF downloads < ArtifactDownloads THEN Download(granted) ELSE Fail("TRANSFER_MISMATCH")

Unverifiable == Accepted("artifact") /\ FailFinally("UNVERIFIABLE")

(* read_linked_files reads one file after the other, and stops at the      *)
(* first one that does not match.                                          *)
GoOn(files) ==
  /\ linked' = files
  /\ \/ /\ files = 0 /\ pc' = "ready"
        /\ result' = [code |-> "ok", advice |-> "none"] /\ UNCHANGED http
     \/ files > 0 /\ Request("linked") /\ UNCHANGED result
  /\ UNCHANGED <<wanted, signedIn, cancelled, left, requests, resolution, artifact, transfer,
                 created, final>>

VerifyArtifact ==
  /\ Accepted("artifact")
  /\ \/ \E files \in 0..MaxLinkedFiles : GoOn(files)
     \/ FailFinally("SOURCE_MISMATCH")

ReadLinkedFile ==
  /\ Accepted("linked")
  /\ GoOn(linked - 1) \/ FailFinally("LINKED_FILE_MISMATCH")

Cancel ==
  /\ ~cancelled /\ pc \notin {"ready", "failed"} /\ cancelled' = TRUE
  /\ UNCHANGED <<wanted, signedIn, pc, left, requests, resolution, http, artifact, transfer, linked, result,
                 created, final>>

(* The token expires or the user signs out in another terminal. *)
SignOut ==
  /\ signedIn /\ pc \notin {"ready", "failed"} /\ signedIn' = FALSE
  /\ UNCHANGED <<wanted, cancelled, pc, left, requests, resolution, http, artifact, transfer, linked, result,
                 created, final>>

Client ==
  \/ Rejected \/ NotSent \/ Exchange \/ StopAtReply \/ Retry \/ FollowRedirect \/ RejectReply \/ RejectBody
  \/ PostResolution \/ Ready \/ Stopped \/ FailedRetryably \/ PendingStalled \/ Pending \/ PollsEnd
  \/ VerifyAttestation \/ Grant \/ TransferMismatch \/ Unverifiable \/ VerifyArtifact \/ ReadLinkedFile

Next == Client \/ Cancel \/ SignOut

-----------------------------------------------------------------------------
TypeOK ==
  /\ pc \in {"resolve", "send", "reply", "ready", "failed"}
  /\ left \in 0..Timeout /\ requests \in Nat
  /\ polls \in 0..MaxPolls /\ waiting.stage \in Stages
  /\ req.kind \in Kinds /\ req.retry \in 0..RetryLimit(req.kind) /\ req.redirects \in 0..MaxRedirects
  /\ downloads \in 0..ArtifactDownloads /\ artifact.of \in 0..requests

(* A prepared Skill comes from the Resolution that was asked for last, at  *)
(* the commit that the caller expects (prepare_exact), with bytes granted  *)
(* for that very Artifact.                                                 *)
PreparedAsAsked ==
  pc = "ready" => /\ granted = artifact.of /\ artifact.of = requests /\ requests \in created
                  /\ wanted # None => artifact.commit = wanted

(* However often a request is lost and sent again, the service makes one   *)
(* Resolution for each attempt, at most four of them (remote.rs:80).       *)
ResolutionsBounded ==
  /\ created \subseteq 1..requests
  /\ Cardinality(created) <= MaxResolutionRetries + 1

(* A new Resolution is requested only with time left to wait for it: "A    *)
(* wait that skilld.dev names, and that is longer than the time left,      *)
(* fails at once" (remote.rs:1101).                                        *)
RetriesInTime == (pc = "reply" /\ pc' = "resolve") => left' > 0

(* The user is told not to retry only after an answer that stays the same, *)
(* never because of lost messages, slow answers or bytes changed on their  *)
(* way.                                                                    *)
NeverMeansFinal == result.advice = "never" => final
=============================================================================
