----------------------------- MODULE RemoteProofs -----------------------------
(***************************************************************************)
(* Proofs about what the CLI asks of the service and of GitHub, for every  *)
(* set of commits and Repositories, for every bound, and whatever the      *)
(* network answers: a preparation delivers what was asked for and verifies *)
(* what was signed, direct access installs what one commit holds, each     *)
(* comparison has its own answer however many workers there are, and a     *)
(* listing asks once for what it names once.                               *)
(***************************************************************************)
EXTENDS Remote, Sorting, SequenceTheorems, FiniteSetTheorems, TLAPS

-----------------------------------------------------------------------------
(* A preparation.  Types of all that a step reads.                         *)
Statuses == {"none", "ok", "transient", "redirect", "error", "transport", "huge"}

DeliveryTypes ==
  /\ pc \in {"resolve", "send", "reply", "ready", "failed"}
  /\ left \in 0..Timeout /\ requests \in Nat /\ polls \in 0..MaxPolls
  /\ waiting \in [stage: Delivery!Stages, waited: Nat]
  /\ req \in [kind: Delivery!Kinds, host: Delivery!Hosts, retry: Nat, redirects: 0..MaxRedirects]
  /\ req.retry <= Delivery!RetryLimit(req.kind)
  /\ reply \in [status: Statuses, host: Delivery!Hosts]
  /\ artifact \in [of: 0..requests, commit: Commits \cup {None}, private: BOOLEAN]
  /\ downloads \in 0..ArtifactDownloads
  /\ granted \in Nat /\ created \subseteq 1..requests

OnTheWire(kinds) == pc \in {"send", "reply"} /\ req.kind \in kinds

(* Only a request for a Resolution is made without one; every other needs  *)
(* an answer, and so a Resolution that the service has made.               *)
Resolved ==
  /\ requests <= MaxResolutionRetries + 1
  /\ pc = "resolve" => requests <= MaxResolutionRetries
  /\ pc \in {"send", "reply"} => requests > 0
  /\ OnTheWire({"poll", "root", "grant", "artifact", "linked"}) => requests \in created
  /\ (pc = "reply" /\ req.kind = "post" /\ reply.status = "ok") => requests \in created

(* From the root on there is an Artifact, of the last Resolution and at    *)
(* the commit that was asked for; from its download on, a grant for it.    *)
Matched ==
  /\ (OnTheWire({"root", "grant", "artifact", "linked"}) \/ pc = "ready") =>
       /\ artifact.of = requests /\ requests \in created
       /\ wanted # None => artifact.commit = wanted
  /\ (OnTheWire({"artifact", "linked"}) \/ pc = "ready") => granted = artifact.of
  /\ (pc = "resolve" \/ OnTheWire({"post", "poll", "root", "grant"})) => downloads = 0

DeliveryInv == DeliveryTypes /\ Resolved /\ Matched /\ Delivery!NeverMeansFinal

(* Nothing is asked yet. *)
LEMMA DeliveryInit == Delivery!Init => DeliveryInv
<1> SUFFICES ASSUME Delivery!Init PROVE DeliveryInv  OBVIOUS
<1> USE DeliveryAssumption DEF Delivery!DeliveryAssumption, Delivery!Init
<1>1. DeliveryTypes
  BY DEF DeliveryTypes, Delivery!NotWaiting, Delivery!NoRequest, Delivery!NoReply, Delivery!NoArtifact,
         Delivery!Stages, Delivery!Kinds, Delivery!Hosts, Statuses, Delivery!RetryLimit
<1>2. Resolved  BY DEF Resolved, OnTheWire
<1>3. Matched  BY DEF Matched, OnTheWire
<1>4. Delivery!NeverMeansFinal  BY DEF Delivery!NeverMeansFinal
<1> QED  BY <1>1, <1>2, <1>3, <1>4 DEF DeliveryInv

(* A request starts on its first attempt, and before its answer.           *)
LEMMA RequestStarts ==
  ASSUME NEW kind \in Delivery!Kinds, Delivery!Request(kind)
  PROVE  /\ req' \in [kind: {kind}, host: Delivery!Hosts, retry: {0}, redirects: {0}]
         /\ reply' \in [status: {"none"}, host: Delivery!Hosts]
         /\ pc' = "send"
BY DEF Delivery!Request, Delivery!FirstHosts, Delivery!AllowedHosts, Delivery!Hosts, Delivery!Kinds,
       Delivery!NoReply

(* Such a request fits its limits, whatever they are.                      *)
LEMMA LimitsFit ==
  /\ MaxRedirects \in Nat /\ ArtifactDownloads \in Nat \ {0}
  /\ {Timeout, RequestTimeout, MaxPolls, MaxResolutionRetries} \subseteq Nat
  /\ \A kind \in Delivery!Kinds : Delivery!RetryLimit(kind) \in Nat
BY DeliveryAssumption DEF Delivery!DeliveryAssumption, Delivery!RetryLimit

(* A run that fails keeps all else; it advises never to retry only after   *)
(* an answer that stays.                                                   *)
Halts ==
  /\ pc' = "failed" /\ (result'.advice = "never" => final')
  /\ UNCHANGED <<wanted, left, requests, polls, waiting, req, reply, artifact, granted, downloads, created>>

LEMMA HaltsKeeps ==
  ASSUME DeliveryInv, Halts
  PROVE  DeliveryInv' /\ pc' # "resolve"
<1> USE DEF DeliveryInv, Halts
<1>1. DeliveryTypes'  BY DEF DeliveryTypes
<1>2. Resolved' /\ Matched'  BY DEF Resolved, Matched, OnTheWire
<1>3. Delivery!NeverMeansFinal'  BY DEF Delivery!NeverMeansFinal
<1> QED  BY <1>1, <1>2, <1>3

(* A new request goes on from where the run is.                            *)
Asks ==
  /\ pc' = "send" /\ req' \in [kind: Delivery!Kinds, host: Delivery!Hosts, retry: {0}, redirects: {0}]
  /\ reply' \in [status: {"none"}, host: Delivery!Hosts]
  /\ left' \in 0..Timeout /\ polls' \in 0..MaxPolls
  /\ waiting' \in [stage: Delivery!Stages, waited: Nat]
  /\ requests' \in Nat /\ requests <= requests'
  /\ artifact' \in [of: 0..requests', commit: Commits \cup {None}, private: BOOLEAN]
  /\ downloads' \in 0..ArtifactDownloads /\ granted' \in Nat
  /\ UNCHANGED <<wanted, result, created, final>>

LEMMA AsksKeeps ==
  ASSUME DeliveryInv, Asks, Resolved', Matched'
  PROVE  DeliveryInv' /\ pc' # "resolve"
<1>1. DeliveryTypes /\ Delivery!NeverMeansFinal  BY DEF DeliveryInv
<1>2. /\ req'.retry = 0 /\ req'.kind \in Delivery!Kinds
      /\ req' \in [kind: Delivery!Kinds, host: Delivery!Hosts, retry: Nat, redirects: 0..MaxRedirects]
  BY LimitsFit DEF Asks
<1>3. req'.retry <= Delivery!RetryLimit(req'.kind)  BY <1>2, LimitsFit
<1>4. reply' \in [status: Statuses, host: Delivery!Hosts]  BY DEF Asks, Statuses
<1>5. created' \subseteq 1..requests'  BY <1>1 DEF Asks, DeliveryTypes
<1>6. DeliveryTypes'  BY <1>2, <1>3, <1>4, <1>5 DEF Asks, DeliveryTypes
<1>7. Delivery!NeverMeansFinal'  BY <1>1 DEF Asks, Delivery!NeverMeansFinal
<1> QED  BY <1>6, <1>7 DEF Asks, DeliveryInv

(* The waits double: as many as a set of that size has subsets.            *)
LEMMA PowerIsNatural ==
  ASSUME NEW n \in Nat
  PROVE  2 ^ n \in Nat
<1>1. IsFiniteSet(1..n) /\ Cardinality(1..n) = n
  BY FS_Interval, 1 \in Int, n \in Int
<1>2. IsFiniteSet(SUBSET (1..n)) /\ Cardinality(SUBSET (1..n)) = 2 ^ Cardinality(1..n)
  BY <1>1, FS_SUBSET
<1> QED  BY <1>1, <1>2, FS_CardinalityType

(* A wait before the next Resolution takes a while, and leaves some time.  *)
LEMMA PausesTakeTime ==
  ASSUME NEW wait \in Waits \cup {0, None}, NEW pause \in Delivery!Pauses(wait), requests \in Nat
  PROVE  pause \in Nat
<1>1. Jitter \in Nat /\ wait \in Nat \cup {None}
  BY DeliveryAssumption DEF Delivery!DeliveryAssumption
<1>2. 2 ^ requests \in Nat  BY PowerIsNatural
<1>3. 2 ^ requests \div 2 \in Nat  BY <1>2
<1> QED  BY <1>1, <1>3 DEF Delivery!Pauses

(* Whatever only fails, halts.                                             *)
LEMMA FailuresHalt ==
  ASSUME \/ Delivery!Rejected \/ Delivery!NotSent \/ Delivery!StopAtReply \/ Delivery!RejectReply
         \/ Delivery!RejectBody \/ Delivery!Stopped \/ Delivery!PollsEnd \/ Delivery!Unverifiable
  PROVE  Halts
<1> USE DEF Halts, Delivery!Fail, Delivery!FailFinally, Delivery!FailWith, Delivery!Advice, Delivery!http,
            Delivery!resolution, Delivery!transfer
<1>1. CASE Delivery!Rejected \/ Delivery!NotSent  BY <1>1 DEF Delivery!Rejected, Delivery!NotSent
<1>2. CASE Delivery!StopAtReply  BY <1>2 DEF Delivery!StopAtReply
<1>3. CASE Delivery!RejectReply  BY <1>3 DEF Delivery!RejectReply
<1>4. CASE Delivery!RejectBody  BY <1>4 DEF Delivery!RejectBody
<1>5. CASE Delivery!Stopped  BY <1>5 DEF Delivery!Stopped
<1>6. CASE Delivery!PollsEnd  BY <1>6 DEF Delivery!PollsEnd
<1>7. CASE Delivery!Unverifiable  BY <1>7 DEF Delivery!Unverifiable
<1> QED  BY <1>1, <1>2, <1>3, <1>4, <1>5, <1>6, <1>7

(* A Resolution is retried with time left, or not at all.                  *)
LEMMA RetryLeavesTime ==
  ASSUME NEW code \in {"RATE_LIMITED", "RESOLUTION_TIMEOUT"}, NEW wait \in Waits \cup {0, None},
         Delivery!RetryResolution(code, wait), DeliveryTypes
  PROVE  \/ Halts
         \/ /\ left' \in 1..Timeout /\ pc' = "resolve" /\ requests <= MaxResolutionRetries
            /\ UNCHANGED <<wanted, requests, polls, waiting, req, reply, artifact, granted, downloads,
                           result, created, final>>
<1>1. CASE Delivery!Fail(code)
  BY <1>1 DEF Halts, Delivery!Fail, Delivery!FailWith, Delivery!Advice, Delivery!http, Delivery!resolution,
              Delivery!transfer
<1>2. CASE ~Delivery!Fail(code)
  <2>1. PICK pause \in Delivery!Pauses(wait) :
          /\ ~(pause >= left) /\ left' = left - pause /\ pc' = "resolve"
          /\ UNCHANGED <<wanted, requests, polls, waiting, req, reply, artifact, granted, downloads,
                         result, created, final>>
    BY <1>2 DEF Delivery!RetryResolution, Delivery!http, Delivery!resolution, Delivery!transfer
  <2>2. pause \in Nat  BY PausesTakeTime DEF DeliveryTypes
  <2>3. left' \in 1..Timeout  BY <2>1, <2>2, LimitsFit DEF DeliveryTypes
  <2>4. requests <= MaxResolutionRetries
    BY <1>2, LimitsFit DEF Delivery!RetryResolution, DeliveryTypes
  <2> QED  BY <2>1, <2>3, <2>4
<1> QED  BY <1>1, <1>2

(* Nothing of it is disturbed by what it does not name.                     *)
LEMMA DeliveryUnchanged ==
  ASSUME DeliveryInv,
         UNCHANGED <<wanted, pc, left, requests, polls, waiting, req, reply, artifact, granted, downloads,
                     result, created, final>>
  PROVE  DeliveryInv' /\ Delivery!RetriesInTime
<1>1. DeliveryTypes'  BY DEF DeliveryInv, DeliveryTypes
<1>2. Resolved' /\ Matched'  BY DEF DeliveryInv, Resolved, Matched, OnTheWire
<1>3. Delivery!NeverMeansFinal'  BY DEF DeliveryInv, Delivery!NeverMeansFinal
<1> QED  BY <1>1, <1>2, <1>3 DEF DeliveryInv, Delivery!RetriesInTime

(* Every action of a preparation keeps the invariant, and a Resolution is   *)
(* asked for again with time left.                                         *)
LEMMA DeliveryStep ==
  ASSUME DeliveryInv, Delivery!Next
  PROVE  DeliveryInv' /\ Delivery!RetriesInTime
<1>halts. Halts => DeliveryInv' /\ Delivery!RetriesInTime
  BY HaltsKeeps DEF Delivery!RetriesInTime
<1>types. DeliveryTypes /\ Resolved /\ Matched /\ Delivery!NeverMeansFinal  BY DEF DeliveryInv
<1> USE LimitsFit
<1>1. CASE \/ Delivery!Rejected \/ Delivery!NotSent \/ Delivery!StopAtReply \/ Delivery!RejectReply
          \/ Delivery!RejectBody \/ Delivery!Stopped \/ Delivery!PollsEnd \/ Delivery!Unverifiable
  BY <1>1, <1>halts, FailuresHalt
<1>2. CASE Delivery!Exchange
  <2>1. PICK ticks \in 0..RequestTimeout :
          left' = IF Delivery!InDeadline(req.kind) THEN IF ticks < left THEN left - ticks ELSE 0 ELSE left
    BY <1>2 DEF Delivery!Exchange
  <2>2. left' \in 0..Timeout  BY <2>1, <1>types DEF DeliveryTypes
  <2>3. PICK s \in {"ok", "transient", "redirect", "error", "transport", "huge"}, h \in Delivery!Hosts :
          /\ reply' = [status |-> s, host |-> h]
          /\ \/ s # "transport" /\ req.kind = "post" /\ created' = created \cup {requests}
             \/ s = "transport" /\ req.kind = "post" /\ created' \in {created, created \cup {requests}}
             \/ req.kind # "post" /\ UNCHANGED created
    BY <1>2 DEF Delivery!Exchange
  <2>4. /\ pc = "send" /\ pc' = "reply" /\ requests > 0
        /\ UNCHANGED <<wanted, requests, polls, waiting, req, artifact, granted, downloads, result, final>>
    BY <1>2, <1>types DEF Delivery!Exchange, Delivery!resolution, Delivery!transfer, Resolved
  <2>5. requests \in 1..requests  BY <2>4, <1>types DEF DeliveryTypes
  <2>6. DeliveryTypes'  BY <2>2, <2>3, <2>4, <2>5, <1>types DEF DeliveryTypes, Statuses
  <2>7. Resolved'  BY <2>3, <2>4, <1>types DEF Resolved, OnTheWire
  <2>8. Matched'  BY <2>3, <2>4, <1>types DEF Matched, OnTheWire
  <2>9. Delivery!NeverMeansFinal'  BY <2>4, <1>types DEF Delivery!NeverMeansFinal
  <2> QED  BY <2>4, <2>6, <2>7, <2>8, <2>9 DEF DeliveryInv, Delivery!RetriesInTime
<1>3. CASE Delivery!Retry
  <2>1. PICK wait \in Waits \cup {0} :
          IF Delivery!InDeadline(req.kind) /\ wait >= left
          THEN Delivery!Fail("RESOLUTION_TIMEOUT")
          ELSE /\ left' = IF Delivery!InDeadline(req.kind) THEN left - wait ELSE left
               /\ req' = [req EXCEPT !.retry = @ + 1]
               /\ reply' = Delivery!NoReply /\ pc' = "send"
               /\ UNCHANGED <<wanted, signedIn, cancelled, requests, Delivery!resolution, artifact,
                              Delivery!transfer, linked, result, created, final>>
    BY <1>3 DEF Delivery!Retry
  <2>2. CASE Delivery!Fail("RESOLUTION_TIMEOUT")
    <3>1. Halts  BY <2>2 DEF Delivery!Fail, Delivery!FailWith, Delivery!Advice, Halts,
              Delivery!http, Delivery!resolution, Delivery!transfer
    <3> QED  BY <3>1, <1>halts
  <2>3. CASE ~Delivery!Fail("RESOLUTION_TIMEOUT")
    <3>1. wait \in Nat  BY DeliveryAssumption DEF Delivery!DeliveryAssumption
    <3>2. /\ left' = IF Delivery!InDeadline(req.kind) THEN left - wait ELSE left
          /\ Delivery!InDeadline(req.kind) => ~(wait >= left)
          /\ req' = [req EXCEPT !.retry = @ + 1]
          /\ reply' = Delivery!NoReply /\ pc' = "send"
          /\ UNCHANGED <<wanted, requests, polls, waiting, artifact, granted, downloads, result,
                         created, final>>
      BY <2>1, <2>3 DEF Delivery!resolution, Delivery!transfer
    <3>3. pc = "reply" /\ req.retry < Delivery!RetryLimit(req.kind)  BY <1>3 DEF Delivery!Retry
    <3>4. left' \in 0..Timeout  BY <3>1, <3>2, <1>types DEF DeliveryTypes
    <3>5. /\ req'.kind = req.kind /\ req'.retry <= Delivery!RetryLimit(req'.kind)
          /\ req' \in [kind: Delivery!Kinds, host: Delivery!Hosts, retry: Nat, redirects: 0..MaxRedirects]
      BY <3>2, <3>3, <1>types DEF DeliveryTypes
    <3>6. DeliveryTypes'
      BY <3>2, <3>4, <3>5, <1>types DEF DeliveryTypes, Delivery!NoReply, Statuses, Delivery!Hosts
    <3>7. Resolved'  BY <3>2, <3>3, <3>5, <1>types DEF Resolved, OnTheWire
    <3>8. Matched'  BY <3>2, <3>3, <3>5, <1>types DEF Matched, OnTheWire
    <3>9. Delivery!NeverMeansFinal'  BY <3>2, <1>types DEF Delivery!NeverMeansFinal
    <3> QED  BY <3>2, <3>6, <3>7, <3>8, <3>9 DEF DeliveryInv, Delivery!RetriesInTime
  <2> QED  BY <2>2, <2>3
<1>4. CASE Delivery!FollowRedirect
  <2>1. /\ pc = "reply" /\ req.redirects < MaxRedirects /\ reply' = Delivery!NoReply /\ pc' = "send"
        /\ req' = [req EXCEPT !.redirects = @ + 1, !.retry = 0, !.host = reply.host]
        /\ UNCHANGED <<wanted, left, requests, polls, waiting, artifact, granted, downloads, result,
                       created, final>>
    BY <1>4 DEF Delivery!FollowRedirect, Delivery!resolution, Delivery!transfer
  <2>2. /\ req'.kind = req.kind /\ req'.retry <= Delivery!RetryLimit(req'.kind)
        /\ req' \in [kind: Delivery!Kinds, host: Delivery!Hosts, retry: Nat, redirects: 0..MaxRedirects]
    <3>1. /\ req'.kind = req.kind /\ req'.retry = 0 /\ req'.host = reply.host
          /\ req'.redirects = req.redirects + 1
          /\ req' = [kind |-> req'.kind, host |-> req'.host, retry |-> req'.retry, redirects |-> req'.redirects]
      BY <2>1, <1>types DEF DeliveryTypes
    <3>2. reply.host \in Delivery!Hosts /\ req.kind \in Delivery!Kinds /\ req.redirects + 1 \in 0..MaxRedirects
      BY <2>1, <1>types DEF DeliveryTypes
    <3> QED  BY <3>1, <3>2
  <2>3. DeliveryTypes'
    BY <2>1, <2>2, <1>types DEF DeliveryTypes, Delivery!NoReply, Statuses, Delivery!Hosts
  <2>4. Resolved'  BY <2>1, <2>2, <1>types DEF Resolved, OnTheWire
  <2>5. Matched'  BY <2>1, <2>2, <1>types DEF Matched, OnTheWire
  <2>6. Delivery!NeverMeansFinal'  BY <2>1, <1>types DEF Delivery!NeverMeansFinal
  <2> QED  BY <2>1, <2>3, <2>4, <2>5, <2>6 DEF DeliveryInv, Delivery!RetriesInTime
<1>asks. Asks /\ Resolved' /\ Matched' => DeliveryInv' /\ Delivery!RetriesInTime
  BY AsksKeeps DEF Delivery!RetriesInTime
<1>5. CASE Delivery!PostResolution
  <2>1. Delivery!Request("post")  BY <1>5 DEF Delivery!PostResolution
  <2>2. /\ req' \in [kind: {"post"}, host: Delivery!Hosts, retry: {0}, redirects: {0}]
        /\ reply' \in [status: {"none"}, host: Delivery!Hosts] /\ pc' = "send"
    BY <2>1, RequestStarts DEF Delivery!Kinds
  <2>3. /\ pc = "resolve" /\ requests' = requests + 1 /\ polls' = 0 /\ waiting' = Delivery!NotWaiting
        /\ UNCHANGED <<wanted, left, artifact, granted, downloads, result, created, final>>
    BY <1>5 DEF Delivery!PostResolution, Delivery!transfer
  <2>4. artifact' \in [of: 0..requests', commit: Commits \cup {None}, private: BOOLEAN]
    BY <2>3, <1>types DEF DeliveryTypes
  <2>5. Asks
    BY <2>2, <2>3, <2>4, <1>types DEF Asks, DeliveryTypes, Delivery!Kinds, Delivery!NotWaiting, Delivery!Stages
  <2>6. Resolved' /\ Matched'
    BY <2>2, <2>3, <1>types DEF DeliveryTypes, Resolved, Matched, OnTheWire
  <2> QED  BY <2>5, <2>6, <1>asks
<1>6. CASE Delivery!Ready
  <2>1. PICK c \in Commits, private \in BOOLEAN, own \in BOOLEAN :
          IF own /\ Delivery!ResolvedSource(c)
          THEN /\ artifact' = [of |-> requests, commit |-> c, private |-> private]
               /\ Delivery!Request("root")
               /\ UNCHANGED <<wanted, signedIn, cancelled, left, requests, Delivery!resolution,
                              Delivery!transfer, linked, result, created, final>>
          ELSE Delivery!FailFinally(IF own THEN "SOURCE_MISMATCH" ELSE "ATTESTATION_MISMATCH")
    BY <1>6 DEF Delivery!Ready
  <2>2. CASE ~(own /\ Delivery!ResolvedSource(c))
    <3>1. Halts
      BY <2>1, <2>2 DEF Halts, Delivery!FailFinally, Delivery!FailWith, Delivery!http,
                        Delivery!resolution, Delivery!transfer
    <3> QED  BY <3>1, <1>halts
  <2>3. CASE own /\ Delivery!ResolvedSource(c)
    <3>1. /\ req' \in [kind: {"root"}, host: Delivery!Hosts, retry: {0}, redirects: {0}]
          /\ reply' \in [status: {"none"}, host: Delivery!Hosts] /\ pc' = "send"
      BY <2>1, <2>3, RequestStarts DEF Delivery!Kinds
    <3>2. /\ artifact' = [of |-> requests, commit |-> c, private |-> private]
          /\ UNCHANGED <<wanted, left, requests, polls, waiting, granted, downloads, result, created, final>>
      BY <2>1, <2>3 DEF Delivery!resolution, Delivery!transfer
    <3>3. pc = "reply" /\ req.kind \in {"post", "poll"} /\ reply.status = "ok"
      BY <1>6 DEF Delivery!Ready, Delivery!Answered, Delivery!Accepted
    <3>4. wanted # None => artifact'.commit = wanted  BY <2>3, <3>2 DEF Delivery!ResolvedSource
    <3>5. artifact' \in [of: 0..requests', commit: Commits \cup {None}, private: BOOLEAN]
      BY <3>2, <1>types DEF DeliveryTypes
    <3>6. Asks  BY <3>1, <3>2, <3>5, <1>types DEF Asks, DeliveryTypes, Delivery!Kinds
    <3>7. Resolved'  BY <3>1, <3>2, <3>3, <1>types DEF Resolved, OnTheWire
    <3>8. Matched'  BY <3>1, <3>2, <3>3, <3>4, <1>types DEF Resolved, Matched, OnTheWire
    <3> QED  BY <3>6, <3>7, <3>8, <1>asks
  <2> QED  BY <2>2, <2>3
<1>7. CASE Delivery!FailedRetryably \/ Delivery!PendingStalled
  <2>1. PICK code \in {"RATE_LIMITED", "RESOLUTION_TIMEOUT"}, wait \in Waits \cup {0, None} :
          Delivery!RetryResolution(code, wait)
    BY <1>7 DEF Delivery!FailedRetryably, Delivery!PendingStalled
  <2>2. CASE Halts  BY <2>2, <1>halts
  <2>3. CASE ~Halts
    <3>1. /\ left' \in 1..Timeout /\ pc' = "resolve" /\ requests <= MaxResolutionRetries
          /\ UNCHANGED <<wanted, requests, polls, waiting, req, reply, artifact, granted, downloads,
                         result, created, final>>
      BY <2>1, <2>3, <1>types, RetryLeavesTime
    <3>2. pc = "reply" /\ req.kind \in {"post", "poll"}
      BY <1>7 DEF Delivery!FailedRetryably, Delivery!PendingStalled, Delivery!Answered, Delivery!Accepted
    <3>3. DeliveryTypes'  BY <3>1, <1>types DEF DeliveryTypes
    <3>4. Resolved' /\ Matched'  BY <3>1, <3>2, <1>types DEF Resolved, Matched, OnTheWire
    <3>5. Delivery!NeverMeansFinal'  BY <3>1, <1>types DEF Delivery!NeverMeansFinal
    <3> QED  BY <3>1, <3>3, <3>4, <3>5 DEF DeliveryInv, Delivery!RetriesInTime
  <2> QED  BY <2>2, <2>3
<1>8. CASE Delivery!Pending
  <2>1. PICK place \in Delivery!Stages, wait \in Waits :
          IF wait >= left THEN Delivery!Fail("RESOLUTION_TIMEOUT")
          ELSE /\ left' = left - wait
               /\ waiting' = [stage |-> place,
                              waited |-> IF place = "unknown" THEN 0 ELSE Delivery!WaitedAt(place) + wait]
               /\ polls' = polls + 1
               /\ Delivery!Request("poll")
               /\ UNCHANGED <<wanted, signedIn, cancelled, requests, artifact, Delivery!transfer, linked,
                              result, created, final>>
    BY <1>8 DEF Delivery!Pending
  <2>2. CASE wait >= left
    <3>1. Halts
      BY <2>1, <2>2 DEF Halts, Delivery!Fail, Delivery!FailWith, Delivery!Advice, Delivery!http,
                        Delivery!resolution, Delivery!transfer
    <3> QED  BY <3>1, <1>halts
  <2>3. CASE ~(wait >= left)
    <3>1. wait \in Nat  BY DeliveryAssumption DEF Delivery!DeliveryAssumption
    <3>2. /\ req' \in [kind: {"poll"}, host: Delivery!Hosts, retry: {0}, redirects: {0}]
          /\ reply' \in [status: {"none"}, host: Delivery!Hosts] /\ pc' = "send"
      BY <2>1, <2>3, RequestStarts DEF Delivery!Kinds
    <3>3. /\ left' = left - wait /\ polls' = polls + 1
          /\ waiting' = [stage |-> place,
                         waited |-> IF place = "unknown" THEN 0 ELSE Delivery!WaitedAt(place) + wait]
          /\ UNCHANGED <<wanted, requests, artifact, granted, downloads, result, created, final>>
      BY <2>1, <2>3 DEF Delivery!transfer
    <3>4. pc = "reply" /\ req.kind \in {"post", "poll"} /\ reply.status = "ok" /\ polls < MaxPolls
      BY <1>8 DEF Delivery!Pending, Delivery!Answered, Delivery!Accepted
    <3>5. Delivery!WaitedAt(place) \in Nat  BY <1>types DEF Delivery!WaitedAt, DeliveryTypes
    <3>6. waiting' \in [stage: Delivery!Stages, waited: Nat]  BY <3>1, <3>3, <3>5
    <3>7. left' \in 0..Timeout /\ polls' \in 0..MaxPolls
      BY <2>3, <3>1, <3>3, <3>4, <1>types DEF DeliveryTypes
    <3>8. Asks  BY <3>2, <3>3, <3>6, <3>7, <1>types DEF Asks, DeliveryTypes, Delivery!Kinds
    <3>9. Resolved' /\ Matched'  BY <3>2, <3>3, <3>4, <1>types DEF Resolved, Matched, OnTheWire
    <3> QED  BY <3>8, <3>9, <1>asks
  <2> QED  BY <2>2, <2>3
<1>9. CASE Delivery!VerifyAttestation
  <2>1. CASE Delivery!FailFinally("UNVERIFIABLE")
    <3>1. Halts
      BY <2>1 DEF Halts, Delivery!FailFinally, Delivery!FailWith, Delivery!http, Delivery!resolution,
                  Delivery!transfer
    <3> QED  BY <3>1, <1>halts
  <2>2. CASE ~Delivery!FailFinally("UNVERIFIABLE")
    <3>1. /\ Delivery!Request("grant") /\ pc = "reply" /\ req.kind = "root"
          /\ UNCHANGED <<wanted, left, requests, polls, waiting, artifact, granted, downloads, result,
                         created, final>>
      BY <1>9, <2>2 DEF Delivery!VerifyAttestation, Delivery!Accepted, Delivery!resolution, Delivery!transfer
    <3>2. /\ req' \in [kind: {"grant"}, host: Delivery!Hosts, retry: {0}, redirects: {0}]
          /\ reply' \in [status: {"none"}, host: Delivery!Hosts] /\ pc' = "send"
      BY <3>1, RequestStarts DEF Delivery!Kinds
    <3>3. Asks  BY <3>1, <3>2, <1>types DEF Asks, DeliveryTypes, Delivery!Kinds
    <3>4. Resolved' /\ Matched'  BY <3>1, <3>2, <1>types DEF Resolved, Matched, OnTheWire
    <3> QED  BY <3>3, <3>4, <1>asks
  <2> QED  BY <2>1, <2>2
<1>10. CASE Delivery!Grant
  <2>1. PICK of \in 1..requests \cup {0} :
          \/ Delivery!GrantFits(of) /\ Delivery!Download(of)
          \/ Delivery!Fail("AUTH_REQUIRED")
          \/ Delivery!FailFinally("ATTESTATION_MISMATCH")
    BY <1>10 DEF Delivery!Grant
  <2>2. CASE Delivery!Fail("AUTH_REQUIRED") \/ Delivery!FailFinally("ATTESTATION_MISMATCH")
    <3>1. Halts
      BY <2>2 DEF Halts, Delivery!Fail, Delivery!FailFinally, Delivery!FailWith, Delivery!Advice,
                  Delivery!http, Delivery!resolution, Delivery!transfer
    <3> QED  BY <3>1, <1>halts
  <2>3. CASE Delivery!GrantFits(of) /\ Delivery!Download(of)
    <3>1. /\ Delivery!Request("artifact") /\ granted' = of /\ of = artifact.of /\ downloads' = downloads + 1
          /\ UNCHANGED <<wanted, left, requests, polls, waiting, artifact, result, created, final>>
      BY <2>3 DEF Delivery!GrantFits, Delivery!Download, Delivery!resolution
    <3>2. pc = "reply" /\ req.kind = "grant"  BY <1>10 DEF Delivery!Grant, Delivery!Accepted
    <3>3. /\ req' \in [kind: {"artifact"}, host: Delivery!Hosts, retry: {0}, redirects: {0}]
          /\ reply' \in [status: {"none"}, host: Delivery!Hosts] /\ pc' = "send"
      BY <3>1, RequestStarts DEF Delivery!Kinds
    <3>4. downloads' \in 0..ArtifactDownloads /\ granted' \in Nat
      BY <3>1, <3>2, <1>types DEF DeliveryTypes, Matched, OnTheWire
    <3>5. Asks  BY <3>1, <3>3, <3>4, <1>types DEF Asks, DeliveryTypes, Delivery!Kinds
    <3>6. Resolved' /\ Matched'  BY <3>1, <3>2, <3>3, <1>types DEF Resolved, Matched, OnTheWire
    <3> QED  BY <3>5, <3>6, <1>asks
  <2> QED  BY <2>1, <2>2, <2>3
<1>11. CASE Delivery!TransferMismatch
  <2>1. CASE Delivery!Fail("TRANSFER_MISMATCH")
    <3>1. Halts
      BY <2>1 DEF Halts, Delivery!Fail, Delivery!FailWith, Delivery!Advice, Delivery!http,
                  Delivery!resolution, Delivery!transfer
    <3> QED  BY <3>1, <1>halts
  <2>2. CASE ~Delivery!Fail("TRANSFER_MISMATCH")
    <3>1. /\ Delivery!Request("artifact") /\ granted' = granted
          /\ downloads < ArtifactDownloads /\ downloads' = downloads + 1
          /\ UNCHANGED <<wanted, left, requests, polls, waiting, artifact, result, created, final>>
      BY <1>11, <2>2 DEF Delivery!TransferMismatch, Delivery!Download, Delivery!resolution
    <3>2. pc = "reply" /\ req.kind = "artifact"  BY <1>11 DEF Delivery!TransferMismatch, Delivery!Accepted
    <3>3. /\ req' \in [kind: {"artifact"}, host: Delivery!Hosts, retry: {0}, redirects: {0}]
          /\ reply' \in [status: {"none"}, host: Delivery!Hosts] /\ pc' = "send"
      BY <3>1, RequestStarts DEF Delivery!Kinds
    <3>4. Asks  BY <3>1, <3>3, <1>types DEF Asks, DeliveryTypes, Delivery!Kinds
    <3>5. Resolved' /\ Matched'  BY <3>1, <3>2, <3>3, <1>types DEF Resolved, Matched, OnTheWire
    <3> QED  BY <3>4, <3>5, <1>asks
  <2> QED  BY <2>1, <2>2
<1>12. CASE Delivery!VerifyArtifact \/ Delivery!ReadLinkedFile
  <2>1. PICK number : \/ Delivery!GoOn(number)
                      \/ Delivery!FailFinally("SOURCE_MISMATCH")
                      \/ Delivery!FailFinally("LINKED_FILE_MISMATCH")
    BY <1>12 DEF Delivery!VerifyArtifact, Delivery!ReadLinkedFile
  <2>2. CASE ~Delivery!GoOn(number)
    <3>1. Halts
      BY <2>1, <2>2 DEF Halts, Delivery!FailFinally, Delivery!FailWith, Delivery!http,
                        Delivery!resolution, Delivery!transfer
    <3> QED  BY <3>1, <1>halts
  <2>3. CASE Delivery!GoOn(number)
    <3>1. /\ \/ /\ pc' = "ready" /\ result' = [code |-> "ok", advice |-> "none"] /\ UNCHANGED <<req, reply>>
             \/ Delivery!Request("linked") /\ UNCHANGED result
          /\ UNCHANGED <<wanted, left, requests, polls, waiting, artifact, granted, downloads, created, final>>
      BY <2>3 DEF Delivery!GoOn, Delivery!http, Delivery!resolution, Delivery!transfer
    <3>2. pc = "reply" /\ req.kind \in {"artifact", "linked"}
      BY <1>12 DEF Delivery!VerifyArtifact, Delivery!ReadLinkedFile, Delivery!Accepted
    <3>3. CASE pc' = "ready" /\ result' = [code |-> "ok", advice |-> "none"] /\ UNCHANGED <<req, reply>>
      <4>1. DeliveryTypes'  BY <3>1, <3>3, <1>types DEF DeliveryTypes
      <4>2. Resolved' /\ Matched'  BY <3>1, <3>2, <3>3, <1>types DEF Resolved, Matched, OnTheWire
      <4>3. Delivery!NeverMeansFinal'  BY <3>3 DEF Delivery!NeverMeansFinal
      <4> QED  BY <3>3, <4>1, <4>2, <4>3 DEF DeliveryInv, Delivery!RetriesInTime
    <3>4. CASE Delivery!Request("linked") /\ UNCHANGED result
      <4>1. /\ req' \in [kind: {"linked"}, host: Delivery!Hosts, retry: {0}, redirects: {0}]
            /\ reply' \in [status: {"none"}, host: Delivery!Hosts] /\ pc' = "send"
        BY <3>4, RequestStarts DEF Delivery!Kinds
      <4>2. Asks  BY <3>1, <3>4, <4>1, <1>types DEF Asks, DeliveryTypes, Delivery!Kinds
      <4>3. Resolved' /\ Matched'  BY <3>1, <3>2, <4>1, <1>types DEF Resolved, Matched, OnTheWire
      <4> QED  BY <4>2, <4>3, <1>asks
    <3> QED  BY <3>1, <3>3, <3>4
  <2> QED  BY <2>2, <2>3
<1>13. CASE Delivery!Cancel \/ Delivery!SignOut
  <2>1. UNCHANGED <<wanted, pc, left, requests, polls, waiting, req, reply, artifact, granted, downloads,
                    result, created, final>>
    BY <1>13 DEF Delivery!Cancel, Delivery!SignOut, Delivery!http, Delivery!resolution, Delivery!transfer
  <2> QED  BY <2>1, DeliveryUnchanged
<1> QED
  BY <1>1, <1>2, <1>3, <1>4, <1>5, <1>6, <1>7, <1>8, <1>9, <1>10, <1>11, <1>12, <1>13
  DEF Delivery!Next, Delivery!Client
(* A preparation that is ready is the one that was asked for.              *)
LEMMA DeliverySafe ==
  ASSUME DeliveryInv
  PROVE  Delivery!TypeOK /\ Delivery!PreparedAsAsked /\ Delivery!ResolutionsBounded
<1>1. Delivery!TypeOK
  BY LimitsFit DEF DeliveryInv, DeliveryTypes, Delivery!TypeOK
<1>2. Delivery!PreparedAsAsked
  BY DEF DeliveryInv, Matched, Delivery!PreparedAsAsked
<1>3. Delivery!ResolutionsBounded
  <2>1. created \subseteq 1..requests /\ requests \in Nat /\ requests <= MaxResolutionRetries + 1
    BY DEF DeliveryInv, DeliveryTypes, Resolved
  <2>2. IsFiniteSet(1..requests) /\ Cardinality(1..requests) = requests
    BY <2>1, FS_Interval, 1 \in Int, requests \in Int
  <2>3. IsFiniteSet(created) /\ Cardinality(created) <= Cardinality(1..requests)
    BY <2>1, <2>2, FS_Subset
  <2>4. Cardinality(created) \in Nat  BY <2>3, FS_CardinalityType
  <2>5. Cardinality(created) <= requests  BY <2>2, <2>3
  <2>6. MaxResolutionRetries \in Nat  BY LimitsFit
  <2>7. Cardinality(created) <= MaxResolutionRetries + 1  BY <2>1, <2>4, <2>5, <2>6
  <2> QED  BY <2>1, <2>7 DEF Delivery!ResolutionsBounded, Delivery!Cardinality, Cardinality
<1> QED  BY <1>1, <1>2, <1>3

-----------------------------------------------------------------------------
(* Direct access.  What is left to install is named; what was installed is *)
(* a sequence.                                                             *)
IsSequence(s) == s \in Seq({s[i] : i \in DOMAIN s})

DirectTypes ==
  /\ step \in {"snapshot", "plan", "tarball", "blobs", "done"}
  /\ todo \in Seq(Direct!Skills) /\ (step # "done" => todo # <<>>)
  /\ head \in Commits
  /\ memo \in [Direct!Refs -> Direct!Snapshots \cup {None}]
  /\ reads \in [Direct!Refs -> [snapshot: Nat, tarball: Nat]]
  /\ IsSequence(installed)

(* Past its snapshot a Skill's Repository has been read; every Skill of it *)
(* is from the commit that was; and its tarball is read at most once.      *)
OneSnapshot ==
  /\ step \in {"plan", "tarball", "blobs"} => memo[Direct!Skill.ref] # None
  /\ \A i \in DOMAIN installed :
       installed[i].code = "ok" =>
         /\ installed[i].ref \in Direct!Refs /\ memo[installed[i].ref] # None
         /\ installed[i].commit = memo[installed[i].ref].commit
  /\ \A r \in Direct!Refs :
       /\ reads[r].tarball <= 1
       /\ (memo[r] = None \/ memo[r].tarball = Unread) => reads[r].tarball = 0

DirectInv == DirectTypes /\ OneSnapshot

(* No Repository is read yet. *)
LEMMA DirectInit == Direct!Init => DirectInv
<1> SUFFICES ASSUME Direct!Init PROVE DirectInv  OBVIOUS
<1>1. todo \in Seq(Direct!Skills) \ {<<>>}
  BY DirectAssumption DEF Direct!DirectAssumption, Direct!Init
<1>2. installed = <<>> /\ IsSequence(installed)  BY EmptySeq DEF Direct!Init, IsSequence
<1>3. DirectTypes  BY <1>1, <1>2 DEF Direct!Init, DirectTypes
<1>4. DOMAIN installed = {}  BY <1>2
<1>5. OneSnapshot  BY <1>4 DEF Direct!Init, OneSnapshot
<1> QED  BY <1>3, <1>5 DEF DirectInv

(* The Skill at hand names a branch or a commit.                           *)
LEMMA SkillNamed ==
  ASSUME DirectTypes, step # "done"
  PROVE  /\ Direct!Skill \in Direct!Skills /\ Direct!Skill.ref \in Direct!Refs
         /\ Tail(todo) \in Seq(Direct!Skills) /\ Len(todo) \in Nat
         /\ Len(todo) # 1 => Tail(todo) # <<>>
<1>1. todo \in Seq(Direct!Skills) /\ todo # <<>>  BY DEF DirectTypes
<1>2. /\ Direct!Skill \in Direct!Skills /\ Tail(todo) \in Seq(Direct!Skills)
      /\ Len(Tail(todo)) = Len(todo) - 1 /\ Len(todo) \in Nat
  BY <1>1, HeadTailProperties, LenProperties DEF Direct!Skill
<1>3. Tail(todo) = <<>> => Len(Tail(todo)) = 0  BY EmptySeq
<1> QED  BY <1>2, <1>3, DirectAssumption DEF Direct!DirectAssumption

(* A sequence is one of its own elements.                                  *)
LEMMA OwnRange ==
  ASSUME NEW S, NEW s \in Seq(S)
  PROVE  IsSequence(s)
<1> DEFINE T == {s[i] : i \in DOMAIN s}
<1>1. s \in [1..Len(s) -> T] /\ Len(s) \in Nat  BY LenProperties
<1> HIDE DEF T
<1>2. s \in Seq(T)  BY <1>1, SeqDef
<1> QED  BY <1>2 DEF T, IsSequence

(* A sequence that grows keeps what it has.                                *)
LEMMA Appended ==
  ASSUME NEW s, NEW x, IsSequence(s), NEW t, t = Append(s, x)
  PROVE  /\ IsSequence(t)
         /\ \A i \in DOMAIN t : (i \in DOMAIN s /\ t[i] = s[i]) \/ t[i] = x
<1> DEFINE S == {s[i] : i \in DOMAIN s}
<1>1. s \in Seq(S \cup {x})  BY SeqMonotonic DEF IsSequence
<1> HIDE DEF S
<1>2. /\ t \in Seq(S \cup {x}) /\ Len(t) = Len(s) + 1
      /\ \A i \in 1..Len(s) : t[i] = s[i]
      /\ t[Len(s) + 1] = x
  BY <1>1, AppendProperties
<1>3. DOMAIN s = 1..Len(s) /\ Len(s) \in Nat /\ DOMAIN t = 1..Len(t)
  BY <1>1, <1>2, LenProperties
<1>4. \A i \in DOMAIN t : (i \in DOMAIN s /\ t[i] = s[i]) \/ t[i] = x
  BY <1>2, <1>3
<1>5. IsSequence(t)  BY <1>2, OwnRange
<1> QED  BY <1>4, <1>5

(* The end of a Skill, installed from what was read or refused.            *)
Finishes(x) ==
  /\ installed' = Append(installed, x) /\ todo' = Tail(todo)
  /\ step' = IF Len(todo) = 1 THEN "done" ELSE "snapshot"
  /\ x.code = "ok" =>
       x.ref \in Direct!Refs /\ memo[x.ref] # None /\ x.commit = memo[x.ref].commit

LEMMA FinishKeeps ==
  ASSUME DirectInv, step # "done", NEW x, Finishes(x), UNCHANGED <<head, memo>>,
         reads' \in [Direct!Refs -> [snapshot: Nat, tarball: Nat]],
         \A r \in Direct!Refs : reads'[r].tarball = reads[r].tarball
  PROVE  DirectInv'
<1>1. DirectTypes /\ OneSnapshot  BY DEF DirectInv
<1>2. todo' \in Seq(Direct!Skills) /\ (step' # "done" => todo' # <<>>)
  BY <1>1, SkillNamed DEF Finishes
<1>3. /\ IsSequence(installed')
      /\ \A i \in DOMAIN installed' :
           (i \in DOMAIN installed /\ installed'[i] = installed[i]) \/ installed'[i] = x
  <2>1. IsSequence(installed)  BY <1>1 DEF DirectTypes
  <2>2. installed' = Append(installed, x)  BY DEF Finishes
  <2>3. \A t : t = Append(installed, x) =>
          /\ IsSequence(t)
          /\ \A i \in DOMAIN t : (i \in DOMAIN installed /\ t[i] = installed[i]) \/ t[i] = x
    BY <2>1, Appended
  <2> QED  BY <2>2, <2>3
<1>4. step' \in {"snapshot", "done"}  BY DEF Finishes
<1>5. DirectTypes'  BY <1>1, <1>2, <1>3, <1>4 DEF DirectTypes
<1>6. OneSnapshot'
  <2>1. step' \in {"plan", "tarball", "blobs"} => FALSE  BY <1>4
  <2>2. \A i \in DOMAIN installed' : installed'[i].code = "ok" =>
          /\ installed'[i].ref \in Direct!Refs /\ memo'[installed'[i].ref] # None
          /\ installed'[i].commit = memo'[installed'[i].ref].commit
    BY <1>1, <1>3 DEF OneSnapshot, Finishes
  <2>3. \A r \in Direct!Refs :
          /\ reads'[r].tarball <= 1
          /\ (memo'[r] = None \/ memo'[r].tarball = Unread) => reads'[r].tarball = 0
    BY <1>1 DEF OneSnapshot
  <2> QED  BY <2>1, <2>2, <2>3 DEF OneSnapshot
<1> QED  BY <1>5, <1>6 DEF DirectInv

(* A refused Skill ends, and nothing is installed of it.                   *)
LEMMA RefuseKeeps ==
  ASSUME DirectInv, step # "done", NEW code, code # "ok", Direct!Refuse(code), UNCHANGED memo,
         reads' \in [Direct!Refs -> [snapshot: Nat, tarball: Nat]],
         \A r \in Direct!Refs : reads'[r].tarball = reads[r].tarball
  PROVE  DirectInv'
<1> DEFINE x == [ref |-> Direct!Skill.ref, path |-> Direct!Skill.path, code |-> code, commit |-> None,
                 tarball |-> None, files |-> <<>>]
<1>1. Finishes(x) /\ UNCHANGED head  BY DEF Direct!Refuse, Direct!Finish, Finishes
<1> QED  BY <1>1, FinishKeeps

(* A step that only goes on with the Skill at hand.                        *)
LEMMA DirectGoesOn ==
  ASSUME DirectInv, UNCHANGED <<todo, installed, memo, reads>>, head' \in Commits,
         step' \in {"snapshot", "plan", "tarball", "blobs", "done"},
         step' = step \/ (step # "done" /\ step' \in {"plan", "tarball", "blobs"} /\ memo[Direct!Skill.ref] # None)
  PROVE  DirectInv'
<1>1. DirectTypes /\ OneSnapshot  BY DEF DirectInv
<1>2. DirectTypes'  BY <1>1 DEF DirectTypes
<1>3. OneSnapshot'  BY <1>1 DEF OneSnapshot, Direct!Skill
<1> QED  BY <1>2, <1>3 DEF DirectInv

(* Every action of direct access keeps the invariant.                      *)
LEMMA DirectStep ==
  ASSUME DirectInv, Direct!Next
  PROVE  DirectInv'
<1>1. DirectTypes /\ OneSnapshot  BY DEF DirectInv
<1>2. reads \in [Direct!Refs -> [snapshot: Nat, tarball: Nat]]  BY <1>1 DEF DirectTypes
<1>3. CASE Direct!NeedsPath
  <2>1. step = "snapshot" /\ Direct!Refuse("DIRECT_SOURCE_REQUIRED") /\ UNCHANGED <<memo, reads>>
    BY <1>3 DEF Direct!NeedsPath
  <2> QED  BY <2>1, <1>2, RefuseKeeps
<1>4. CASE Direct!Recall
  BY <1>1, <1>4, DirectGoesOn DEF Direct!Recall, Direct!Known, Direct!Snapshot, DirectTypes
<1>5. CASE Direct!Resolve
  <2>1. /\ step = "snapshot" /\ memo[Direct!Skill.ref] = None
        /\ reads' = [reads EXCEPT ![Direct!Skill.ref].snapshot = @ + 1]
    BY <1>5 DEF Direct!Resolve, Direct!Known, Direct!Snapshot
  <2>2. Direct!Skill.ref \in Direct!Refs  BY <1>1, <2>1, SkillNamed
  <2>3. /\ reads' \in [Direct!Refs -> [snapshot: Nat, tarball: Nat]]
        /\ \A r \in Direct!Refs : reads'[r].tarball = reads[r].tarball
    BY <1>2, <2>1, <2>2
  <2>4. CASE \E c \in Commits :
               /\ memo' = [memo EXCEPT ![Direct!Skill.ref] = [commit |-> c, tarball |-> Unread]]
               /\ step' = "plan" /\ UNCHANGED <<head, todo, installed>>
    <3>1. PICK c \in Commits :
            /\ memo' = [memo EXCEPT ![Direct!Skill.ref] = [commit |-> c, tarball |-> Unread]]
            /\ step' = "plan" /\ UNCHANGED <<head, todo, installed>>
      BY <2>4
    <3>2. [commit |-> c, tarball |-> Unread] \in Direct!Snapshots  BY DEF Direct!Snapshots
    <3>3. None \notin Direct!Snapshots  BY DirectAssumption DEF Direct!DirectAssumption
    <3>4. /\ memo' \in [Direct!Refs -> Direct!Snapshots \cup {None}]
          /\ memo'[Direct!Skill.ref] = [commit |-> c, tarball |-> Unread]
          /\ \A r \in Direct!Refs : r # Direct!Skill.ref => memo'[r] = memo[r]
      BY <1>1, <2>2, <3>1, <3>2 DEF DirectTypes
    <3>5. DirectTypes'  BY <1>1, <2>1, <2>3, <3>1, <3>4 DEF DirectTypes
    <3>6. Direct!Skill' = Direct!Skill  BY <3>1 DEF Direct!Skill
    <3>7. \A i \in DOMAIN installed : installed[i].code = "ok" => installed[i].ref # Direct!Skill.ref
      BY <1>1, <2>1 DEF OneSnapshot
    <3>8. \A i \in DOMAIN installed' : installed'[i].code = "ok" =>
            /\ installed'[i].ref \in Direct!Refs /\ memo'[installed'[i].ref] # None
            /\ installed'[i].commit = memo'[installed'[i].ref].commit
      BY <1>1, <3>1, <3>4, <3>7 DEF OneSnapshot
    <3>9. \A r \in Direct!Refs :
            /\ reads'[r].tarball <= 1
            /\ (memo'[r] = None \/ memo'[r].tarball = Unread) => reads'[r].tarball = 0
      BY <1>1, <2>1, <2>3, <3>4 DEF OneSnapshot
    <3>10. memo'[Direct!Skill'.ref] # None  BY <3>2, <3>3, <3>4, <3>6
    <3>11. OneSnapshot'  BY <3>8, <3>9, <3>10 DEF OneSnapshot
    <3> QED  BY <3>5, <3>11 DEF DirectInv
  <2>5. CASE ~\E c \in Commits :
                /\ memo' = [memo EXCEPT ![Direct!Skill.ref] = [commit |-> c, tarball |-> Unread]]
                /\ step' = "plan" /\ UNCHANGED <<head, todo, installed>>
    <3>1. head \in Commits  BY <1>1 DEF DirectTypes
    <3>2. PICK code \in {"DIRECT_SOURCE_TOO_LARGE", "SOURCE_MISMATCH", "DIRECT_PRIVATE_UNSUPPORTED",
                         "SERVICE_UNAVAILABLE", "INVALID_RESPONSE"} :
            Direct!Refuse(code) /\ UNCHANGED memo
      BY <1>5, <2>5, <3>1 DEF Direct!Resolve
    <3> QED  BY <2>1, <2>3, <3>2, RefuseKeeps
  <2> QED  BY <2>4, <2>5
<1>6. CASE Direct!Plan
  <2>1. /\ step = "plan" /\ UNCHANGED <<memo, reads>>
        /\ \/ /\ step' = "tarball" /\ UNCHANGED <<head, todo, installed>>
           \/ \E code \in {"INVALID_RESPONSE", "DIRECT_SOURCE_UNSUPPORTED", "DIRECT_SOURCE_TOO_LARGE"} :
                Direct!Refuse(code)
    BY <1>6 DEF Direct!Plan
  <2>2. CASE step' = "tarball" /\ UNCHANGED <<head, todo, installed>>
    BY <1>1, <2>1, <2>2, DirectGoesOn DEF DirectTypes, OneSnapshot
  <2>3. CASE ~(step' = "tarball" /\ UNCHANGED <<head, todo, installed>>)
    <3>1. PICK code \in {"INVALID_RESPONSE", "DIRECT_SOURCE_UNSUPPORTED", "DIRECT_SOURCE_TOO_LARGE"} :
            Direct!Refuse(code)
      BY <2>1, <2>3
    <3> QED  BY <1>2, <2>1, <3>1, RefuseKeeps
  <2> QED  BY <2>2, <2>3
<1>7. CASE Direct!FetchTarball
  <2>1. /\ step = "tarball" /\ memo[Direct!Skill.ref].tarball = Unread
        /\ reads' = [reads EXCEPT ![Direct!Skill.ref].tarball = @ + 1]
        /\ UNCHANGED <<head, todo, step, installed>>
    BY <1>7 DEF Direct!FetchTarball, Direct!Snapshot
  <2>2. PICK got \in Tarballs(memo[Direct!Skill.ref].commit) \cup {Unavailable} :
          memo' = [memo EXCEPT ![Direct!Skill.ref].tarball = got]
    BY <1>7 DEF Direct!FetchTarball, Direct!Snapshot
  <2>3. Direct!Skill.ref \in Direct!Refs  BY <1>1, <2>1, SkillNamed
  <2>4. memo[Direct!Skill.ref] \in Direct!Snapshots
    BY <1>1, <2>1, <2>3 DEF DirectTypes, OneSnapshot
  <2>5. got \in Direct!AnyArchive \cup {Unavailable}
    BY <2>2, <2>4 DEF Direct!AnyArchive, Direct!Snapshots
  <2>6. got # Unread  BY <2>5, DirectAssumption DEF Direct!DirectAssumption
  <2>7. [memo[Direct!Skill.ref] EXCEPT !.tarball = got] \in Direct!Snapshots
    BY <2>4, <2>5 DEF Direct!Snapshots
  <2>8. /\ memo' \in [Direct!Refs -> Direct!Snapshots \cup {None}]
        /\ memo'[Direct!Skill.ref] = [memo[Direct!Skill.ref] EXCEPT !.tarball = got]
        /\ \A r \in Direct!Refs : r # Direct!Skill.ref => memo'[r] = memo[r]
    BY <1>1, <2>2, <2>3, <2>7 DEF DirectTypes
  <2>9. /\ memo'[Direct!Skill.ref].commit = memo[Direct!Skill.ref].commit
        /\ memo'[Direct!Skill.ref].tarball = got
    BY <2>4, <2>8 DEF Direct!Snapshots
  <2>10. None \notin Direct!Snapshots  BY DirectAssumption DEF Direct!DirectAssumption
  <2>11. /\ reads' \in [Direct!Refs -> [snapshot: Nat, tarball: Nat]]
         /\ reads'[Direct!Skill.ref].tarball = reads[Direct!Skill.ref].tarball + 1
         /\ \A r \in Direct!Refs : r # Direct!Skill.ref => reads'[r] = reads[r]
    BY <1>2, <2>1, <2>3
  <2>12. DirectTypes'  BY <1>1, <2>1, <2>8, <2>11 DEF DirectTypes
  <2>13. Direct!Skill' = Direct!Skill  BY <2>1 DEF Direct!Skill
  <2>14. memo'[Direct!Skill'.ref] # None  BY <2>7, <2>8, <2>10, <2>13
  <2>15. \A i \in DOMAIN installed' : installed'[i].code = "ok" =>
           /\ installed'[i].ref \in Direct!Refs /\ memo'[installed'[i].ref] # None
           /\ installed'[i].commit = memo'[installed'[i].ref].commit
    BY <1>1, <2>1, <2>8, <2>9, <2>13, <2>14 DEF OneSnapshot
  <2>16. \A r \in Direct!Refs :
           /\ reads'[r].tarball <= 1
           /\ (memo'[r] = None \/ memo'[r].tarball = Unread) => reads'[r].tarball = 0
    <3> SUFFICES ASSUME NEW r \in Direct!Refs
                 PROVE  /\ reads'[r].tarball <= 1
                        /\ (memo'[r] = None \/ memo'[r].tarball = Unread) => reads'[r].tarball = 0
      OBVIOUS
    <3>1. CASE r = Direct!Skill.ref
      <4>1. reads[r].tarball = 0  BY <1>1, <2>1, <3>1 DEF OneSnapshot
      <4> QED  BY <2>6, <2>9, <2>11, <2>13, <2>14, <3>1, <4>1
    <3>2. CASE r # Direct!Skill.ref  BY <1>1, <2>8, <2>11, <3>2 DEF OneSnapshot
    <3> QED  BY <3>1, <3>2
  <2>17. OneSnapshot'  BY <2>14, <2>15, <2>16 DEF OneSnapshot
  <2> QED  BY <2>12, <2>17 DEF DirectInv
<1>prepared. ASSUME NEW all, Direct!Prepare(all), UNCHANGED <<memo, reads>>, step \in {"tarball", "blobs"}
             PROVE  DirectInv'
  <2> DEFINE x == [ref |-> Direct!Skill.ref, path |-> Direct!Skill.path, code |-> "ok",
                   commit |-> Direct!Snapshot.commit, tarball |-> Direct!Snapshot.tarball, files |-> all]
  <2>1. CASE Direct!Refuse("INVALID_ARCHIVE")  BY <1>2, <1>prepared, <2>1, RefuseKeeps
  <2>2. CASE Direct!Finish(x)
    <3>1. Direct!Skill.ref \in Direct!Refs  BY <1>1, <1>prepared, SkillNamed
    <3>2. memo[Direct!Skill.ref] # None  BY <1>1, <1>prepared DEF OneSnapshot
    <3>3. Finishes(x) /\ UNCHANGED head
      BY <2>2, <3>1, <3>2 DEF Direct!Finish, Finishes, Direct!Snapshot
    <3> QED  BY <1>2, <1>prepared, <3>3, FinishKeeps
  <2> QED  BY <1>prepared, <2>1, <2>2 DEF Direct!Prepare
<1>8. CASE Direct!ReadTarball
  <2>1. step = "tarball" /\ UNCHANGED <<memo, reads>>  BY <1>8 DEF Direct!ReadTarball
  <2>2. PICK all : Direct!Prepare(all)  BY <1>8 DEF Direct!ReadTarball
  <2> QED  BY <2>1, <2>2, <1>prepared
<1>9. CASE Direct!PrepareBlobs
  <2>1. step = "blobs" /\ Direct!Prepare(files) /\ UNCHANGED <<memo, reads>>
    BY <1>9 DEF Direct!PrepareBlobs
  <2> QED  BY <2>1, <1>prepared
<1>10. CASE Direct!FallBack
  BY <1>1, <1>10, DirectGoesOn DEF Direct!FallBack, DirectTypes, OneSnapshot
<1>11. CASE Direct!ReadBlob
  <2>1. step = "blobs" /\ UNCHANGED <<memo, reads>>  BY <1>11 DEF Direct!ReadBlob
  <2>2. CASE UNCHANGED <<head, todo, step, installed>>
    BY <1>1, <2>1, <2>2, DirectGoesOn DEF DirectTypes
  <2>3. CASE ~UNCHANGED <<head, todo, step, installed>>
    <3>1. PICK code \in {"SERVICE_UNAVAILABLE", "INVALID_RESPONSE"} : Direct!Refuse(code)
      BY <1>11, <2>3 DEF Direct!ReadBlob
    <3> QED  BY <1>2, <2>1, <3>1, RefuseKeeps
  <2> QED  BY <2>2, <2>3
<1>12. CASE Direct!Push
  BY <1>1, <1>12, DirectGoesOn DEF Direct!Push, DirectTypes
<1> QED
  BY <1>3, <1>4, <1>5, <1>6, <1>7, <1>8, <1>9, <1>10, <1>11, <1>12 DEF Direct!Next, Direct!Client
-----------------------------------------------------------------------------
(* Finite sets, by induction on the number of their elements.  A family of *)
(* parts of a finite set has a member that is smallest.                    *)
LEMMA SmallestExists ==
  ASSUME NEW X, IsFiniteSet(X), NEW Bad \in SUBSET SUBSET X, Bad # {}
  PROVE  \E T \in Bad : \A x \in T : T \ {x} \notin Bad
<1>1. \A T \in SUBSET X : IsFiniteSet(T)  BY FS_Subset
<1>2. Bad \subseteq FiniteSubsetsOf(X)  BY <1>1 DEF FiniteSubsetsOf
<1>3. PICK T \in Bad : \A W \in Bad : <<W, T>> \notin StrictSubsetOrdering(X)
  BY <1>2, FS_StrictSubsetOrderingWellFounded, WFMin
<1>4. \A x \in T : T \ {x} \in Bad => <<T \ {x}, T>> \in StrictSubsetOrdering(X)
  BY DEF StrictSubsetOrdering
<1> QED  BY <1>3, <1>4

(* What the empty set has and one more element keeps, every finite set has.*)
LEMMA FiniteInduction ==
  ASSUME NEW X, IsFiniteSet(X), NEW Good, {} \in Good,
         \A T \in SUBSET X, x \in X : T \in Good => T \cup {x} \in Good
  PROVE  X \in Good
<1> SUFFICES ASSUME X \notin Good PROVE FALSE  OBVIOUS
<1> DEFINE Bad == {T \in SUBSET X : T \notin Good}
<1>1. Bad \in SUBSET SUBSET X /\ Bad # {}  OBVIOUS
<1>2. PICK T \in Bad : \A x \in T : T \ {x} \notin Bad
  <2> HIDE DEF Bad
  <2> QED  BY <1>1, SmallestExists
<1>3. PICK x \in T : TRUE  OBVIOUS
<1>4. (T \ {x}) \cup {x} = T /\ T \ {x} \in Good  BY <1>2, <1>3
<1> QED  BY <1>3, <1>4

LEMMA LargestExists ==
  ASSUME NEW X \in SUBSET Nat, IsFiniteSet(X), X # {}
  PROVE  \E n \in X : \A m \in X : m <= n
<1> DEFINE Good == {T \in SUBSET X : T = {} \/ \E n \in T : \A m \in T : m <= n}
<1>1. {} \in Good  OBVIOUS
<1>2. ASSUME NEW T \in SUBSET X, NEW x \in X, T \in Good PROVE T \cup {x} \in Good
  <2>1. CASE T = {}  BY <2>1
  <2>2. CASE T # {}
    <3>1. PICK n \in T : \A m \in T : m <= n  BY <1>2, <2>2
    <3>2. CASE x <= n  BY <3>1, <3>2
    <3>3. CASE n <= x  BY <3>1, <3>3
    <3> QED  BY <3>2, <3>3
  <2> QED  BY <2>1, <2>2
<1> HIDE DEF Good
<1>3. X \in Good  BY <1>1, <1>2, FiniteInduction
<1> QED  BY <1>3 DEF Good

Ordered(X, s) ==
  /\ s \in [1..Cardinality(X) -> X]
  /\ \A i, j \in DOMAIN s : i < j => s[i] < s[j]

(* A finite set of numbers can be sorted: all but the largest first.       *)
LEMMA OrderExists ==
  ASSUME NEW X \in SUBSET Nat, IsFiniteSet(X)
  PROVE  \E s : Ordered(X, s)
<1> SUFFICES ASSUME ~ \E s : Ordered(X, s) PROVE FALSE  OBVIOUS
<1> DEFINE Bad == {T \in SUBSET X : ~ \E s : Ordered(T, s)}
<1>1. PICK T \in Bad : \A x \in T : T \ {x} \notin Bad
  <2>1. Bad \in SUBSET SUBSET X /\ Bad # {}  OBVIOUS
  <2> HIDE DEF Bad
  <2> QED  BY <2>1, SmallestExists
<1>2. T \in SUBSET Nat /\ T \subseteq X /\ ~ \E s : Ordered(T, s)  OBVIOUS
<1>3. IsFiniteSet(T)  BY <1>2, FS_Subset
<1>4. T # {}
  <2>1. Ordered({}, [i \in {} |-> i])  BY FS_EmptySet DEF Ordered
  <2> QED  BY <1>2, <2>1
<1>5. PICK n \in T : \A m \in T : m <= n  BY <1>2, <1>3, <1>4, LargestExists
<1>6. PICK s : Ordered(T \ {n}, s)  BY <1>1, <1>2
<1>7. Cardinality(T) \in Nat /\ Cardinality(T) > 0 /\ Cardinality(T \ {n}) = Cardinality(T) - 1
  <2>1. Cardinality(T) \in Nat  BY <1>3, FS_CardinalityType
  <2>2. Cardinality(T) # 0  BY <1>3, <1>4, FS_EmptySet
  <2>3. Cardinality(T \ {n}) = Cardinality(T) - 1  BY <1>3, FS_RemoveElement
  <2> QED  BY <2>1, <2>2, <2>3
<1> DEFINE t == [i \in 1..Cardinality(T) |-> IF i = Cardinality(T) THEN n ELSE s[i]]
<1>8. \A i \in 1..Cardinality(T) : i # Cardinality(T) => i \in 1..(Cardinality(T) - 1)  BY <1>7
<1>9. t \in [1..Cardinality(T) -> T]  BY <1>6, <1>7, <1>8 DEF Ordered
<1>10. \A i, j \in DOMAIN t : i < j => t[i] < t[j]
  <2> SUFFICES ASSUME NEW i \in 1..Cardinality(T), NEW j \in 1..Cardinality(T), i < j
               PROVE  t[i] < t[j]
    OBVIOUS
  <2>1. i \in 1..(Cardinality(T) - 1) /\ t[i] = s[i]  BY <1>7
  <2>2. s[i] \in T /\ s[i] # n /\ s[i] \in Nat /\ n \in Nat  BY <2>1, <1>6, <1>7, <1>2 DEF Ordered
  <2>3. CASE j = Cardinality(T)
    <3>1. t[j] = n /\ s[i] <= n  BY <2>3, <2>2, <1>5
    <3> QED  BY <3>1, <2>1, <2>2
  <2>4. CASE j # Cardinality(T)
    <3>1. j \in 1..(Cardinality(T) - 1) /\ t[j] = s[j]  BY <2>4, <1>7
    <3> QED  BY <3>1, <2>1, <1>6, <1>7 DEF Ordered
  <2> QED  BY <2>3, <2>4
<1>11. Ordered(T, t)  BY <1>9, <1>10 DEF Ordered
<1> QED  BY <1>11, <1>2

(* InOrder does: as many elements as k are not greater than the k-th.      *)
LEMMA InOrderIsOrdered ==
  ASSUME NEW X \in SUBSET Nat, IsFiniteSet(X)
  PROVE  Ordered(X, InOrder(X))
<1>1. PICK s : Ordered(X, s)  BY OrderExists
<1> DEFINE n == Cardinality(X)
           upTo(x) == {m \in X : m <= x}
<1>2. n \in Nat  BY FS_CardinalityType
<1>3. s \in [1..n -> X] /\ \A i, j \in 1..n : i < j => s[i] < s[j]  BY <1>1 DEF Ordered
<1>4. \A i \in 1..n : s[i] \in Nat  BY <1>3
<1>5. \A i, j \in 1..n : s[i] <= s[j] => i <= j  BY <1>2, <1>3, <1>4
<1>6. \A i, j \in 1..n : s[i] = s[j] => i = j  BY <1>2, <1>4, <1>5
<1>7. \A x \in X : \E i \in 1..n : s[i] = x
  <2>1. s \in Injection(1..n, X)  BY <1>3, <1>6 DEF Injection, IsInjective
  <2>2. IsFiniteSet(1..n) /\ Cardinality(1..n) = n  BY <1>2, FS_Interval
  <2>3. s \in Surjection(1..n, X)  BY <2>1, <2>2, FS_Injection
  <2> QED  BY <2>3 DEF Surjection
<1>8. ASSUME NEW k \in 1..n PROVE Cardinality(upTo(s[k])) = k
  <2> DEFINE t == [i \in 1..k |-> s[i]]
  <2>1. \A i \in 1..k : i \in 1..n /\ s[i] <= s[k]  BY <1>2, <1>3, <1>4
  <2>2. t \in [1..k -> upTo(s[k])]  BY <1>3, <2>1
  <2>3. \A i, j \in 1..k : t[i] = t[j] => i = j  BY <1>6, <2>1
  <2>4. \A x \in upTo(s[k]) : \E i \in 1..k : t[i] = x
    <3> TAKE x \in upTo(s[k])
    <3>1. PICK i \in 1..n : s[i] = x  BY <1>7
    <3>2. i \in 1..k  BY <1>5, <3>1
    <3> QED  BY <3>1, <3>2
  <2> HIDE DEF t
  <2>5. t \in Bijection(1..k, upTo(s[k]))
    BY <2>2, <2>3, <2>4 DEF Bijection, Injection, IsInjective, Surjection
  <2>6. k \in Nat /\ IsFiniteSet(1..k) /\ Cardinality(1..k) = k  BY <1>2, FS_Interval
  <2> QED  BY <2>5, <2>6, FS_Bijection DEF ExistsBijection
<1>9. ASSUME NEW k \in 1..n PROVE InOrder(X)[k] = s[k]
  <2>1. InOrder(X)[k] \in X /\ Cardinality(upTo(InOrder(X)[k])) = k
    <3>1. \E x \in X : Cardinality(upTo(x)) = k  BY <1>3, <1>8
    <3> QED  BY <3>1 DEF InOrder
  <2>2. PICK j \in 1..n : s[j] = InOrder(X)[k]  BY <1>7, <2>1
  <2>3. j = k  BY <1>8, <2>1, <2>2
  <2> QED  BY <2>2, <2>3
<1>10. InOrder(X) = s  BY <1>3, <1>9 DEF InOrder
<1> QED  BY <1>1, <1>10

(* So InOrder lists every element of a finite set of numbers once.         *)
LEMMA InOrderLists ==
  ASSUME NEW X \in SUBSET Nat, IsFiniteSet(X)
  PROVE  /\ Cardinality(X) \in Nat
         /\ InOrder(X) \in Seq(X) /\ Len(InOrder(X)) = Cardinality(X)
         /\ \A x \in X : \E i \in 1..Cardinality(X) : InOrder(X)[i] = x
         /\ \A i \in 1..Cardinality(X) : InOrder(X)[i] \in X
         /\ \A i, j \in 1..Cardinality(X) : InOrder(X)[i] = InOrder(X)[j] => i = j
<1> DEFINE n == Cardinality(X)  s == InOrder(X)
<1>1. n \in Nat  BY FS_CardinalityType
<1>2. Ordered(X, s)  BY InOrderIsOrdered
<1>3. s \in [1..n -> X] /\ \A i, j \in 1..n : i < j => s[i] < s[j]  BY <1>2 DEF Ordered
<1>4. \A i, j \in 1..n : s[i] = s[j] => i = j
  <2> SUFFICES ASSUME NEW i \in 1..n, NEW j \in 1..n, s[i] = s[j], i # j PROVE FALSE  OBVIOUS
  <2>1. s[i] \in Nat  BY <1>3
  <2>2. i < j \/ j < i  BY <1>1
  <2> QED  BY <2>1, <2>2, <1>3
<1>5. s \in Injection(1..n, X)  BY <1>3, <1>4 DEF Injection, IsInjective
<1>6. IsFiniteSet(1..n) /\ Cardinality(1..n) = n  BY <1>1, FS_Interval
<1>7. s \in Surjection(1..n, X)  BY <1>5, <1>6, FS_Injection
<1>8. \A x \in X : \E i \in 1..n : s[i] = x  BY <1>7 DEF Surjection
<1>9. s \in Seq(X) /\ Len(s) = n
  <2> HIDE DEF n, s
  <2> QED  BY <1>1, <1>3
<1> QED  BY <1>1, <1>3, <1>4, <1>8, <1>9

-----------------------------------------------------------------------------
(* Comparisons.  A list is cut into chunks, or a history into pages, of d. *)
LEMMA Multiples ==
  ASSUME NEW d \in Nat \ {0}, NEW x \in Nat, NEW y \in Nat
  PROVE  /\ x * d \in Nat /\ (x + 1) * d = x * d + d /\ (x > 0 => (x - 1) * d = x * d - d)
         /\ x <= y => x * d <= y * d
         /\ x < y => x * d + d <= y * d
<1>1. x * d \in Nat /\ (x + 1) * d = x * d + d /\ (x > 0 => (x - 1) * d = x * d - d)  OBVIOUS
<1>2. ASSUME x <= y PROVE x * d <= y * d
  <2>1. PICK z \in Nat : y = x + z  BY <1>2, y - x \in Nat
  <2>2. y * d = x * d + z * d /\ z * d \in Nat  BY <2>1
  <2> QED  BY <2>2, <1>1
<1>3. ASSUME x < y PROVE x * d + d <= y * d
  <2>1. PICK z \in Nat : y = x + 1 + z  BY <1>3, y - x - 1 \in Nat
  <2>2. y * d = x * d + d + z * d /\ z * d \in Nat  BY <2>1
  <2> QED  BY <2>2, <1>1
<1> QED  BY <1>1, <1>2, <1>3

LEMMA Quotients ==
  ASSUME NEW n \in Nat, NEW d \in Nat \ {0}
  PROVE  /\ n \div d \in Nat /\ n % d \in Nat /\ n % d < d
         /\ n = (n \div d) * d + (n % d)
<1>1. n \div d \in Int /\ n % d \in 0..(d - 1) /\ n = d * (n \div d) + (n % d)
  <2>1. n \div d \in Int  OBVIOUS
  <2>2. n % d \in 0..(d - 1)  OBVIOUS
  <2>3. n = d * (n \div d) + (n % d)  OBVIOUS
  <2> QED  BY <2>1, <2>2, <2>3
<1>2. n \div d \in Nat
  <2> DEFINE q == n \div d  r == n % d
  <2>1. q \in Int /\ r \in Nat /\ r < d /\ n = d * q + r  BY <1>1
  <2> HIDE DEF q, r
  <2>2. ASSUME q < 0 PROVE FALSE
    <3>1. PICK z \in Nat : q = (-1) - z  BY <2>1, <2>2, (-1) - q \in Nat
    <3>2. d * q = -d - d * z /\ d * z \in Nat  BY <3>1
    <3> QED  BY <2>1, <3>2
  <2>3. q \in Nat  BY <2>1, <2>2
  <2> QED  BY <2>3 DEF q
<1>3. d * (n \div d) = (n \div d) * d  BY <1>2
<1> QED  BY <1>1, <1>2, <1>3

(* There are just enough chunks: the last one is not empty.                *)
LEMMA ChunkCount ==
  ASSUME NEW n \in Nat, NEW d \in Nat \ {0}
  PROVE  /\ Compare!DivCeil(n, d) \in Nat
         /\ n <= Compare!DivCeil(n, d) * d
         /\ \A t \in 1..Compare!DivCeil(n, d) : (t - 1) * d \in Nat /\ (t - 1) * d < n /\ t * d = (t - 1) * d + d
<1> DEFINE m == n + d - 1  r == m % d  c == Compare!DivCeil(n, d)
<1>1. m \in Nat /\ c = m \div d  BY DEF Compare!DivCeil
<1>2. c \in Nat /\ r \in Nat /\ r < d /\ m = c * d + r  BY <1>1, Quotients
<1> HIDE DEF r
<1>3. c * d \in Nat  BY <1>2, Multiples
<1>4. n <= c * d  BY <1>2, <1>3
<1>5. ASSUME NEW t \in 1..c PROVE (t - 1) * d \in Nat /\ (t - 1) * d < n /\ t * d = (t - 1) * d + d
  <2>1. t - 1 \in Nat /\ t - 1 < c /\ t = (t - 1) + 1  BY <1>2
  <2>2. (t - 1) * d \in Nat /\ ((t - 1) + 1) * d = (t - 1) * d + d /\ (t - 1) * d + d <= c * d
    BY <2>1, <1>2, Multiples
  <2>3. c * d <= n + d - 1
    <3> HIDE DEF c
    <3> QED  BY <1>2, <1>3
  <2> QED  BY <2>1, <2>2, <2>3, <1>3
<1> QED  BY <1>2, <1>4, <1>5

(* Each place is in one chunk. *)
LEMMA ChunkOf ==
  ASSUME NEW n \in Nat, NEW d \in Nat \ {0}, NEW x \in 1..n
  PROVE  \E t \in 1..Compare!DivCeil(n, d) : (t - 1) * d < x /\ x <= t * d
<1> DEFINE c == Compare!DivCeil(n, d)  q == (x - 1) \div d
<1>1. x - 1 \in Nat  OBVIOUS
<1>2. q \in Nat /\ (x - 1) % d \in Nat /\ (x - 1) % d < d /\ x - 1 = q * d + ((x - 1) % d)
  BY <1>1, Quotients
<1>3. q * d \in Nat /\ (q + 1) * d = q * d + d  BY <1>2, Multiples
<1>4. q * d < x /\ x <= (q + 1) * d  BY <1>2, <1>3
<1>5. c \in Nat /\ n <= c * d  BY ChunkCount
<1>6. q + 1 <= c
  <2> SUFFICES ASSUME c <= q PROVE FALSE  BY <1>2, <1>5
  <2>1. c * d <= q * d /\ c * d \in Nat  BY <1>2, <1>5, Multiples
  <2> HIDE DEF c, q
  <2> QED  BY <2>1, <1>3, <1>4, <1>5
<1>7. q + 1 \in 1..c /\ (q + 1) - 1 = q  BY <1>2, <1>5, <1>6
<1> HIDE DEF c, q
<1>8. ((q + 1) - 1) * d < x  BY <1>7, <1>4
<1> QED  BY <1>7, <1>8, <1>4 DEF c

LEMMA FunctionIsList ==
  ASSUME NEW E, NEW n \in Nat, NEW f \in [1..n -> E]
  PROVE  f \in Seq(E) /\ Len(f) = n
OBVIOUS

(* Cut into chunks, a list has each of its places in one of them.          *)
ChunksOf(cs, s, b, D) ==
  /\ cs \in Seq(Seq(D)) /\ Len(cs) \in Nat /\ DOMAIN cs = 1..Len(cs)
  /\ \A t \in DOMAIN cs :
       /\ cs[t] # <<>>
       /\ \A k \in DOMAIN cs[t] : (t - 1) * b + k \in 1..Len(s) /\ cs[t][k] = s[(t - 1) * b + k]
  /\ \A x \in 1..Len(s) : \E t \in DOMAIN cs : \E k \in DOMAIN cs[t] : cs[t][k] = s[x]
  /\ \A t, u \in DOMAIN cs : \A k \in DOMAIN cs[t], l \in DOMAIN cs[u] :
       (t - 1) * b + k = (u - 1) * b + l => t = u /\ k = l

LEMMA Chunks ==
  ASSUME NEW D, NEW s \in Seq(D), NEW b \in Nat \ {0}, NEW cs,
         cs = [t \in 1..Compare!DivCeil(Len(s), b) |->
                 SubSeq(s, (t - 1) * b + 1, Compare!Min2(t * b, Len(s)))]
  PROVE  ChunksOf(cs, s, b, D)
<1> DEFINE n == Len(s)  c == Compare!DivCeil(n, b)  low(t) == (t - 1) * b  high(t) == Compare!Min2(t * b, n)
<1>1. n \in Nat /\ c \in Nat  BY ChunkCount
<1>2. ASSUME NEW t \in 1..c
      PROVE  /\ low(t) \in Nat /\ low(t) < n /\ low(t) < high(t) /\ high(t) <= low(t) + b /\ high(t) \in 1..n
             /\ (low(t) + b <= n => high(t) = low(t) + b) /\ (n <= low(t) + b => high(t) = n)
  <2>1. low(t) \in Nat /\ low(t) < n /\ t * b = low(t) + b  BY <1>1, ChunkCount, Zenon
  <2> HIDE DEF low
  <2> QED  BY <1>1, <2>1 DEF Compare!Min2
<1>3. ASSUME NEW t \in 1..c
      PROVE  /\ cs[t] \in Seq(D) /\ cs[t] # <<>> /\ DOMAIN cs[t] = 1..(high(t) - low(t))
             /\ \A k \in DOMAIN cs[t] : low(t) + k \in 1..n /\ cs[t][k] = s[low(t) + k]
  <2>1. cs[t] = SubSeq(s, low(t) + 1, high(t))  BY Zenon
  <2>2. low(t) \in Nat /\ low(t) < high(t) /\ high(t) \in 1..n  BY <1>2
  <2> DEFINE lo == low(t)  hi == high(t)
  <2>3. lo \in Nat /\ lo < hi /\ hi \in 1..n /\ cs[t] = SubSeq(s, lo + 1, hi)  BY <2>1, <2>2
  <2> HIDE DEF lo, hi, low, high
  <2>4. \A i \in (lo + 1)..hi : s[i] \in D  BY <1>1, <2>3
  <2>5. /\ cs[t] \in Seq(D) /\ Len(cs[t]) = hi - lo
        /\ \A i \in 1..(hi - lo) : cs[t][i] = s[lo + i]
    <3>1. lo + 1 \in Int /\ hi \in Int /\ lo + 1 <= hi  BY <1>1, <2>3
    <3>2. /\ SubSeq(s, lo + 1, hi) \in Seq(D)
          /\ Len(SubSeq(s, lo + 1, hi)) = hi - (lo + 1) + 1
          /\ \A i \in 1..(hi - (lo + 1) + 1) : SubSeq(s, lo + 1, hi)[i] = s[(lo + 1) + i - 1]
      BY <3>1, <2>4, SubSeqProperties
    <3>3. hi - (lo + 1) + 1 = hi - lo  BY <3>1, <2>3
    <3>4. \A i \in 1..(hi - lo) : (lo + 1) + i - 1 = lo + i  BY <2>3, <1>1
    <3> QED  BY <2>3, <3>2, <3>3, <3>4, Zenon
  <2>6. DOMAIN cs[t] = 1..(hi - lo) /\ hi - lo \in Nat /\ hi - lo > 0  BY <2>3, <2>5, <1>1
  <2>7. cs[t] # <<>>
    <3>1. Len(cs[t]) # 0  BY <2>5, <2>6
    <3> QED  BY <3>1, EmptySeq, Zenon
  <2>8. \A k \in 1..(hi - lo) : lo + k \in 1..n  BY <1>1, <2>3
  <2> QED  BY <2>5, <2>6, <2>7, <2>8, Zenon DEF lo, hi
<1>4. DOMAIN cs = 1..c /\ cs \in Seq(Seq(D)) /\ Len(cs) = c
  <2>1. DOMAIN cs = 1..c /\ cs = [t \in 1..c |-> cs[t]]  BY Zenon
  <2>2. \A t \in 1..c : cs[t] \in Seq(D)  BY <1>3
  <2> HIDE DEF c
  <2>3. cs \in [1..c -> Seq(D)]  BY <2>1, <2>2, Zenon
  <2> DEFINE E == Seq(D)
  <2>4. cs \in [1..c -> E]  BY <2>3
  <2> HIDE DEF E
  <2>5. cs \in Seq(E) /\ Len(cs) = c  BY ONLY <2>4, <1>1, FunctionIsList
  <2> QED  BY <2>1, <2>5, Zenon DEF E
<1>5. ASSUME NEW x \in 1..n PROVE \E t \in 1..c : \E k \in DOMAIN cs[t] : cs[t][k] = s[x]
  <2>1. PICK t \in 1..c : low(t) < x /\ x <= t * b  BY <1>1, <1>5, ChunkOf, Zenon
  <2>2. low(t) \in Nat /\ t * b = low(t) + b  BY <1>1, ChunkCount
  <2>3. x <= high(t)  BY <2>1, <2>2, <1>1 DEF Compare!Min2
  <2>4. high(t) \in 1..n  BY <1>2
  <2>5. DOMAIN cs[t] = 1..(high(t) - low(t)) /\ \A k \in DOMAIN cs[t] : cs[t][k] = s[low(t) + k]  BY <1>3, Zenon
  <2> HIDE DEF low, high, c
  <2>6. x - low(t) \in 1..(high(t) - low(t)) /\ low(t) + (x - low(t)) = x  BY <2>1, <2>2, <2>3, <2>4, <1>1
  <2> QED  BY <2>5, <2>6, Zenon
<1>6. ASSUME NEW t \in 1..c, NEW u \in 1..c, NEW k \in DOMAIN cs[t], NEW l \in DOMAIN cs[u],
             low(t) + k = low(u) + l, t < u
      PROVE  FALSE
  <2>1. t - 1 \in Nat /\ u - 1 \in Nat /\ t - 1 < u - 1  BY <1>1, <1>6
  <2>2. low(t) + b <= low(u)  BY <2>1, Multiples
  <2>3. k \in 1..(high(t) - low(t)) /\ l \in 1..(high(u) - low(u))  BY <1>3, Zenon
  <2>4. low(t) \in Nat /\ low(u) \in Nat /\ high(t) <= low(t) + b /\ high(t) \in 1..n /\ high(u) \in 1..n  BY <1>2
  <2> HIDE DEF low, high, c
  <2> QED  BY <2>2, <2>3, <2>4, <1>6, <1>1
<1>7. ASSUME NEW t \in 1..c, NEW u \in 1..c, NEW k \in DOMAIN cs[t], NEW l \in DOMAIN cs[u],
             low(t) + k = low(u) + l
      PROVE  t = u /\ k = l
  <2>1. t = u
    <3>1. ~(t < u)  BY <1>6, <1>7, Zenon
    <3>2. ~(u < t)  BY <1>6, <1>7
    <3> QED  BY <3>1, <3>2, <1>1
  <2>2. low(t) \in Nat  BY <1>2
  <2>3. k \in 1..(high(t) - low(t)) /\ l \in 1..(high(t) - low(t)) /\ low(t) + k = low(t) + l
    BY <1>3, <2>1, <1>7
  <2>4. high(t) \in 1..n  BY <1>2
  <2> HIDE DEF low, high, c
  <2> QED  BY <2>1, <2>2, <2>3, <2>4, <1>1
<1>8. \A t \in 1..c : cs[t] # <<>> /\ \A k \in DOMAIN cs[t] : low(t) + k \in 1..n /\ cs[t][k] = s[low(t) + k]
  BY <1>3, Zenon
<1> HIDE DEF c
<1>9. cs \in Seq(Seq(D)) /\ Len(cs) \in Nat /\ DOMAIN cs = 1..Len(cs)  BY <1>1, <1>4, Zenon
<1>10. \A t, u \in DOMAIN cs : \A k \in DOMAIN cs[t], l \in DOMAIN cs[u] :
         (t - 1) * b + k = (u - 1) * b + l => t = u /\ k = l
  BY ONLY <1>4, <1>7, Zenon
<1>11. \A x \in 1..Len(s) : \E t \in DOMAIN cs : \E k \in DOMAIN cs[t] : cs[t][k] = s[x]
  BY ONLY <1>4, <1>5, Zenon
<1> HIDE DEF n
<1>12. \A t \in DOMAIN cs :
         /\ cs[t] # <<>>
         /\ \A k \in DOMAIN cs[t] : (t - 1) * b + k \in 1..Len(s) /\ cs[t][k] = s[(t - 1) * b + k]
  BY <1>4, <1>8, Zenon DEF n
<1> QED  BY ONLY <1>9, <1>10, <1>11, <1>12, Zenon DEF ChunksOf

(* The comparisons count and sort as this module does.                     *)
LEMMA ComparisonsAgree ==
  ASSUME NEW X
  PROVE  /\ Compare!Cardinality(X) = Cardinality(X) /\ Compare!InOrder(X) = InOrder(X)
         /\ Compare!IsFiniteSet(X) = IsFiniteSet(X)
<1>1. Compare!Cardinality(X) = Cardinality(X)  BY DEF Compare!Cardinality, Cardinality
<1>2. Compare!InOrder(X) = InOrder(X)
  BY Zenon DEF Compare!InOrder, InOrder, Compare!Cardinality, Cardinality
<1>3. Compare!IsFiniteSet(X) = IsFiniteSet(X)  BY Zenon DEF Compare!IsFiniteSet, IsFiniteSet
<1> QED  BY <1>1, <1>2, <1>3

InputType == [id : Compare!InputIds, access : {"public", "hosted"}, valid : BOOLEAN, ahead : Nat, behind : Nat]

LEMMA InputsAreTyped ==
  ASSUME inputs \in InputLists
  PROVE  /\ inputs \in Seq(InputType) /\ Len(inputs) \in Nat /\ DOMAIN inputs = 1..Len(inputs)
         /\ \A i \in DOMAIN inputs : inputs[i] \in InputType
<1>1. inputs \in Seq(InputType)  BY CompareAssumption, Zenon DEF Compare!CompareAssumption, InputType
<1> QED  BY <1>1

(* Every input is in one place of one task, and a public one alone in it.  *)
Covers(ts) ==
  /\ ts \in Seq(Seq(DOMAIN inputs))
  /\ \A t \in DOMAIN ts :
       ts[t] # <<>> /\ \A k \in DOMAIN ts[t] : inputs[ts[t][k]].access = "public" => Len(ts[t]) = 1
  /\ \A i \in DOMAIN inputs : \E t \in DOMAIN ts : \E k \in DOMAIN ts[t] : ts[t][k] = i
  /\ \A t, u \in DOMAIN ts : \A k \in DOMAIN ts[t], l \in DOMAIN ts[u] :
       ts[t][k] = ts[u][l] => t = u /\ k = l

(* The inputs of one kind, each once. *)
ListsAccess(list, access) ==
  /\ list \in Seq(DOMAIN inputs) /\ Len(list) \in Nat /\ DOMAIN list = 1..Len(list)
  /\ \A k \in DOMAIN list : list[k] \in DOMAIN inputs /\ inputs[list[k]].access = access
  /\ \A i \in DOMAIN inputs : inputs[i].access = access => \E k \in DOMAIN list : list[k] = i
  /\ \A k, l \in DOMAIN list : list[k] = list[l] => k = l

LEMMA WithAccessLists ==
  ASSUME inputs \in InputLists, NEW access
  PROVE  ListsAccess(Compare!WithAccess(access), access)
<1> DEFINE list == Compare!WithAccess(access)
           these == {i \in DOMAIN inputs : inputs[i].access = access}
           n == Cardinality(these)
<1>1. Len(inputs) \in Nat /\ DOMAIN inputs = 1..Len(inputs)  BY InputsAreTyped
<1>2. IsFiniteSet(these) /\ these \in SUBSET Nat
  <2>1. IsFiniteSet(1..Len(inputs))  BY <1>1, FS_Interval
  <2> QED  BY <2>1, <1>1, FS_Subset
<1>3. list = InOrder(these)  BY ComparisonsAgree DEF Compare!WithAccess
<1> HIDE DEF these
<1>4. /\ n \in Nat /\ list \in Seq(these) /\ Len(list) = n
      /\ \A x \in these : \E i \in 1..n : list[i] = x
      /\ \A i \in 1..n : list[i] \in these
      /\ \A i, j \in 1..n : list[i] = list[j] => i = j
  <2> HIDE DEF list
  <2> QED  BY <1>2, <1>3, InOrderLists
<1> HIDE DEF list, n
<1>5. DOMAIN list = 1..n  BY <1>4
<1>6. list \in Seq(DOMAIN inputs)
  <2>1. these \subseteq DOMAIN inputs  BY DEF these
  <2>2. list \in [1..n -> DOMAIN inputs]  BY <1>4, <1>5, <2>1
  <2> QED  BY <2>2, <1>4, FunctionIsList
<1> QED  BY <1>4, <1>5, <1>6 DEF these, list, ListsAccess

LEMMA TasksCover ==
  ASSUME inputs \in InputLists
  PROVE  Covers(Compare!Tasks) /\ (inputs # <<>> => Compare!Tasks # <<>>)
<1> DEFINE D == DOMAIN inputs
           public == Compare!WithAccess("public")
           hosted == Compare!WithAccess("hosted")
           ones == [t \in DOMAIN public |-> <<public[t]>>]
           chunks == [t \in 1..Compare!DivCeil(Len(hosted), ServiceBatch) |->
                        SubSeq(hosted, (t - 1) * ServiceBatch + 1, Compare!Min2(t * ServiceBatch, Len(hosted)))]
           p == Len(public)
           q == Len(chunks)
           place(t, k) == (t - 1) * ServiceBatch + k
<1>1. ServiceBatch \in Nat \ {0}  BY CompareAssumption DEF Compare!CompareAssumption
<1>2. Len(inputs) \in Nat /\ D = 1..Len(inputs) /\ \A i \in D : inputs[i].access \in {"public", "hosted"}
  BY InputsAreTyped DEF InputType
<1>3. /\ public \in Seq(D) /\ p \in Nat /\ DOMAIN public = 1..p
      /\ \A k \in 1..p : public[k] \in D /\ inputs[public[k]].access = "public"
      /\ \A i \in D : inputs[i].access = "public" => \E k \in 1..p : public[k] = i
      /\ \A k, l \in 1..p : public[k] = public[l] => k = l
  <2>1. ListsAccess(public, "public")  BY WithAccessLists
  <2> HIDE DEF public
  <2> QED  BY <2>1 DEF ListsAccess
<1>4. /\ hosted \in Seq(D) /\ Len(hosted) \in Nat /\ DOMAIN hosted = 1..Len(hosted)
      /\ \A k \in 1..Len(hosted) : hosted[k] \in D /\ inputs[hosted[k]].access = "hosted"
      /\ \A i \in D : inputs[i].access = "hosted" => \E k \in 1..Len(hosted) : hosted[k] = i
      /\ \A k, l \in 1..Len(hosted) : hosted[k] = hosted[l] => k = l
  <2>1. ListsAccess(hosted, "hosted")  BY WithAccessLists
  <2> HIDE DEF hosted
  <2> QED  BY <2>1 DEF ListsAccess
<1>5. /\ chunks \in Seq(Seq(D)) /\ q \in Nat /\ DOMAIN chunks = 1..q
      /\ \A t \in 1..q :
           /\ chunks[t] # <<>>
           /\ \A k \in DOMAIN chunks[t] : place(t, k) \in 1..Len(hosted) /\ chunks[t][k] = hosted[place(t, k)]
      /\ \A x \in 1..Len(hosted) : \E t \in 1..q : \E k \in DOMAIN chunks[t] : chunks[t][k] = hosted[x]
      /\ \A t, u \in 1..q : \A k \in DOMAIN chunks[t], l \in DOMAIN chunks[u] :
           place(t, k) = place(u, l) => t = u /\ k = l
  <2>1. hosted \in Seq(D)  BY <1>4
  <2> HIDE DEF hosted, D
  <2>2. ChunksOf(chunks, hosted, ServiceBatch, D)  BY <2>1, <1>1, Chunks
  <2> HIDE DEF chunks
  <2> QED  BY <2>2, Zenon DEF ChunksOf
<1>6. /\ ones \in Seq(Seq(D)) /\ Len(ones) = p
      /\ \A t \in 1..p : ones[t] = <<public[t]>>
  <2>1. \A t \in 1..p : <<public[t]>> \in Seq(D)  BY <1>3
  <2>2. ones \in [1..p -> Seq(D)]  BY <1>3, <2>1
  <2>3. \A t \in 1..p : ones[t] = <<public[t]>>  BY <1>3
  <2> HIDE DEF ones
  <2> QED  BY <2>2, <2>3, <1>3, FunctionIsList, Zenon
<1> DEFINE T == ones \o chunks
<1>7. T = Compare!Tasks  BY DEF Compare!Tasks
<1> HIDE DEF ones, chunks, public, hosted, place, D, T
<1>8. /\ T \in Seq(Seq(D)) /\ Len(T) = p + q
      /\ \A t \in 1..(p + q) : T[t] = IF t <= p THEN ones[t] ELSE chunks[t - p]
  <2> DEFINE E == Seq(D)
  <2>1. ones \in Seq(E) /\ chunks \in Seq(E)  BY <1>5, <1>6
  <2>3. Len(ones) = p /\ Len(chunks) = q  BY <1>6
  <2> HIDE DEF E, p, q
  <2>2. /\ ones \o chunks \in Seq(E) /\ Len(ones \o chunks) = p + q
        /\ \A t \in 1..(p + q) : (ones \o chunks)[t] = IF t <= p THEN ones[t] ELSE chunks[t - p]
    BY ONLY <2>1, <2>3, ConcatProperties, Zenon
  <2> QED  BY <2>2 DEF E, T
<1> HIDE DEF p, q
<1>9. DOMAIN T = 1..(p + q)  BY <1>8, <1>3, <1>5
<1>10. \A t \in 1..p : t \in 1..(p + q) /\ T[t] = <<public[t]>>  BY <1>3, <1>5, <1>6, <1>8
<1>11. \A t \in 1..(p + q) : t <= p => t \in 1..p  BY <1>3
<1>12. \A t \in 1..(p + q) : ~(t <= p) => t - p \in 1..q /\ T[t] = chunks[t - p]
  BY ONLY <1>3, <1>5, <1>8
<1>13. \A t \in 1..q : t + p \in 1..(p + q) /\ T[t + p] = chunks[t]  BY <1>3, <1>5, <1>8
<1>14. ASSUME NEW t \in DOMAIN T
       PROVE  T[t] # <<>> /\ \A k \in DOMAIN T[t] : inputs[T[t][k]].access = "public" => Len(T[t]) = 1
  <2>1. CASE t <= p
    <3>1. T[t] = <<public[t]>>  BY <2>1, <1>9, <1>10, <1>11
    <3> QED  BY <3>1
  <2>2. CASE ~(t <= p)
    <3>1. t - p \in 1..q /\ T[t] = chunks[t - p]  BY <2>2, <1>9, <1>12
    <3>2. T[t] # <<>> /\ \A k \in DOMAIN T[t] : \E x \in 1..Len(hosted) : T[t][k] = hosted[x]
      BY <3>1, <1>5
    <3>3. \A k \in DOMAIN T[t] : inputs[T[t][k]].access = "hosted"  BY <3>2, <1>4
    <3> QED  BY <3>2, <3>3
  <2> QED  BY <2>1, <2>2
<1>15. ASSUME NEW i \in D PROVE \E t \in DOMAIN T : \E k \in DOMAIN T[t] : T[t][k] = i
  <2>1. CASE inputs[i].access = "public"
    <3>1. PICK t \in 1..p : public[t] = i  BY <2>1, <1>3
    <3>2. t \in DOMAIN T /\ T[t] = <<i>>  BY <3>1, <1>9, <1>10
    <3>3. 1 \in DOMAIN T[t] /\ T[t][1] = i  BY <3>2
    <3> QED  BY <3>2, <3>3
  <2>2. CASE inputs[i].access = "hosted"
    <3>1. PICK x \in 1..Len(hosted) : hosted[x] = i  BY <2>2, <1>4
    <3>2. PICK t \in 1..q : \E k \in DOMAIN chunks[t] : chunks[t][k] = hosted[x]  BY <1>5
    <3>3. t + p \in DOMAIN T /\ T[t + p] = chunks[t]  BY <1>9, <1>13
    <3> QED  BY <3>1, <3>2, <3>3
  <2>3. inputs[i].access \in {"public", "hosted"}  BY <1>2 DEF D
  <2> QED  BY <2>1, <2>2, <2>3
<1>16. ASSUME NEW t \in DOMAIN T, NEW u \in DOMAIN T, NEW k \in DOMAIN T[t], NEW l \in DOMAIN T[u],
              T[t][k] = T[u][l]
       PROVE  t = u /\ k = l
  <2>1. CASE t <= p /\ u <= p
    <3>1. T[t] = <<public[t]>> /\ T[u] = <<public[u]>> /\ t \in 1..p /\ u \in 1..p
      BY <2>1, <1>9, <1>10, <1>11
    <3>2. k = 1 /\ l = 1 /\ T[t][1] = public[t] /\ T[u][1] = public[u]  BY <3>1
    <3>3. public[t] = public[u]  BY <3>2, <1>16
    <3> QED  BY <3>1, <3>2, <3>3, <1>3
  <2>2. ASSUME NEW v \in DOMAIN T, NEW m \in DOMAIN T[v], v <= p PROVE inputs[T[v][m]].access = "public"
    <3>1. T[v] = <<public[v]>> /\ v \in 1..p  BY <2>2, <1>9, <1>10, <1>11
    <3>2. m = 1 /\ T[v][m] = public[v]  BY <3>1
    <3> QED  BY <3>1, <3>2, <1>3
  <2>3. ASSUME NEW v \in DOMAIN T, NEW m \in DOMAIN T[v], ~(v <= p)
        PROVE  /\ v - p \in 1..q /\ m \in DOMAIN chunks[v - p]
               /\ place(v - p, m) \in 1..Len(hosted) /\ T[v][m] = hosted[place(v - p, m)]
               /\ inputs[T[v][m]].access = "hosted"
    <3>1. v - p \in 1..q /\ T[v] = chunks[v - p]  BY <2>3, <1>9, <1>12
    <3>2. place(v - p, m) \in 1..Len(hosted) /\ T[v][m] = hosted[place(v - p, m)]  BY <3>1, <1>5, Zenon
    <3> QED  BY <3>1, <3>2, <1>4
  <2>4. CASE t <= p /\ ~(u <= p)
    <3>1. inputs[T[t][k]].access = "public" /\ inputs[T[u][l]].access = "hosted"  BY <2>2, <2>3, <2>4
    <3> QED  BY <3>1, <1>16
  <2>5. CASE ~(t <= p) /\ u <= p
    <3>1. inputs[T[t][k]].access = "hosted" /\ inputs[T[u][l]].access = "public"  BY <2>2, <2>3, <2>5
    <3> QED  BY <3>1, <1>16
  <2>6. CASE ~(t <= p) /\ ~(u <= p)
    <3>1. /\ t - p \in 1..q /\ k \in DOMAIN chunks[t - p] /\ place(t - p, k) \in 1..Len(hosted)
          /\ T[t][k] = hosted[place(t - p, k)]
          /\ u - p \in 1..q /\ l \in DOMAIN chunks[u - p] /\ place(u - p, l) \in 1..Len(hosted)
          /\ T[u][l] = hosted[place(u - p, l)]
      BY <2>3, <2>6
    <3>2. place(t - p, k) = place(u - p, l)  BY <3>1, <1>4, <1>16, Zenon
    <3>3. t - p = u - p /\ k = l  BY <3>1, <3>2, <1>5
    <3> QED  BY <3>3, <1>3, <1>5, <1>9
  <2> QED  BY <2>1, <2>4, <2>5, <2>6
<1>17. Covers(T)  BY <1>8, <1>14, <1>15, <1>16, Zenon DEF Covers, D
<1>18. inputs # <<>> => T # <<>>
  <2>1. inputs # <<>> => 1 \in D
    <3>1. inputs \in Seq(InputType)  BY InputsAreTyped
    <3>2. inputs # <<>> => Len(inputs) # 0  BY <3>1, EmptySeq
    <3> QED  BY <3>2, <1>2
  <2>2. 1 \in D => DOMAIN T # {}  BY <1>15
  <2>3. T = <<>> => DOMAIN T = {}  OBVIOUS
  <2> QED  BY <2>1, <2>2, <2>3
<1> QED  BY <1>7, <1>17, <1>18

-----------------------------------------------------------------------------
(* A worker keeps the task that it drew until it delivers its results.     *)
Working(w) == at[w] \in {"lock", "ask"}
Delivered(t) == t < next /\ \A w \in Workers : Working(w) => drawn[w] # t

Tags == {"ready", "failed", "rate_limited", "not_found", "invalid", "provider"}
Outcomes == [tag : Tags, about : Compare!InputIds, commits : Seq(Nat), total : Nat]

CompareTypes ==
  /\ inputs \in InputLists /\ phase \in {"start", "rejected", "compare", "answered"}
  /\ next \in Nat \ {0}
  /\ at \in [Workers -> {"idle", "draw", "lock", "ask", "done"}] /\ drawn \in [Workers -> Nat]
  /\ results \in Seq(Nat \X Outcomes)

(* No two workers have the same task, and none stops before the last one.  *)
WorkersApart ==
  /\ \A w \in Workers : Working(w) => drawn[w] \in DOMAIN tasks /\ drawn[w] < next
  /\ \A v, w \in Workers : (Working(v) /\ Working(w) /\ drawn[v] = drawn[w]) => v = w
  /\ \A w \in Workers : at[w] = "ask" <=> holder = w
  /\ next > Len(tasks) \/ \E w \in Workers : at[w] # "done"

(* The commits after number a, up to number b; those before page p that    *)
(* are to be shown; all that are to be shown.                              *)
Upto(a, b) == [k \in 1..Compare!Max2(0, b - a) |-> a + k]
Before(total, p) == Upto(Compare!FirstIndex(total), (p - 1) * PerPage)
LastOf(total) ==
  [k \in 1..Compare!Min2(total, MaxCommits) |-> Compare!Max2(0, total - MaxCommits) + k]

(* What outcome o for input i of a list says is right, unless it is bad.   *)
Sound(list, bad, i, o) ==
  /\ o.about = list[i].id
  /\ o.tag = "failed" => i \in bad
  /\ (o.tag = "ready" /\ list[i].access = "public" /\ i \notin bad) =>
       o.total = list[i].ahead /\ o.commits = LastOf(list[i].ahead)

(* Each delivered task has one result for each of its inputs.              *)
ResultsFit ==
  /\ \A r \in DOMAIN results : \E t \in DOMAIN tasks :
       Delivered(t) /\ \E k \in DOMAIN tasks[t] : results[r][1] = tasks[t][k]
  /\ \A r, q \in DOMAIN results : results[r][1] = results[q][1] => r = q
  /\ \A t \in DOMAIN tasks : Delivered(t) =>
       \A k \in DOMAIN tasks[t] : \E r \in DOMAIN results : results[r][1] = tasks[t][k]
  /\ \A r \in DOMAIN results : Sound(inputs, spoiled, results[r][1], results[r][2])

(* As long as the pages are the true ones, what was read of them are the   *)
(* commits to show, up to the page to read.                                *)
JobType ==
  [page : Nat \ {0}, retries : Nat, first : Compare!PageType \cup {None}, commits : Seq(Nat), honest : BOOLEAN]
PagesFit(one, total) ==
  IF one.first = None THEN one.page = 1 /\ one.commits = <<>>
  ELSE /\ one.first.ahead = total /\ one.commits = Before(total, one.page)
       /\ one.page \in Compare!FirstPage(total)..Compare!LastPage(total)
JobFits ==
  /\ job \in JobType
  /\ \A w \in Workers :
       (at[w] = "ask" /\ job.honest /\ Compare!IsPublic(w)) => PagesFit(job, inputs[Compare!Task(w)[1]].ahead)

AnswerFits ==
  /\ Len(answer) = Len(inputs) /\ DOMAIN answer = DOMAIN inputs
  /\ \A i \in DOMAIN inputs : Sound(inputs, spoiled, i, answer[i])

CompareInv ==
  /\ CompareTypes
  /\ phase = "start" =>
       next = 1 /\ holder = None /\ results = <<>> /\ job = Compare!NoJob
  /\ phase \in {"start", "rejected"} => \A w \in Workers : at[w] = "idle"
  /\ phase = "compare" => Covers(tasks) /\ WorkersApart /\ ResultsFit /\ JobFits
  /\ phase = "answered" => AnswerFits /\ \A w \in Workers : at[w] = "done"
  /\ phase # "answered" => answer = <<>>

(* It is what the property asks for. *)
LEMMA CompareSafe ==
  CompareInv => Compare!AnswersMatch /\ Compare!FailuresStayLocal /\ Compare!LatestCommits
<1> SUFFICES ASSUME CompareInv
             PROVE  Compare!AnswersMatch /\ Compare!FailuresStayLocal /\ Compare!LatestCommits
  OBVIOUS
<1>1. phase # "incomplete"  BY DEF CompareInv, CompareTypes
<1>2. \A i \in DOMAIN answer : phase = "answered" /\ i \in DOMAIN inputs /\ Sound(inputs, spoiled, i, answer[i])
  <2>1. CASE phase = "answered"  BY <2>1 DEF CompareInv, AnswerFits
  <2>2. CASE phase # "answered"
    <3>1. answer = <<>>  BY <2>2 DEF CompareInv
    <3> QED  BY <3>1
  <2> QED  BY <2>1, <2>2
<1>3. Compare!AnswersMatch  BY <1>1 DEF CompareInv, AnswerFits, Sound, Compare!AnswersMatch
<1>4. Compare!FailuresStayLocal  BY <1>2 DEF Sound, Compare!FailuresStayLocal
<1>5. Compare!LatestCommits  BY <1>2, Zenon DEF Sound, LastOf, Compare!LatestCommits
<1> QED  BY <1>3, <1>4, <1>5

LEMMA CompareInit == Compare!Init => CompareInv
<1> SUFFICES ASSUME Compare!Init PROVE CompareInv  OBVIOUS
<1>1. CompareTypes
  <2>1. results = <<>> /\ <<>> \in Seq(Nat \X Outcomes)  BY EmptySeq DEF Compare!Init
  <2> QED  BY <2>1, EmptySeq DEF Compare!Init, CompareTypes
<1> QED  BY <1>1 DEF Compare!Init, CompareInv

(* A worker that waits or asks does so while commits are compared.         *)
LEMMA WhileComparing ==
  ASSUME CompareInv, NEW w \in Workers, at[w] \notin {"idle", "done"}
  PROVE  phase = "compare" /\ Covers(tasks) /\ WorkersApart /\ ResultsFit /\ JobFits
BY DEF CompareInv, CompareTypes

LEMMA SoundGrows ==
  ASSUME NEW list, NEW bad, NEW more, bad \subseteq more, NEW i, NEW o, Sound(list, bad, i, o)
  PROVE  Sound(list, more, i, o)
BY DEF Sound

(* The task of a worker that asks, and its inputs.                         *)
LEMMA TaskInputs ==
  ASSUME CompareInv, NEW w \in Workers, at[w] = "ask"
  PROVE  /\ Compare!Task(w) \in Seq(DOMAIN inputs) /\ Compare!Task(w) # <<>> /\ Len(Compare!Task(w)) \in Nat
         /\ DOMAIN Compare!Task(w) = 1..Len(Compare!Task(w)) /\ 1 \in DOMAIN Compare!Task(w)
         /\ \A k \in DOMAIN Compare!Task(w) :
              /\ Compare!Task(w)[k] \in DOMAIN inputs /\ inputs[Compare!Task(w)[k]] \in InputType
              /\ inputs[Compare!Task(w)[k]].access = "public" => Len(Compare!Task(w)) = 1
<1> DEFINE T == Compare!Task(w)
<1>1. Covers(tasks) /\ WorkersApart  BY WhileComparing
<1>2. drawn[w] \in DOMAIN tasks  BY <1>1 DEF WorkersApart, Working
<1>3. /\ T \in Seq(DOMAIN inputs) /\ T # <<>>
      /\ \A k \in DOMAIN T : inputs[T[k]].access = "public" => Len(T) = 1
  BY <1>1, <1>2 DEF Covers, Compare!Task
<1>4. inputs \in InputLists  BY DEF CompareInv, CompareTypes
<1> HIDE DEF T
<1>5. Len(T) \in Nat /\ DOMAIN T = 1..Len(T) /\ Len(T) # 0 /\ \A k \in DOMAIN T : T[k] \in DOMAIN inputs
  BY <1>3, EmptySeq
<1>6. \A k \in DOMAIN T : inputs[T[k]] \in InputType  BY <1>4, <1>5, InputsAreTyped
<1> QED  BY <1>3, <1>5, <1>6 DEF T

(* One outcome for each input of the task, and the next task is drawn.     *)
LEMMA DeliverKeeps ==
  ASSUME CompareInv, NEW w \in Workers, at[w] = "ask", NEW outcomes, Compare!Deliver(w, outcomes),
         spoiled \subseteq spoiled',
         \A k \in DOMAIN Compare!Task(w) :
           outcomes[k] \in Outcomes /\ Sound(inputs, spoiled', Compare!Task(w)[k], outcomes[k])
  PROVE  CompareInv'
<1> DEFINE t0 == drawn[w]  T == tasks[t0]  n == Len(results)
           new == [k \in DOMAIN T |-> <<T[k], outcomes[k]>>]
<1>1. phase = "compare" /\ Covers(tasks) /\ WorkersApart /\ ResultsFit /\ JobFits /\ CompareTypes /\ answer = <<>>
  <2>1. at[w] \notin {"idle", "done"}  OBVIOUS
  <2>2. phase = "compare" /\ Covers(tasks) /\ WorkersApart /\ ResultsFit /\ JobFits  BY <2>1, WhileComparing
  <2> QED  BY <2>2 DEF CompareInv
<1>2. /\ results' = results \o new
      /\ holder' = None /\ at' = [at EXCEPT ![w] = "draw"] /\ job' = Compare!NoJob
      /\ UNCHANGED <<inputs, account, stopped, phase, tasks, next, drawn, answer>>
  BY DEF Compare!Deliver, Compare!Task
<1>3. /\ at \in [Workers -> {"idle", "draw", "lock", "ask", "done"}] /\ drawn \in [Workers -> Nat]
      /\ results \in Seq(Nat \X Outcomes) /\ inputs \in InputLists /\ next \in Nat \ {0}
  BY <1>1 DEF CompareTypes
<1>4. Working(w) /\ t0 \in DOMAIN tasks /\ t0 < next  BY <1>1 DEF Working, WorkersApart
<1>5. \A t \in DOMAIN tasks : /\ t \in Nat /\ tasks[t] \in Seq(DOMAIN inputs) /\ Len(tasks[t]) \in Nat
                              /\ DOMAIN tasks[t] = 1..Len(tasks[t])
  BY <1>1 DEF Covers
<1>6. DOMAIN inputs \subseteq Nat  BY <1>3, InputsAreTyped
<1>7. T \in Seq(DOMAIN inputs) /\ Len(T) \in Nat /\ DOMAIN T = 1..Len(T) /\ n \in Nat /\ DOMAIN results = 1..n
  BY <1>3, <1>4, <1>5
<1>8. \A k \in DOMAIN T : outcomes[k] \in Outcomes /\ Sound(inputs, spoiled', T[k], outcomes[k])
  BY DEF Compare!Task
<1> HIDE DEF T, n
<1>9. new \in Seq(Nat \X Outcomes) /\ Len(new) = Len(T)
  <2>1. \A k \in 1..Len(T) : <<T[k], outcomes[k]>> \in Nat \X Outcomes
    BY <1>6, <1>7, <1>8
  <2>2. new \in [1..Len(T) -> Nat \X Outcomes]  BY <1>7, <2>1
  <2> DEFINE E == Nat \X Outcomes
  <2> HIDE DEF new, E
  <2>3. new \in [1..Len(T) -> E]  BY <2>2 DEF E
  <2>4. new \in Seq(E) /\ Len(new) = Len(T)  BY <2>3, <1>7, FunctionIsList
  <2> QED  BY <2>4 DEF E
<1>10. /\ results' \in Seq(Nat \X Outcomes) /\ DOMAIN results' = 1..(n + Len(T))
       /\ \A r \in 1..n : r \in 1..(n + Len(T)) /\ results'[r] = results[r]
       /\ \A k \in 1..Len(T) : n + k \in 1..(n + Len(T)) /\ results'[n + k] = <<T[k], outcomes[k]>>
       /\ \A r \in 1..(n + Len(T)) : r \in 1..n \/ \E k \in 1..Len(T) : r = n + k
  <2> DEFINE E == Nat \X Outcomes
  <2>1. results \in Seq(E) /\ new \in Seq(E) /\ Len(results) = n /\ Len(new) = Len(T)  BY <1>3, <1>9 DEF n
  <2>2. \A k \in 1..Len(T) : new[k] = <<T[k], outcomes[k]>>  BY <1>7
  <2> HIDE DEF E, new
  <2>3. /\ results \o new \in Seq(E) /\ Len(results \o new) = n + Len(T)
        /\ \A i \in 1..(n + Len(T)) : (results \o new)[i] = IF i <= n THEN results[i] ELSE new[i - n]
    BY ONLY <2>1, ConcatProperties
  <2>4. results' \in Seq(E) /\ DOMAIN results' = 1..(n + Len(T))
    BY <2>3, <1>2, <1>7
  <2>5. \A r \in 1..n : r \in 1..(n + Len(T)) /\ results'[r] = results[r]
    BY ONLY <2>3, <1>2, <1>7
  <2>6. \A k \in 1..Len(T) : n + k \in 1..(n + Len(T)) /\ results'[n + k] = <<T[k], outcomes[k]>>
    <3> SUFFICES ASSUME NEW k \in 1..Len(T)
                 PROVE  n + k \in 1..(n + Len(T)) /\ results'[n + k] = <<T[k], outcomes[k]>>
      OBVIOUS
    <3>1. n + k \in 1..(n + Len(T)) /\ ~(n + k <= n) /\ (n + k) - n = k  BY <1>7
    <3> QED  BY <3>1, <2>2, <2>3, <1>2, Zenon
  <2>7. \A r \in 1..(n + Len(T)) : r \in 1..n \/ \E k \in 1..Len(T) : r = n + k
    <3> SUFFICES ASSUME NEW r \in 1..(n + Len(T)), r \notin 1..n PROVE \E k \in 1..Len(T) : r = n + k
      OBVIOUS
    <3>1. r - n \in 1..Len(T) /\ r = n + (r - n)  BY <1>7
    <3> QED  BY <3>1
  <2> QED  BY <2>4, <2>5, <2>6, <2>7 DEF E
<1> HIDE DEF new
<1>11. \A v \in Workers : (Working(v))' <=> Working(v) /\ v # w
  BY <1>2, <1>3 DEF Working
<1>12. \A t \in DOMAIN tasks : Delivered(t)' <=> Delivered(t) \/ t = t0
  <2> SUFFICES ASSUME NEW t \in DOMAIN tasks PROVE Delivered(t)' <=> Delivered(t) \/ t = t0  OBVIOUS
  <2>1. Delivered(t)' <=> t < next /\ \A v \in Workers : (Working(v) /\ v # w) => drawn[v] # t
    BY <1>2, <1>11 DEF Delivered
  <2>2. \A v \in Workers : Working(v) /\ v # w => drawn[v] # t0  BY <1>1, <1>4 DEF WorkersApart
  <2> QED  BY <2>1, <2>2, <1>4 DEF Delivered
<1>13. ~Delivered(t0)  BY <1>4 DEF Delivered
<1>14. CompareTypes'
  BY <1>1, <1>2, <1>3, <1>10 DEF CompareTypes
<1>15. WorkersApart'
  <2>1. \A v \in Workers : Working(v)' => drawn'[v] \in DOMAIN tasks' /\ drawn'[v] < next'
    BY <1>1, <1>2, <1>11 DEF WorkersApart
  <2>2. \A u, v \in Workers : (Working(u)' /\ Working(v)' /\ drawn'[u] = drawn'[v]) => u = v
    BY <1>1, <1>2, <1>11 DEF WorkersApart
  <2>3. holder = w  BY <1>1 DEF WorkersApart
  <2>4. \A v \in Workers : at'[v] # "ask"  BY <1>1, <1>2, <1>3, <2>3 DEF WorkersApart
  <2>5. \A v \in Workers : holder' # v  BY <1>2, CompareAssumption DEF Compare!CompareAssumption
  <2>6. at'[w] # "done"  BY <1>2, <1>3
  <2> QED  BY <2>1, <2>2, <2>4, <2>5, <2>6 DEF WorkersApart
<1>16. ResultsFit'
  <2>1. ASSUME NEW r \in DOMAIN results'
        PROVE  \E t \in DOMAIN tasks : Delivered(t)' /\ \E k \in DOMAIN tasks[t] : results'[r][1] = tasks[t][k]
    <3>1. CASE r \in 1..n
      <4>1. r \in DOMAIN results /\ results'[r] = results[r]  BY <3>1, <1>7, <1>10
      <4>2. PICK t \in DOMAIN tasks : Delivered(t) /\ \E k \in DOMAIN tasks[t] : results[r][1] = tasks[t][k]
        BY <4>1, <1>1 DEF ResultsFit
      <4> QED  BY <4>1, <4>2, <1>12
    <3>2. ASSUME NEW k \in 1..Len(T), r = n + k
          PROVE  \E t \in DOMAIN tasks : Delivered(t)' /\ \E l \in DOMAIN tasks[t] : results'[r][1] = tasks[t][l]
      <4>1. results'[r][1] = T[k] /\ k \in DOMAIN T  BY <3>2, <1>10, <1>7
      <4> QED  BY <4>1, <1>4, <1>12 DEF T
    <3> QED  BY <3>1, <3>2, <1>10
  <2>2. ASSUME NEW r \in 1..n, NEW k \in 1..Len(T), results'[r][1] = results'[n + k][1] PROVE FALSE
    <3>1. r \in DOMAIN results /\ results'[r] = results[r] /\ results'[n + k][1] = T[k] /\ k \in DOMAIN T
      BY <1>7, <1>10
    <3>2. PICK t \in DOMAIN tasks : Delivered(t) /\ \E l \in DOMAIN tasks[t] : results[r][1] = tasks[t][l]
      BY <3>1, <1>1 DEF ResultsFit
    <3>3. t = t0  BY <3>1, <3>2, <2>2, <1>1, <1>4 DEF Covers, T
    <3> QED  BY <3>2, <3>3, <1>13
  <2>3. ASSUME NEW r \in DOMAIN results', NEW q \in DOMAIN results', results'[r][1] = results'[q][1]
        PROVE  r = q
    <3>1. CASE r \in 1..n /\ q \in 1..n
      <4>1. results'[r] = results[r] /\ results'[q] = results[q] /\ r \in DOMAIN results /\ q \in DOMAIN results
        BY <3>1, <1>7, <1>10
      <4> QED  BY <4>1, <2>3, <1>1 DEF ResultsFit
    <3>2. ASSUME NEW k \in 1..Len(T), NEW l \in 1..Len(T), r = n + k, q = n + l PROVE r = q
      <4>1. T[k] = T[l] /\ k \in DOMAIN T /\ l \in DOMAIN T  BY <3>2, <2>3, <1>7, <1>10
      <4>2. k = l  BY <4>1, <1>1, <1>4 DEF Covers, T
      <4> QED  BY <4>2, <3>2
    <3>3. ASSUME NEW k \in 1..Len(T), q = n + k, r \in 1..n PROVE FALSE  BY <3>3, <2>2, <2>3
    <3>4. ASSUME NEW k \in 1..Len(T), r = n + k, q \in 1..n PROVE FALSE  BY <3>4, <2>2, <2>3
    <3>5. r \in 1..n \/ \E k \in 1..Len(T) : r = n + k  BY <1>10
    <3>6. q \in 1..n \/ \E k \in 1..Len(T) : q = n + k  BY <1>10
    <3> QED  BY <3>1, <3>2, <3>3, <3>4, <3>5, <3>6
  <2>4. ASSUME NEW t \in DOMAIN tasks, Delivered(t)', NEW k \in DOMAIN tasks[t]
        PROVE  \E r \in DOMAIN results' : results'[r][1] = tasks[t][k]
    <3>1. CASE t = t0
      <4>1. k \in 1..Len(T) /\ tasks[t][k] = T[k]  BY <3>1, <1>7 DEF T
      <4>2. n + k \in DOMAIN results' /\ results'[n + k][1] = T[k]  BY <4>1, <1>10
      <4> QED  BY <4>1, <4>2
    <3>2. CASE t # t0
      <4>1. Delivered(t)  BY <3>2, <2>4, <1>12
      <4>2. PICK r \in DOMAIN results : results[r][1] = tasks[t][k]  BY <4>1, <1>1 DEF ResultsFit
      <4>3. r \in DOMAIN results' /\ results'[r] = results[r]  BY <1>7, <1>10
      <4> QED  BY <4>2, <4>3
    <3> QED  BY <3>1, <3>2
  <2>5. ASSUME NEW r \in DOMAIN results' PROVE Sound(inputs, spoiled', results'[r][1], results'[r][2])
    <3>1. CASE r \in 1..n
      <4>1. results'[r] = results[r] /\ r \in DOMAIN results  BY <3>1, <1>7, <1>10
      <4>2. Sound(inputs, spoiled, results[r][1], results[r][2])  BY <4>1, <1>1 DEF ResultsFit
      <4> QED  BY <4>1, <4>2, SoundGrows
    <3>2. ASSUME NEW k \in 1..Len(T), r = n + k
          PROVE  Sound(inputs, spoiled', results'[r][1], results'[r][2])
      <4>1. results'[r][1] = T[k] /\ results'[r][2] = outcomes[k] /\ k \in DOMAIN T  BY <3>2, <1>7, <1>10
      <4> QED  BY <4>1, <1>8
    <3> QED  BY <3>1, <3>2, <1>10
  <2>6. inputs' = inputs /\ tasks' = tasks  BY <1>2
  <2> QED  BY <2>1, <2>3, <2>4, <2>5, <2>6 DEF ResultsFit
<1>17. JobFits'
  <2>1. Compare!NoJob \in JobType  BY EmptySeq DEF Compare!NoJob, JobType
  <2>2. \A v \in Workers : at'[v] # "ask"
    BY <1>1, <1>2, <1>3 DEF WorkersApart
  <2> QED  BY <1>2, <2>1, <2>2 DEF JobFits
<1>18. Covers(tasks)'  BY <1>1, <1>2 DEF Covers
<1> QED  BY <1>1, <1>2, <1>14, <1>15, <1>16, <1>17, <1>18 DEF CompareInv

LEMMA OutcomeTyped ==
  ASSUME NEW tag \in Tags, NEW about \in Compare!InputIds
  PROVE  Compare!Outcome(tag, about, <<>>, 0) \in Outcomes
<1>1. <<>> \in Seq(Nat)  BY EmptySeq
<1> QED  BY <1>1 DEF Outcomes, Compare!Outcome

LEMMA PlainTyped ==
  ASSUME NEW tag \in Tags, NEW i, inputs[i].id \in Compare!InputIds
  PROVE  Compare!Plain(tag, i) \in Outcomes
BY OutcomeTyped DEF Compare!Plain

(* A task that fails is counted for each of its inputs.                    *)
LEMMA TaskFailsKeeps ==
  ASSUME CompareInv, NEW w \in Workers, at[w] = "ask", Compare!TaskFails(w)
  PROVE  CompareInv'
<1> DEFINE T == Compare!Task(w)  outcomes == [k \in DOMAIN T |-> Compare!Plain("failed", T[k])]
<1>1. Compare!Deliver(w, outcomes) /\ spoiled' = spoiled \cup Compare!ToSet(T)
  BY DEF Compare!TaskFails
<1>2. \A k \in DOMAIN T : T[k] \in Compare!ToSet(T)  BY DEF Compare!ToSet
<1>3. \A k \in DOMAIN T : inputs[T[k]].id \in Compare!InputIds  BY TaskInputs DEF InputType
<1>4. \A k \in DOMAIN T : outcomes[k] \in Outcomes /\ Sound(inputs, spoiled', T[k], outcomes[k])
  <2> SUFFICES ASSUME NEW k \in DOMAIN T
               PROVE  outcomes[k] \in Outcomes /\ Sound(inputs, spoiled', T[k], outcomes[k])
    OBVIOUS
  <2>1. outcomes[k] = [tag |-> "failed", about |-> inputs[T[k]].id, commits |-> <<>>, total |-> 0]
    BY DEF Compare!Plain, Compare!Outcome
  <2>2. outcomes[k] \in Outcomes
    <3>1. inputs[T[k]].id \in Compare!InputIds /\ outcomes[k] = Compare!Plain("failed", T[k])  BY <1>3
    <3>2. "failed" \in Tags  BY DEF Tags
    <3>3. Compare!Plain("failed", T[k]) \in Outcomes  BY <3>1, <3>2, PlainTyped
    <3> QED  BY <3>1, <3>3
  <2> HIDE DEF outcomes, T
  <2>3. Sound(inputs, spoiled', T[k], outcomes[k])  BY <1>1, <1>2, <2>1 DEF Sound
  <2> QED  BY <2>2, <2>3
<1> HIDE DEF outcomes
<1> QED  BY <1>1, <1>4, DeliverKeeps, Zenon

(* The steps that keep the results: the workers stay apart, and the job is *)
(* that of the worker that asks.                                           *)
LEMMA DeliveredIsEnough ==
  ASSUME ResultsFit, UNCHANGED <<inputs, tasks, spoiled, results>>,
         \A t \in DOMAIN tasks : Delivered(t)' <=> Delivered(t)
  PROVE  ResultsFit'
BY DEF ResultsFit

LEMMA StartKeeps ==
  ASSUME CompareInv, Compare!Start
  PROVE  CompareInv'
<1>1. /\ phase = "start" /\ inputs \in InputLists /\ next = 1 /\ holder = None /\ results = <<>>
      /\ job = Compare!NoJob /\ answer = <<>> /\ \A w \in Workers : at[w] = "idle"
      /\ UNCHANGED <<inputs, next, drawn, holder, job, results, answer, spoiled>>
  BY DEF CompareInv, CompareTypes, Compare!Start
<1>2. CASE ~Compare!MayCompare
  <2>1. phase' = "rejected" /\ UNCHANGED <<tasks, at>>  BY <1>2 DEF Compare!Start
  <2>2. CompareTypes'  BY <1>1, <2>1 DEF CompareInv, CompareTypes
  <2> QED  BY <1>1, <2>1, <2>2 DEF CompareInv
<1>3. CASE Compare!MayCompare
  <2>1. phase' = "compare" /\ tasks' = Compare!Tasks  BY <1>3 DEF Compare!Start
  <2>2. PICK started \in SUBSET Workers :
          /\ Compare!Cardinality(started) = Compare!Min2(Compare!Cardinality(Workers), Len(Compare!Tasks))
          /\ at' = [w \in Workers |-> IF w \in started THEN "draw" ELSE "done"]
    BY <1>3 DEF Compare!Start
  <2>3. inputs # <<>>
    <3>1. Len(inputs) # 0  BY <1>1, <1>3, InputsAreTyped DEF Compare!MayCompare
    <3> QED  BY <3>1
  <2>4. Covers(tasks') /\ tasks' # <<>>  BY <1>1, <2>1, <2>3, TasksCover
  <2>5. Covers(tasks)'  BY <1>1, <2>4 DEF Covers
  <2>6. Len(tasks') \in Nat /\ Len(tasks') > 0
    <3>1. tasks' \in Seq(Seq(DOMAIN inputs))  BY <2>4 DEF Covers
    <3> DEFINE E == Seq(DOMAIN inputs)
    <3>2. tasks' \in Seq(E)  BY <3>1
    <3> HIDE DEF E
    <3>3. Len(tasks') \in Nat /\ Len(tasks') # 0  BY <3>2, <2>4, EmptySeq
    <3> QED  BY <3>3
  <2>7. started # {}
    <3>1. IsFiniteSet(Workers) /\ Workers # {}
      BY CompareAssumption, ComparisonsAgree DEF Compare!CompareAssumption
    <3>2. Cardinality(Workers) \in Nat /\ Cardinality(Workers) # 0
      BY <3>1, FS_CardinalityType, FS_EmptySet
    <3>3. Cardinality(started) = Compare!Min2(Cardinality(Workers), Len(tasks'))
      BY <2>1, <2>2, ComparisonsAgree
    <3>4. Cardinality(started) # 0  BY <3>2, <3>3, <2>6 DEF Compare!Min2
    <3> QED  BY <3>4, FS_EmptySet
  <2>8. /\ at' \in [Workers -> {"idle", "draw", "lock", "ask", "done"}]
        /\ \A w \in Workers : ~Working(w)' /\ at'[w] # "ask"
        /\ \E w \in Workers : at'[w] # "done"
    BY <2>2, <2>7 DEF Working
  <2>9. CompareTypes'  BY <1>1, <2>1, <2>8 DEF CompareInv, CompareTypes
  <2>10. WorkersApart'
    <3>1. \A w \in Workers : holder' # w  BY <1>1, CompareAssumption DEF Compare!CompareAssumption
    <3> QED  BY <2>8, <3>1 DEF WorkersApart
  <2>11. ResultsFit'
    <3>1. results' = <<>> /\ next' = 1  BY <1>1
    <3>2. \A t \in DOMAIN tasks' : ~Delivered(t)'
      <4>1. DOMAIN tasks' = 1..Len(tasks')
        <5> DEFINE E == Seq(DOMAIN inputs)
        <5>1. tasks' \in Seq(E)  BY <2>4 DEF Covers
        <5> HIDE DEF E
        <5> QED  BY <5>1
      <4> QED  BY <3>1, <4>1, <2>6 DEF Delivered
    <3> QED  BY <3>1, <3>2 DEF ResultsFit
  <2>12. JobFits'
    <3>1. Compare!NoJob \in JobType  BY EmptySeq DEF Compare!NoJob, JobType
    <3> QED  BY <3>1, <1>1, <2>8 DEF JobFits
  <2> QED  BY <1>1, <2>1, <2>5, <2>9, <2>10, <2>11, <2>12 DEF CompareInv
<1> QED  BY <1>2, <1>3

LEMMA DrawKeeps ==
  ASSUME CompareInv, NEW w \in Workers, Compare!Draw(w)
  PROVE  CompareInv'
<1>1. /\ at[w] = "draw" /\ next' = next + 1
      /\ UNCHANGED <<inputs, account, tasks, spoiled, stopped, phase, holder, job, results, answer>>
  BY DEF Compare!Draw, Compare!calls
<1>2. phase = "compare" /\ Covers(tasks) /\ WorkersApart /\ ResultsFit /\ JobFits
  BY <1>1, WhileComparing
<1>3. /\ at \in [Workers -> {"idle", "draw", "lock", "ask", "done"}] /\ drawn \in [Workers -> Nat]
      /\ next \in Nat \ {0}
  BY DEF CompareInv, CompareTypes
<1>4. ~Working(w) /\ Len(tasks) \in Nat /\ DOMAIN tasks = 1..Len(tasks)
  <2> DEFINE E == Seq(DOMAIN inputs)
  <2>1. tasks \in Seq(E)  BY <1>2 DEF Covers
  <2> HIDE DEF E
  <2> QED  BY <2>1, <1>1 DEF Working
<1>5. CASE next <= Len(tasks)
  <2>1. at' = [at EXCEPT ![w] = "lock"] /\ drawn' = [drawn EXCEPT ![w] = next]
    BY <1>5 DEF Compare!Draw
  <2>2. CompareTypes'  BY <1>1, <1>3, <2>1 DEF CompareInv, CompareTypes
  <2>3. /\ \A v \in Workers : Working(v)' <=> Working(v) \/ v = w
        /\ \A v \in Workers : v # w => drawn'[v] = drawn[v] /\ at'[v] = at[v]
        /\ drawn'[w] = next /\ at'[w] = "lock"
    BY <2>1, <1>3 DEF Working
  <2>4. WorkersApart'
    <3>1. \A v \in Workers : Working(v)' => drawn'[v] \in DOMAIN tasks' /\ drawn'[v] < next'
      BY <1>1, <1>2, <1>3, <1>4, <1>5, <2>3 DEF WorkersApart
    <3>2. \A v \in Workers : Working(v) => drawn[v] # next
      BY <1>2, <1>3 DEF WorkersApart
    <3>3. \A u, v \in Workers : (Working(u)' /\ Working(v)' /\ drawn'[u] = drawn'[v]) => u = v
      BY <1>2, <2>3, <3>2 DEF WorkersApart
    <3>4. \A v \in Workers : at'[v] = "ask" <=> holder' = v
      BY <1>1, <1>2, <2>3 DEF WorkersApart
    <3> QED  BY <3>1, <3>3, <3>4, <2>3 DEF WorkersApart
  <2>5. \A t \in DOMAIN tasks : Delivered(t)' <=> Delivered(t)
    <3> SUFFICES ASSUME NEW t \in DOMAIN tasks PROVE Delivered(t)' <=> Delivered(t)  OBVIOUS
    <3>1. t \in Nat  BY <1>4
    <3>2. Delivered(t)' <=> t < next + 1 /\ t # next /\ \A v \in Workers : (Working(v) /\ v # w) => drawn[v] # t
      BY <1>1, <2>3 DEF Delivered
    <3>3. Delivered(t) <=> t < next /\ \A v \in Workers : (Working(v) /\ v # w) => drawn[v] # t
      BY <1>4 DEF Delivered
    <3>4. t < next <=> t < next + 1 /\ t # next  BY <3>1, <1>3
    <3> QED  BY <3>2, <3>3, <3>4
  <2>6. ResultsFit'  BY <1>1, <1>2, <2>5, DeliveredIsEnough
  <2>7. JobFits'
    <3>1. \A v \in Workers : at'[v] = "ask" => at[v] = "ask" /\ Compare!Task(v)' = Compare!Task(v)
      BY <1>1, <2>3 DEF Compare!Task
    <3> QED  BY <1>1, <1>2, <3>1 DEF JobFits, Compare!IsPublic
  <2>8. Covers(tasks)'  BY <1>1, <1>2 DEF Covers
  <2> QED  BY <1>1, <1>2, <2>2, <2>4, <2>6, <2>7, <2>8 DEF CompareInv
<1>6. CASE ~(next <= Len(tasks))
  <2>1. at' = [at EXCEPT ![w] = "done"] /\ drawn' = drawn  BY <1>6 DEF Compare!Draw
  <2>2. CompareTypes'  BY <1>1, <1>3, <2>1 DEF CompareInv, CompareTypes
  <2>3. /\ \A v \in Workers : Working(v)' <=> Working(v)
        /\ \A v \in Workers : at'[v] = "ask" <=> at[v] = "ask"
    BY <1>1, <2>1, <1>3 DEF Working
  <2>4. next' > Len(tasks)  BY <1>1, <1>3, <1>4, <1>6
  <2>5. WorkersApart'
    <3>1. \A v \in Workers : Working(v)' => drawn'[v] \in DOMAIN tasks' /\ drawn'[v] < next'
      BY <1>1, <1>2, <1>3, <1>4, <2>1, <2>3 DEF WorkersApart
    <3>2. \A u, v \in Workers : (Working(u)' /\ Working(v)' /\ drawn'[u] = drawn'[v]) => u = v
      BY <1>2, <2>1, <2>3 DEF WorkersApart
    <3>3. \A v \in Workers : at'[v] = "ask" <=> holder' = v  BY <1>1, <1>2, <2>3 DEF WorkersApart
    <3> QED  BY <3>1, <3>2, <3>3, <2>4, <1>1 DEF WorkersApart
  <2>6. \A t \in DOMAIN tasks : Delivered(t)' <=> Delivered(t)
    BY <1>1, <1>3, <1>4, <1>6, <2>1, <2>3 DEF Delivered
  <2>7. ResultsFit'  BY <1>1, <1>2, <2>6, DeliveredIsEnough
  <2>8. JobFits'  BY <1>1, <1>2, <2>1, <2>3 DEF JobFits, Compare!IsPublic, Compare!Task
  <2>9. Covers(tasks)'  BY <1>1, <1>2 DEF Covers
  <2> QED  BY <1>1, <1>2, <2>2, <2>5, <2>7, <2>8, <2>9 DEF CompareInv
<1> QED  BY <1>5, <1>6

LEMMA LockKeeps ==
  ASSUME CompareInv, NEW w \in Workers, Compare!Lock(w)
  PROVE  CompareInv'
<1>1. /\ at[w] = "lock" /\ holder = None /\ holder' = w /\ at' = [at EXCEPT ![w] = "ask"]
      /\ job' = Compare!NoJob
      /\ UNCHANGED <<inputs, account, tasks, spoiled, stopped, phase, next, drawn, results, answer>>
  BY DEF Compare!Lock, Compare!calls
<1>2. phase = "compare" /\ Covers(tasks) /\ WorkersApart /\ ResultsFit /\ JobFits
  BY <1>1, WhileComparing
<1>3. at \in [Workers -> {"idle", "draw", "lock", "ask", "done"}]  BY DEF CompareInv, CompareTypes
<1>4. /\ \A v \in Workers : Working(v)' <=> Working(v)
      /\ \A v \in Workers : v # w => at'[v] = at[v]
      /\ at'[w] = "ask"
  BY <1>1, <1>3 DEF Working
<1>5. CompareTypes'  BY <1>1, <1>3 DEF CompareInv, CompareTypes
<1>6. WorkersApart'
  <2>1. \A v \in Workers : at[v] # "ask"
    BY <1>1, <1>2, CompareAssumption DEF WorkersApart, Compare!CompareAssumption
  <2>2. \A v \in Workers : at'[v] = "ask" <=> holder' = v  BY <1>1, <1>4, <2>1
  <2>3. at'[w] # "done"  BY <1>4
  <2> QED  BY <1>1, <1>2, <1>4, <2>2, <2>3 DEF WorkersApart
<1>7. \A t \in DOMAIN tasks : Delivered(t)' <=> Delivered(t)  BY <1>1, <1>4 DEF Delivered
<1>8. ResultsFit'  BY <1>1, <1>2, <1>7, DeliveredIsEnough
<1>9. JobFits'
  <2>1. Compare!NoJob \in JobType /\ Compare!NoJob.first = None /\ Compare!NoJob.page = 1
        /\ Compare!NoJob.commits = <<>>
    BY EmptySeq DEF Compare!NoJob, JobType
  <2>2. \A total : PagesFit(Compare!NoJob, total)  BY <2>1 DEF PagesFit
  <2> QED  BY <1>1, <2>1, <2>2 DEF JobFits
<1>10. Covers(tasks)'  BY <1>1, <1>2 DEF Covers
<1> QED  BY <1>1, <1>2, <1>5, <1>6, <1>8, <1>9, <1>10 DEF CompareInv

(* The worker that asks goes on with another job.                          *)
LEMMA JobKeeps ==
  ASSUME CompareInv, NEW w \in Workers, at[w] = "ask", job' \in JobType,
         job'.honest /\ Compare!IsPublic(w) => PagesFit(job', inputs[Compare!Task(w)[1]].ahead),
         UNCHANGED <<inputs, tasks, spoiled, phase, next, at, drawn, holder, results, answer>>
  PROVE  CompareInv'
<1>1. phase = "compare" /\ Covers(tasks) /\ WorkersApart /\ ResultsFit /\ JobFits
  BY WhileComparing
<1>2. \A v \in Workers : at[v] = "ask" => v = w  BY <1>1 DEF WorkersApart
<1>3. CompareTypes'  BY DEF CompareInv, CompareTypes
<1>4. WorkersApart'  BY <1>1 DEF WorkersApart, Working
<1>5. \A t \in DOMAIN tasks : Delivered(t)' <=> Delivered(t)  BY DEF Delivered, Working
<1>6. ResultsFit'  BY <1>1, <1>5, DeliveredIsEnough
<1>7. JobFits'
  <2>1. ASSUME NEW v \in Workers, at'[v] = "ask", job'.honest, Compare!IsPublic(v)'
        PROVE  PagesFit(job', inputs'[Compare!Task(v)'[1]].ahead)
    <3>1. v = w  BY <2>1, <1>2
    <3>2. Compare!Task(w)' = Compare!Task(w) /\ Compare!IsPublic(w)  BY <2>1, <3>1 DEF Compare!Task, Compare!IsPublic
    <3> QED  BY <2>1, <3>1, <3>2
  <2> QED  BY <2>1 DEF JobFits
<1>8. Covers(tasks)'  BY <1>1 DEF Covers
<1> QED  BY <1>1, <1>3, <1>4, <1>6, <1>7, <1>8 DEF CompareInv

LEMMA RetryKeeps ==
  ASSUME CompareInv, NEW w \in Workers, Compare!Retry(w)
  PROVE  CompareInv'
<1>1. /\ at[w] = "ask" /\ job' = [job EXCEPT !.retries = @ + 1]
      /\ UNCHANGED <<inputs, tasks, spoiled, phase, next, at, drawn, holder, results, answer>>
  BY DEF Compare!Retry, Compare!Asks, Compare!calls
<1>2. JobFits  BY <1>1, WhileComparing
<1>3. job' \in JobType /\ job'.page = job.page /\ job'.first = job.first /\ job'.commits = job.commits
      /\ job'.honest = job.honest
  BY <1>1, <1>2 DEF JobFits, JobType
<1>4. job'.honest /\ Compare!IsPublic(w) => PagesFit(job', inputs[Compare!Task(w)[1]].ahead)
  BY <1>1, <1>2, <1>3 DEF JobFits, PagesFit
<1> QED  BY <1>1, <1>3, <1>4, JobKeeps

LEMMA StatusKeeps ==
  ASSUME CompareInv, NEW w \in Workers, Compare!StatusOutcome(w)
  PROVE  CompareInv'
<1> DEFINE T == Compare!Task(w)
<1>1. at[w] = "ask" /\ spoiled' = spoiled  BY DEF Compare!StatusOutcome, Compare!Asks
<1>2. PICK tag \in {"rate_limited", "not_found", "invalid", "provider"} :
        Compare!Deliver(w, [k \in DOMAIN T |-> Compare!Plain(tag, T[k])])
  BY DEF Compare!StatusOutcome
<1> DEFINE outcomes == [k \in DOMAIN T |-> Compare!Plain(tag, T[k])]
<1>3. \A k \in DOMAIN T : outcomes[k] \in Outcomes /\ Sound(inputs, spoiled', T[k], outcomes[k])
  <2> SUFFICES ASSUME NEW k \in DOMAIN T
               PROVE  outcomes[k] \in Outcomes /\ Sound(inputs, spoiled', T[k], outcomes[k])
    OBVIOUS
  <2>1. inputs[T[k]].id \in Compare!InputIds  BY <1>1, TaskInputs DEF InputType
  <2>2. outcomes[k] \in Outcomes
    <3>1. outcomes[k] = Compare!Plain(tag, T[k])  OBVIOUS
    <3>2. tag \in Tags  BY DEF Tags
    <3>3. Compare!Plain(tag, T[k]) \in Outcomes  BY <2>1, <3>2, PlainTyped
    <3> QED  BY <3>1, <3>3
  <2>3. Sound(inputs, spoiled', T[k], outcomes[k])  BY DEF Sound, Compare!Plain, Compare!Outcome
  <2> QED  BY <2>2, <2>3
<1>4. Compare!Deliver(w, outcomes)  BY <1>2
<1> HIDE DEF outcomes
<1> QED  BY <1>1, <1>3, <1>4, DeliverKeeps

LEMMA CancelKeeps ==
  ASSUME CompareInv, UNCHANGED <<inputs, phase, tasks, next, at, drawn, holder, job, results, answer, spoiled>>
  PROVE  CompareInv'
<1>1. CompareTypes'  BY DEF CompareInv, CompareTypes
<1>2. ASSUME phase = "compare" PROVE Covers(tasks)' /\ WorkersApart' /\ ResultsFit' /\ JobFits'
  <2>1. Covers(tasks) /\ WorkersApart /\ ResultsFit /\ JobFits  BY <1>2 DEF CompareInv
  <2>2. \A t \in DOMAIN tasks : Delivered(t)' <=> Delivered(t)  BY DEF Delivered, Working
  <2>3. ResultsFit'  BY <2>1, <2>2, DeliveredIsEnough
  <2>4. Covers(tasks)'  BY <2>1 DEF Covers
  <2>5. WorkersApart'  BY <2>1 DEF WorkersApart, Working
  <2>6. JobFits'  BY <2>1 DEF JobFits, Compare!IsPublic, Compare!Task
  <2> QED  BY <2>3, <2>4, <2>5, <2>6
<1>3. AnswerFits => AnswerFits'  BY DEF AnswerFits
<1> QED  BY <1>1, <1>2, <1>3 DEF CompareInv

-----------------------------------------------------------------------------
(* Pages.  Of a history of some length, the first commit to show lies on   *)
(* the first page to read, and each page but the last is full.             *)
LEMMA PageBounds ==
  ASSUME NEW total \in Nat
  PROVE  LET f == Compare!FirstIndex(total)
             low(p) == (p - 1) * PerPage
         IN /\ f \in Nat /\ f <= total /\ total - f = Compare!Min2(total, MaxCommits)
            /\ Compare!Offset(total) \in Nat
            /\ Compare!FirstPage(total) \in Nat \ {0} /\ Compare!LastPage(total) \in Nat \ {0}
            /\ Compare!FirstPage(total) <= Compare!LastPage(total)
            /\ low(Compare!FirstPage(total)) \in Nat /\ f = low(Compare!FirstPage(total)) + Compare!Offset(total)
            /\ \A p \in Compare!FirstPage(total)..Compare!LastPage(total) :
                 /\ p \in Nat \ {0} /\ low(p) \in Nat /\ low(p) <= total /\ low(p + 1) = low(p) + PerPage
                 /\ p # Compare!FirstPage(total) => f <= low(p)
                 /\ p # Compare!LastPage(total) => low(p) + PerPage <= total
                 /\ p = Compare!LastPage(total) => total <= low(p) + PerPage
<1> DEFINE f == Compare!FirstIndex(total)
           low(p) == (p - 1) * PerPage
           d == PerPage
           c == Compare!DivCeil(total, d)
           first == Compare!FirstPage(total)
           last == Compare!LastPage(total)
           off == Compare!Offset(total)
           q == f \div d
<1>1. d \in Nat \ {0} /\ MaxCommits \in Nat \ {0}  BY CompareAssumption DEF Compare!CompareAssumption
<1>2. f \in Nat /\ f <= total /\ total - f = Compare!Min2(total, MaxCommits) /\ (total > 0 => f < total)
  BY <1>1 DEF Compare!FirstIndex, Compare!Max2, Compare!Min2
<1>3. first = q + 1 /\ off = f % d  BY DEF Compare!FirstPage, Compare!Offset
<1>4. last = Compare!Max2(1, c)  BY DEF Compare!LastPage
<1> HIDE DEF first, last, off, f
<1>5. q \in Nat /\ off \in Nat /\ off < d /\ f = q * d + off  BY <1>1, <1>2, <1>3, Quotients
<1>6. /\ c \in Nat /\ total <= c * d
      /\ \A t \in 1..c : (t - 1) * d \in Nat /\ (t - 1) * d < total /\ t * d = (t - 1) * d + d
  BY <1>1, ChunkCount
<1> HIDE DEF q, c, d
<1>7. first \in Nat \ {0} /\ last \in Nat \ {0} /\ first - 1 = q /\ c <= last /\ (c > 0 => last = c)
      /\ (c = 0 => last = 1)
  BY <1>3, <1>4, <1>5, <1>6 DEF Compare!Max2
<1>8. \A p \in Nat \ {0} : low(p) \in Nat /\ low(p + 1) = low(p) + d
  <2> SUFFICES ASSUME NEW p \in Nat \ {0} PROVE low(p) \in Nat /\ low(p + 1) = low(p) + d  OBVIOUS
  <2>1. p - 1 \in Nat /\ (p - 1) + 1 = (p + 1) - 1  OBVIOUS
  <2>2. (p - 1) * d \in Nat /\ ((p - 1) + 1) * d = (p - 1) * d + d  BY <2>1, <1>1, Multiples
  <2> QED  BY <2>1, <2>2 DEF d
<1>9. low(first) = q * d  BY <1>7 DEF d
<1>10. low(first) \in Nat /\ f = low(first) + off  BY <1>5, <1>7, <1>8, <1>9, Zenon
<1>11. c > 0 <=> total > 0
  <2>1. c > 0 => total > 0
    <3> SUFFICES ASSUME c > 0 PROVE total > 0  OBVIOUS
    <3>1. 1 \in 1..c  BY <1>6
    <3> DEFINE z == (1 - 1) * d
    <3>2. z \in Nat /\ z < total  BY <3>1, <1>6
    <3> HIDE DEF z
    <3> QED  BY <3>2
  <2>2. c = 0 => total = 0
    <3> SUFFICES ASSUME c = 0 PROVE total = 0  OBVIOUS
    <3>1. 0 * d = 0  BY <1>1
    <3>2. total <= 0  BY <3>1, <1>6
    <3> QED  BY <3>2
  <2> QED  BY <2>1, <2>2, <1>6
<1>12. first <= last
  <2>1. CASE total = 0
    <3>1. f = 0  BY <2>1, <1>2
    <3>2. q * d \in Nat  BY <1>1, <1>5, Multiples
    <3>3. q * d = 0 /\ off = 0  BY <3>1, <3>2, <1>5
    <3>4. q = 0
      <4> SUFFICES ASSUME q # 0 PROVE FALSE  OBVIOUS
      <4>1. 0 * d + d <= q * d  BY <1>1, <1>5, Multiples
      <4>2. 0 * d = 0  BY <1>1
      <4> QED  BY <4>1, <4>2, <3>3, <1>1
    <3> QED  BY <3>4, <1>3, <1>7
  <2>2. CASE total > 0
    <3>1. last = c /\ f < total  BY <2>2, <1>2, <1>7, <1>11
    <3> SUFFICES ASSUME c < first PROVE FALSE  BY <3>1, <1>6, <1>7
    <3>2. c <= q  BY <1>6, <1>7
    <3>3. c * d <= q * d /\ c * d \in Nat /\ q * d \in Nat  BY <3>2, <1>1, <1>5, <1>6, Multiples
    <3> QED  BY <3>1, <3>3, <1>2, <1>5, <1>6
  <2> QED  BY <2>1, <2>2
<1>13. ASSUME NEW p \in first..last
       PROVE  /\ p \in Nat \ {0} /\ low(p) \in Nat /\ low(p) <= total /\ low(p + 1) = low(p) + d
              /\ p # first => f <= low(p)
              /\ p # last => low(p) + d <= total
              /\ p = last => total <= low(p) + d
  <2>1. p \in Nat \ {0} /\ first <= p /\ p <= last  BY <1>7
  <2>2. low(p) \in Nat /\ low(p + 1) = low(p) + d  BY <2>1, <1>8
  <2>3. ASSUME p # first PROVE f <= low(p)
    <3>1. q \in Nat /\ p - 1 \in Nat /\ q < p - 1  BY <2>1, <2>3, <1>5, <1>7
    <3>2. q * d + d <= (p - 1) * d  BY <3>1, <1>1, Multiples
    <3>3. q * d + d <= low(p)  BY <3>2 DEF d
    <3>4. q * d \in Nat  BY <1>1, <1>5, Multiples
    <3> HIDE DEF low
    <3> QED  BY <3>3, <3>4, <2>2, <1>1, <1>5
  <2>4. ASSUME p # last PROVE low(p) + d <= total
    <3>1. p + 1 \in 1..c /\ (p + 1) - 1 = p  BY <2>1, <2>4, <1>6, <1>7
    <3>2. p * d < total  BY <3>1, <1>6, Zenon
    <3>3. low(p + 1) = p * d  BY <3>1 DEF d
    <3> HIDE DEF low
    <3> QED  BY <2>2, <3>2, <3>3, <1>1
  <2>5. ASSUME p = last PROVE total <= low(p) + d
    <3>1. CASE c = 0
      <4>1. total = 0  BY <3>1, <1>11
      <4> HIDE DEF low
      <4> QED  BY <4>1, <2>2, <1>1
    <3>2. CASE c # 0
      <4>1. p = c /\ p \in 1..c  BY <3>2, <2>5, <2>1, <1>6, <1>7
      <4>2. low(p + 1) = p * d /\ total <= p * d
        <5>1. (p + 1) - 1 = p  BY <2>1
        <5> QED  BY <4>1, <5>1, <1>6 DEF d
      <4> HIDE DEF low
      <4> QED  BY <4>2, <2>2
    <3> QED  BY <3>1, <3>2
  <2>6. low(p) <= total
    <3>1. CASE p # last
      <4>1. low(p) + d <= total  BY <3>1, <2>4
      <4> HIDE DEF low
      <4> QED  BY <4>1, <2>2, <1>1
    <3>2. CASE p = last /\ c # 0
      <4>1. p \in 1..c  BY <3>2, <2>1, <1>6, <1>7
      <4>2. low(p) < total  BY <4>1, <1>6 DEF d
      <4> HIDE DEF low
      <4> QED  BY <4>2, <2>2
    <3>3. CASE p = last /\ c = 0
      <4>1. p = 1  BY <3>3, <1>7
      <4>2. low(p) = 0  BY <4>1, <1>1 DEF d
      <4> QED  BY <4>2
    <3> QED  BY <3>1, <3>2, <3>3
  <2> QED  BY <2>1, <2>2, <2>3, <2>4, <2>5, <2>6
<1> HIDE DEF low
<1> QED  BY <1>2, <1>5, <1>7, <1>10, <1>12, <1>13 DEF d, f, first, last, off, low

(* So what is taken of a true page brings the list up to the next page,    *)
(* and the last page completes it.                                         *)
LEMMA TrueTaken ==
  ASSUME NEW total \in Nat, NEW pg,
         NEW p \in Compare!FirstPage(total)..Compare!LastPage(total),
         pg.commits = Compare!Page(total, p)
  PROVE  LET all == Before(total, p) \o Compare!Taken(pg, p, total) IN
         /\ p # Compare!LastPage(total) => all = Before(total, p + 1)
         /\ p = Compare!LastPage(total) => all = LastOf(total)
<1> DEFINE f == Compare!FirstIndex(total)
           lo == (p - 1) * PerPage
           hi == (p + 1 - 1) * PerPage
           d == PerPage
           off == Compare!Offset(total)
           m == Compare!Min2(d, total - lo)
           start == IF p = Compare!FirstPage(total) THEN off + 1 ELSE 1
           taken == Compare!Taken(pg, p, total)
           before == Before(total, p)
           end == Compare!Min2(lo + d, total)
<1>1. d \in Nat \ {0} /\ MaxCommits \in Nat \ {0}  BY CompareAssumption DEF Compare!CompareAssumption
<1>2. /\ f \in Nat /\ f <= total /\ total - f = Compare!Min2(total, MaxCommits) /\ off \in Nat
      /\ lo \in Nat /\ lo <= total /\ hi = lo + d
      /\ p # Compare!FirstPage(total) => f <= lo
      /\ p = Compare!FirstPage(total) => f = lo + off
      /\ p # Compare!LastPage(total) => lo + d <= total
      /\ p = Compare!LastPage(total) => total <= lo + d
  <2> DEFINE low(n) == (n - 1) * PerPage
  <2>1. lo = low(p) /\ hi = low(p + 1)  OBVIOUS
  <2> HIDE DEF lo, hi, low, f, off
  <2> QED  BY <2>1, PageBounds, Zenon DEF low, f, off
<1>3. pg.commits = [k \in 1..Compare!Max2(0, m) |-> lo + k]  BY DEF Compare!Page
<1>4. before = [k \in 1..Compare!Max2(0, lo - f) |-> f + k]  BY DEF Before, Upto
<1>5. taken = SubSeq(pg.commits, start, Len(pg.commits))  BY DEF Compare!Taken
<1>6. Before(total, p + 1) = [k \in 1..Compare!Max2(0, hi - f) |-> f + k]  BY DEF Before, Upto
<1>7. LastOf(total) = [k \in 1..(total - f) |-> f + k]
  BY <1>2 DEF LastOf, Compare!FirstIndex
<1> HIDE DEF f, lo, hi, off, taken, before, d
<1>8. m \in Nat /\ Compare!Max2(0, m) = m /\ end = lo + m /\ end \in Nat
  BY <1>1, <1>2 DEF Compare!Min2, Compare!Max2
<1> HIDE DEF m, end
<1>9. pg.commits \in Seq(Nat) /\ Len(pg.commits) = m /\ \A k \in 1..m : pg.commits[k] = lo + k
  <2>1. pg.commits \in [1..m -> Nat] /\ \A k \in 1..m : pg.commits[k] = lo + k  BY <1>2, <1>3, <1>8
  <2> QED  BY <2>1, <1>8, FunctionIsList
<1>10. start \in Nat \ {0}  BY <1>2
<1>11. /\ taken \in Seq(Nat) /\ Len(taken) = Compare!Max2(0, m - start + 1)
       /\ \A i \in 1..(m - start + 1) : taken[i] = lo + start - 1 + i
  <2> HIDE DEF start
  <2>1. \A i \in start..m : pg.commits[i] \in Nat  BY <1>2, <1>8, <1>9, <1>10
  <2>2. start \in Int /\ m \in Int  BY <1>8, <1>10
  <2>3. /\ SubSeq(pg.commits, start, m) \in Seq(Nat)
        /\ Len(SubSeq(pg.commits, start, m)) = IF start <= m THEN m - start + 1 ELSE 0
        /\ \A i \in 1..(m - start + 1) : SubSeq(pg.commits, start, m)[i] = pg.commits[start + i - 1]
    BY <2>1, <2>2, SubSeqProperties
  <2>4. taken = SubSeq(pg.commits, start, m)  BY <1>5, <1>9
  <2>5. \A i \in 1..(m - start + 1) : start + i - 1 \in 1..m /\ lo + (start + i - 1) = lo + start - 1 + i
    BY <1>2, <1>8, <1>10
  <2>6. \A i \in 1..(m - start + 1) : taken[i] = lo + start - 1 + i  BY <2>3, <2>4, <2>5, <1>9
  <2>7. Len(taken) = Compare!Max2(0, m - start + 1)  BY <2>3, <2>4, <2>2 DEF Compare!Max2
  <2> QED  BY <2>3, <2>4, <2>6, <2>7
<1>12. before \in Seq(Nat) /\ Len(before) = Compare!Max2(0, lo - f)
       /\ \A i \in 1..Compare!Max2(0, lo - f) : before[i] = f + i
  <2> DEFINE n == Compare!Max2(0, lo - f)
  <2>1. n \in Nat  BY <1>2 DEF Compare!Max2
  <2> HIDE DEF n
  <2>2. before = [k \in 1..n |-> f + k]  BY <1>4 DEF n
  <2>3. before \in [1..n -> Nat] /\ \A i \in 1..n : before[i] = f + i  BY <2>1, <2>2, <1>2
  <2>4. before \in Seq(Nat) /\ Len(before) = n  BY <2>1, <2>3, FunctionIsList
  <2> QED  BY <2>3, <2>4 DEF n
<1> DEFINE all == before \o taken
<1>13. all = [k \in 1..Compare!Max2(0, end - f) |-> f + k]
  <2> DEFINE n == Compare!Max2(0, end - f)
  <2>1. n \in Nat /\ Len(before) + Len(taken) = n
    BY <1>2, <1>8, <1>11, <1>12 DEF Compare!Max2
  <2>2. /\ all \in Seq(Nat) /\ Len(all) = n
        /\ \A i \in 1..n : all[i] = IF i <= Len(before) THEN before[i] ELSE taken[i - Len(before)]
    BY <2>1, <1>11, <1>12, ConcatProperties
  <2>3. ASSUME NEW i \in 1..n PROVE all[i] = f + i
    <3>1. CASE p = Compare!FirstPage(total)
      <4>1. start = off + 1 /\ f = lo + off  BY <3>1, <1>2
      <4>2. Len(before) = 0  BY <4>1, <1>2, <1>12 DEF Compare!Max2
      <4>3. all[i] = taken[i]  BY <4>2, <2>2, <2>1
      <4>4. i \in 1..(m - start + 1)  BY <4>1, <1>2, <1>8, <2>1 DEF Compare!Max2
      <4>5. taken[i] = lo + start - 1 + i  BY <4>4, <1>11
      <4> QED  BY <4>1, <4>3, <4>5, <1>2
    <3>2. CASE p # Compare!FirstPage(total)
      <4>1. start = 1 /\ f <= lo  BY <3>2, <1>2
      <4>2. Compare!Max2(0, lo - f) = lo - f /\ Len(before) = lo - f
        BY <4>1, <1>2, <1>12 DEF Compare!Max2
      <4>3. CASE i <= lo - f
        <5>1. i \in 1..(lo - f)  BY <4>3, <2>1, <1>2
        <5>2. all[i] = before[i]  BY <4>2, <4>3, <2>2
        <5> QED  BY <5>1, <5>2, <4>2, <1>12
      <4>4. CASE ~(i <= lo - f)
        <5>1. all[i] = taken[i - (lo - f)]  BY <4>2, <4>4, <2>2
        <5>2. i - (lo - f) \in 1..(m - start + 1)  BY <4>1, <4>4, <1>2, <1>8, <2>1 DEF Compare!Max2
        <5>3. taken[i - (lo - f)] = lo + start - 1 + (i - (lo - f))  BY <5>2, <1>11
        <5> QED  BY <5>1, <5>3, <4>1, <2>1, <1>2
      <4> QED  BY <4>3, <4>4, Zenon
    <3> QED  BY <3>1, <3>2
  <2> DEFINE target == [k \in 1..n |-> f + k]
  <2>4. target \in Seq(Nat) /\ Len(target) = n /\ \A i \in 1..n : target[i] = f + i
    <3>1. target \in [1..n -> Nat]  BY <2>1, <1>2
    <3> HIDE DEF n
    <3>2. \A i \in 1..n : target[i] = f + i  OBVIOUS
    <3> HIDE DEF target
    <3> QED  BY <3>1, <3>2, <2>1, FunctionIsList
  <2> HIDE DEF n, target, all
  <2>5. all = target  BY <2>2, <2>3, <2>4, SeqEqual, Zenon
  <2> QED  BY <2>5 DEF target, n
<1> HIDE DEF all
<1>14. p # Compare!LastPage(total) => all = Before(total, p + 1)
  <2> SUFFICES ASSUME p # Compare!LastPage(total) PROVE all = Before(total, p + 1)  OBVIOUS
  <2>1. end = hi  BY <1>1, <1>2 DEF end, Compare!Min2
  <2> QED  BY <2>1, <1>6, <1>13
<1>15. p = Compare!LastPage(total) => all = LastOf(total)
  <2> SUFFICES ASSUME p = Compare!LastPage(total) PROVE all = LastOf(total)  OBVIOUS
  <2>1. end = total  BY <1>1, <1>2 DEF end, Compare!Min2
  <2>2. Compare!Max2(0, end - f) = total - f  BY <2>1, <1>2 DEF Compare!Max2
  <2> QED  BY <2>2, <1>7, <1>13
<1> QED  BY <1>14, <1>15 DEF all, before, taken

LEMMA BeforeFirst ==
  ASSUME NEW total \in Nat
  PROVE  Before(total, Compare!FirstPage(total)) = <<>>
<1> DEFINE f == Compare!FirstIndex(total)  lo == (Compare!FirstPage(total) - 1) * PerPage
<1>1. lo \in Nat /\ f = lo + Compare!Offset(total) /\ Compare!Offset(total) \in Nat  BY PageBounds
<1>2. Before(total, Compare!FirstPage(total)) = [k \in 1..Compare!Max2(0, lo - f) |-> f + k]
  BY DEF Before, Upto
<1> HIDE DEF f, lo
<1>3. Compare!Max2(0, lo - f) = 0  BY <1>1 DEF Compare!Max2
<1>4. 1..0 = {}  OBVIOUS
<1> QED  BY <1>2, <1>3, <1>4

LEMMA TruePageTyped ==
  ASSUME NEW input \in InputType, NEW p \in Nat \ {0}
  PROVE  Compare!TruePage(input, p) \in Compare!PageType
<1> DEFINE lo == (p - 1) * PerPage  n == Compare!Max2(0, Compare!Min2(PerPage, input.ahead - lo))
           commits == Compare!Page(input.ahead, p)
<1>1. PerPage \in Nat \ {0}  BY CompareAssumption DEF Compare!CompareAssumption
<1>2. input.ahead \in Nat /\ input.behind \in Nat  BY DEF InputType
<1>3. lo \in Nat
  <2>1. p - 1 \in Nat  OBVIOUS
  <2> QED  BY <2>1, <1>1, Multiples
<1>4. commits = [k \in 1..n |-> lo + k]  BY DEF Compare!Page
<1> HIDE DEF lo
<1>5. n \in Nat  BY <1>1, <1>2, <1>3 DEF Compare!Max2, Compare!Min2
<1> HIDE DEF n, commits
<1>6. commits \in Seq(Nat)
  <2>1. commits \in [1..n -> Nat]  BY <1>3, <1>4, <1>5
  <2> QED  BY <2>1, <1>5, FunctionIsList
<1>7. Compare!RelationOf(input.ahead, input.behind) \in Compare!Relations
  BY DEF Compare!RelationOf, Compare!Relations
<1> QED  BY <1>2, <1>6, <1>7 DEF Compare!TruePage, Compare!PageType, commits

LEMMA PagesTyped ==
  ASSUME NEW input \in InputType, NEW p \in Nat \ {0}, NEW pg \in Compare!Pages(input, p)
  PROVE  pg \in Compare!PageType
<1> DEFINE true == Compare!TruePage(input, p)  more == [input EXCEPT !.ahead = @ + 1]
<1>1. true \in Compare!PageType  BY TruePageTyped
<1>2. more \in InputType  BY DEF InputType
<1>3. Compare!Max2(1, p - 1) \in Nat \ {0}  BY DEF Compare!Max2
<1>4. Compare!TruePage(input, Compare!Max2(1, p - 1)) \in Compare!PageType
  <2>1. \A z \in Nat \ {0} : Compare!TruePage(input, z) \in Compare!PageType  BY TruePageTyped
  <2> QED  BY <1>3, <2>1
<1>5. Compare!TruePage(more, p) \in Compare!PageType  BY <1>2, TruePageTyped
<1>6. SubSeq(true.commits, 1, Compare!Max2(0, Len(true.commits) - 1)) \in Seq(Nat)
  <2> DEFINE s == true.commits  n == Compare!Max2(0, Len(s) - 1)
  <2>1. s \in Seq(Nat)  BY <1>1 DEF Compare!PageType
  <2> HIDE DEF s
  <2>2. n \in Nat /\ \A i \in 1..n : s[i] \in Nat  BY <2>1 DEF Compare!Max2
  <2> HIDE DEF n
  <2>3. SubSeq(s, 1, n) \in Seq(Nat)  BY <2>2, SubSeqProperties
  <2> QED  BY <2>3 DEF s, n
<1>7. \/ pg = true \/ pg = Compare!TruePage(input, Compare!Max2(1, p - 1))
      \/ pg = [true EXCEPT !.relation = "diverged"]
      \/ pg = [true EXCEPT !.commits = SubSeq(@, 1, Compare!Max2(0, Len(@) - 1))]
      \/ pg = [Compare!TruePage(more, p) EXCEPT !.behind = input.behind]
  BY DEF Compare!Pages
<1> HIDE DEF true, more
<1>8. [true EXCEPT !.relation = "diverged"] \in Compare!PageType
  BY <1>1 DEF Compare!PageType, Compare!Relations
<1>9. [true EXCEPT !.commits = SubSeq(@, 1, Compare!Max2(0, Len(@) - 1))] \in Compare!PageType
  BY <1>1, <1>6, Zenon DEF Compare!PageType
<1>10. [Compare!TruePage(more, p) EXCEPT !.behind = input.behind] \in Compare!PageType
  BY <1>5 DEF Compare!PageType, InputType
<1> QED  BY <1>1, <1>4, <1>7, <1>8, <1>9, <1>10, Zenon

(* A history that was read to its end: with the true pages, its last       *)
(* commits.                                                                *)
LEMMA LastPageKeeps ==
  ASSUME CompareInv, NEW w \in Workers, at[w] = "ask", Compare!IsPublic(w),
         NEW total \in Nat, NEW commits \in Seq(Nat), NEW honest \in BOOLEAN,
         honest => LET ahead == inputs[Compare!Task(w)[1]].ahead IN total = ahead /\ commits = LastOf(ahead),
         Compare!Finish(w, total, commits, honest)
  PROVE  CompareInv'
<1> DEFINE T == Compare!Task(w)  i == T[1]  ahead == inputs[i].ahead
           tooMany == Len(commits) > MaxCommits
           last == IF tooMany THEN SubSeq(commits, Len(commits) - MaxCommits + 1, Len(commits)) ELSE commits
           o == Compare!Outcome("ready", inputs[i].id, last, total)
<1>1. MaxCommits \in Nat \ {0}  BY CompareAssumption DEF Compare!CompareAssumption
<1>2. /\ DOMAIN T = 1..Len(T) /\ Len(T) = 1 /\ i \in DOMAIN inputs /\ inputs[i] \in InputType
      /\ inputs[i].access = "public"
  BY TaskInputs DEF Compare!IsPublic
<1>3. DOMAIN T = {1}  BY <1>2
<1>4. last \in Seq(Nat)
  <2>1. Len(commits) \in Nat /\ \A k \in 1..Len(commits) : commits[k] \in Nat  OBVIOUS
  <2> DEFINE a == Len(commits) - MaxCommits + 1  b == Len(commits)
  <2>2. CASE tooMany
    <3>1. a \in 1..b /\ b \in Nat  BY <2>1, <2>2, <1>1
    <3>2. \A k \in a..b : commits[k] \in Nat  BY <2>1, <3>1
    <3> HIDE DEF a, b
    <3>3. SubSeq(commits, a, b) \in Seq(Nat)  BY <3>1, <3>2, SubSeqProperties
    <3> QED  BY <2>2, <3>3 DEF a, b
  <2>3. CASE ~tooMany  BY <2>3
  <2> QED  BY <2>2, <2>3
<1>5. honest => total = ahead /\ last = LastOf(ahead)
  <2> SUFFICES ASSUME honest PROVE total = ahead /\ last = LastOf(ahead)  OBVIOUS
  <2>1. total = ahead /\ commits = LastOf(ahead)  OBVIOUS
  <2> DEFINE n == Compare!Min2(ahead, MaxCommits)
  <2>2. ahead \in Nat  BY <1>2 DEF InputType
  <2>3. n \in Nat /\ n <= MaxCommits  BY <1>1, <2>2 DEF Compare!Min2
  <2>4. DOMAIN commits = 1..n  BY <2>1 DEF LastOf
  <2>5. Len(commits) = n
    <3> HIDE DEF n
    <3>1. commits \in Seq(Nat)  OBVIOUS
    <3> QED  BY ONLY <3>1, <2>3, <2>4
  <2>6. ~tooMany  BY <2>3, <2>5, <1>1
  <2> QED  BY <2>1, <2>6
<1> HIDE DEF last
<1>6. o \in Outcomes
  <2>1. inputs[i].id \in Compare!InputIds /\ "ready" \in Tags  BY <1>2 DEF InputType, Tags
  <2> QED  BY <2>1, <1>4 DEF Outcomes, Compare!Outcome
<1>7. CASE Len(last) = Compare!Min2(total, MaxCommits)
           /\ Compare!Cardinality(Compare!ToSet(last)) = Len(last)
  <2>1. /\ Compare!Deliver(w, <<o>>)
        /\ spoiled' = IF honest THEN spoiled ELSE spoiled \cup {i}
    BY <1>7, Zenon DEF Compare!Finish, last
  <2>2. Sound(inputs, spoiled', i, o)  BY <2>1, <1>5 DEF Sound, Compare!Outcome
  <2>3. <<o>>[1] = o  OBVIOUS
  <2>4. spoiled \subseteq spoiled'  BY <2>1
  <2> HIDE DEF o
  <2>5. \A k \in DOMAIN T : <<o>>[k] \in Outcomes /\ Sound(inputs, spoiled', T[k], <<o>>[k])
    BY <1>3, <1>6, <2>2, <2>3
  <2> QED  BY <2>1, <2>4, <2>5, DeliverKeeps, Zenon
<1>8. CASE ~(Len(last) = Compare!Min2(total, MaxCommits)
             /\ Compare!Cardinality(Compare!ToSet(last)) = Len(last))
  <2>1. Compare!TaskFails(w)  BY <1>8, Zenon DEF Compare!Finish, last
  <2> QED  BY <2>1, TaskFailsKeeps
<1> QED  BY <1>7, <1>8

LEMMA ReadKeeps ==
  ASSUME CompareInv, NEW w \in Workers, Compare!ReadPage(w)
  PROVE  CompareInv'
<1> DEFINE T == Compare!Task(w)  input == inputs[T[1]]  ahead == input.ahead
<1>1. at[w] = "ask" /\ Compare!IsPublic(w)  BY DEF Compare!ReadPage, Compare!Asks
<1>2. job \in JobType /\ (job.honest => PagesFit(job, ahead))  BY <1>1, WhileComparing DEF JobFits
<1>3. input \in InputType /\ ahead \in Nat  BY <1>1, TaskInputs DEF InputType
<1>4. /\ job.page \in Nat \ {0} /\ job.first \in Compare!PageType \cup {None} /\ job.commits \in Seq(Nat)
      /\ job.honest \in BOOLEAN
  BY <1>2 DEF JobType
<1>5. None \notin Compare!PageType  BY CompareAssumption DEF Compare!CompareAssumption
<1> DEFINE firstOf(pg) == IF job.first = None THEN pg ELSE job.first
           totalOf(pg) == firstOf(pg).ahead
           honestOf(pg) == job.honest /\ pg = Compare!TruePage(input, job.page)
           usedOf(pg) == job.first # None \/ Compare!FirstPage(totalOf(pg)) = 1
           commitsOf(pg) == IF usedOf(pg) THEN job.commits \o Compare!Taken(pg, job.page, totalOf(pg)) ELSE <<>>
           followingOf(pg) == IF usedOf(pg) THEN job.page + 1 ELSE Compare!FirstPage(totalOf(pg))
           jobOf(pg) == [page |-> followingOf(pg), retries |-> 0, first |-> firstOf(pg),
                           commits |-> commitsOf(pg), honest |-> honestOf(pg)]
           refused(pg) == ~Compare!PageIsValid(pg, Compare!Same(input)) \/ ~Compare!Agrees(pg, firstOf(pg))
           goesOn(pg) == followingOf(pg) <= Compare!LastPage(totalOf(pg))
<1>6. PICK pg \in Compare!Pages(input, job.page) :
        \/ refused(pg) /\ Compare!TaskFails(w)
        \/ /\ ~refused(pg) /\ goesOn(pg) /\ job' = jobOf(pg)
           /\ UNCHANGED <<inputs, account, tasks, spoiled, stopped, phase, next, at, drawn, holder, results, answer>>
        \/ /\ ~refused(pg) /\ ~goesOn(pg)
           /\ Compare!Finish(w, totalOf(pg), commitsOf(pg), honestOf(pg))
  BY Zenon DEF Compare!ReadPage, Compare!calls
<1> DEFINE first == firstOf(pg)  total == totalOf(pg)  honest == honestOf(pg)  used == usedOf(pg)
           commits == commitsOf(pg)  following == followingOf(pg)  taken == Compare!Taken(pg, job.page, total)
<1>7. pg \in Compare!PageType  BY <1>3, <1>4, PagesTyped
<1>8. first \in Compare!PageType /\ total \in Nat /\ pg.commits \in Seq(Nat) /\ Len(pg.commits) \in Nat
  <2>1. first \in Compare!PageType  BY <1>4, <1>7
  <2> QED  BY <2>1, <1>7 DEF Compare!PageType
<1>9. Compare!FirstPage(total) \in Nat \ {0} /\ Compare!Offset(total) \in Nat
  BY <1>8, PageBounds, Zenon
<1>10. taken \in Seq(Nat)
  <2> DEFINE a == IF job.page = Compare!FirstPage(total) THEN Compare!Offset(total) + 1 ELSE 1
             s == pg.commits
  <2>1. a \in Nat \ {0}  BY <1>9
  <2>2. taken = SubSeq(s, a, Len(s))  BY DEF Compare!Taken
  <2> HIDE DEF a, s, taken
  <2>3. s \in Seq(Nat) /\ Len(s) \in Nat  BY <1>8 DEF s
  <2>4. \A k \in a..Len(s) : s[k] \in Nat  BY <2>1, <2>3
  <2>5. a \in Int /\ Len(s) \in Int  BY <2>1, <2>3
  <2>6. SubSeq(s, a, Len(s)) \in Seq(Nat)  BY <2>4, <2>5, SubSeqProperties
  <2> QED  BY <2>2, <2>6
<1>11. commits = IF used THEN job.commits \o taken ELSE <<>>  OBVIOUS
<1>12. commits \in Seq(Nat) /\ following \in Nat \ {0} /\ honest \in BOOLEAN
  <2> HIDE DEF taken, used, total, commits
  <2>1. commits \in Seq(Nat)
    <3>1. job.commits \o taken \in Seq(Nat)  BY <1>4, <1>10, ConcatProperties
    <3>2. <<>> \in Seq(Nat)  BY EmptySeq
    <3> QED  BY <3>1, <3>2, <1>11
  <2>2. following \in Nat \ {0}  BY <1>4, <1>9 DEF used, total
  <2> QED  BY <2>1, <2>2, <1>4
(* With the true pages, all before the next page is read.                  *)
<1>13. ASSUME honest
       PROVE  /\ total = ahead
              /\ following <= Compare!LastPage(ahead) =>
                   /\ following \in Compare!FirstPage(ahead)..Compare!LastPage(ahead)
                   /\ commits = Before(ahead, following)
              /\ ~(following <= Compare!LastPage(ahead)) => commits = LastOf(ahead)
  <2>1. job.honest /\ pg = Compare!TruePage(input, job.page) /\ PagesFit(job, ahead)  BY <1>2, <1>13
  <2>2. pg.ahead = ahead /\ pg.commits = Compare!Page(ahead, job.page)  BY <2>1 DEF Compare!TruePage
  <2> DEFINE f == Compare!FirstPage(ahead)  l == Compare!LastPage(ahead)
  <2>3. f \in Nat \ {0} /\ l \in Nat \ {0} /\ f <= l  BY <1>3, PageBounds, Zenon
  <2>4. total = ahead  BY <2>1, <2>2 DEF PagesFit
  <2>5. CASE ~used
    <3>1. commits = <<>> /\ following = f  BY <2>4, <2>5
    <3>2. commits = Before(ahead, f)  BY <3>1, <1>3, BeforeFirst, Zenon
    <3> HIDE DEF f, l, commits, following, total
    <3>3. following <= l /\ following \in f..l  BY <2>3, <3>1
    <3> QED  BY <2>4, <3>1, <3>2, <3>3 DEF f, l
  <2>6. CASE used
    <3>1. job.page \in f..l /\ job.commits = Before(ahead, job.page)
      <4>1. CASE job.first = None
        <5>1. job.page = 1 /\ job.commits = <<>> /\ f = 1  BY <4>1, <2>1, <2>4, <2>6 DEF PagesFit
        <5>2. job.commits = Before(ahead, f)  BY <5>1, <1>3, BeforeFirst
        <5> HIDE DEF f, l
        <5> QED  BY <5>1, <5>2, <2>3
      <4>2. CASE job.first # None  BY <4>2, <2>1 DEF PagesFit
      <4> QED  BY <4>1, <4>2
    <3>2. commits = job.commits \o Compare!Taken(pg, job.page, ahead) /\ following = job.page + 1
      BY <2>4, <2>6, Zenon
    <3>3. /\ job.page # l => commits = Before(ahead, job.page + 1)
          /\ job.page = l => commits = LastOf(ahead)
      BY <3>1, <3>2, <2>2, <1>3, TrueTaken, Zenon
    <3> HIDE DEF f, l, commits, following, total
    <3>4. following \in Nat /\ (following <= l => job.page # l /\ following \in f..l) /\ (~(following <= l) => job.page = l)
      BY <2>3, <3>1, <3>2
    <3> QED  BY <2>4, <3>2, <3>3, <3>4, Zenon DEF f, l
  <2> QED  BY <2>5, <2>6
<1>14. CASE refused(pg) /\ Compare!TaskFails(w)  BY <1>1, <1>14, TaskFailsKeeps
<1>15. CASE /\ ~refused(pg) /\ goesOn(pg) /\ job' = jobOf(pg)
            /\ UNCHANGED <<inputs, account, tasks, spoiled, stopped, phase, next, at, drawn, holder, results, answer>>
  <2>1. following <= Compare!LastPage(total)  BY <1>15
  <2>2. /\ job'.page = following /\ job'.retries = 0 /\ job'.first = first /\ job'.commits = commits
        /\ job'.honest = honest
        /\ job' = [page |-> following, retries |-> 0, first |-> first, commits |-> commits, honest |-> honest]
    BY <1>15
  <2> HIDE DEF first, total, honest, used, commits, following
  <2>3. job' \in JobType  BY <2>2, <1>8, <1>12 DEF JobType
  <2>4. job'.honest /\ Compare!IsPublic(w) => PagesFit(job', ahead)
    <3> SUFFICES ASSUME honest PROVE PagesFit(job', ahead)  BY <2>2
    <3>1. first # None /\ first.ahead = total  BY <1>5, <1>8 DEF first, total
    <3> QED  BY <3>1, <1>13, <2>1, <2>2 DEF PagesFit
  <2> QED  BY <1>1, <1>15, <2>3, <2>4, JobKeeps, Zenon
<1>16. CASE ~refused(pg) /\ ~goesOn(pg) /\ Compare!Finish(w, totalOf(pg), commitsOf(pg), honestOf(pg))
  <2>1. ~(following <= Compare!LastPage(total)) /\ Compare!Finish(w, total, commits, honest)  BY <1>16
  <2> HIDE DEF first, total, honest, used, commits, following
  <2>2. honest => total = ahead /\ commits = LastOf(ahead)  BY <1>13, <2>1
  <2> QED  BY <1>1, <1>8, <1>12, <2>1, <2>2, LastPageKeeps
<1> QED  BY <1>6, <1>14, <1>15, <1>16, Zenon

(* In whatever order a batch is answered, each input gets its own result.  *)
LEMMA BatchKeeps ==
  ASSUME CompareInv, NEW w \in Workers, Compare!AnswerBatch(w)
  PROVE  CompareInv'
<1> DEFINE T == Compare!Task(w)
<1>1. at[w] = "ask" /\ ~Compare!IsPublic(w)  BY DEF Compare!AnswerBatch, Compare!Asks
<1>2. /\ DOMAIN T = 1..Len(T) /\ 1 \in DOMAIN T
      /\ \A k \in DOMAIN T : inputs[T[k]] \in InputType /\ (inputs[T[k]].access = "public" => Len(T) = 1)
  BY <1>1, TaskInputs
<1>3. \A k \in DOMAIN T : inputs[T[k]].access # "public" /\ inputs[T[k]].id \in Compare!InputIds
  <2> SUFFICES ASSUME NEW k \in DOMAIN T, inputs[T[k]].access = "public" PROVE FALSE
    BY <1>2 DEF InputType
  <2>1. k = 1  BY <1>2
  <2> QED  BY <2>1, <1>1 DEF Compare!IsPublic
<1> DEFINE foundIn(wire) == [k \in DOMAIN T |-> Compare!ById(wire, w, k)]
           allIn(wire) == {r.id : r \in Compare!ToSet(wire)} = {inputs[i].id : i \in Compare!ToSet(T)}
           outcomesOf(wire) == [k \in DOMAIN T |-> Compare!HostedOutcome(foundIn(wire)[k], T[k])]
<1>4. PICK wire \in Compare!HostedResults(w) :
        \/ Compare!TaskFails(w)
        \/ /\ allIn(wire) /\ Compare!Deliver(w, outcomesOf(wire))
           /\ spoiled' = spoiled \cup {T[k] : k \in {j \in DOMAIN T : ~foundIn(wire)[j].fits}}
  BY Zenon DEF Compare!AnswerBatch
<1> DEFINE found == foundIn(wire)  outcomes == outcomesOf(wire)
<1>5. CASE Compare!TaskFails(w)  BY <1>1, <1>5, TaskFailsKeeps
<1>6. CASE /\ allIn(wire) /\ Compare!Deliver(w, outcomesOf(wire))
           /\ spoiled' = spoiled \cup {T[k] : k \in {j \in DOMAIN T : ~foundIn(wire)[j].fits}}
  <2>1. ASSUME NEW k \in DOMAIN T PROVE found[k].id = inputs[T[k]].id
    <3>1. T[k] \in Compare!ToSet(T)  BY DEF Compare!ToSet
    <3>2. \E r \in Compare!ToSet(wire) : r.id = inputs[T[k]].id
      <4>1. inputs[T[k]].id \in {inputs[i].id : i \in Compare!ToSet(T)}  BY <3>1
      <4>2. inputs[T[k]].id \in {r.id : r \in Compare!ToSet(wire)}  BY <4>1, <1>6, Zenon
      <4> QED  BY <4>2
    <3>3. found[k] = CHOOSE r \in Compare!ToSet(wire) : r.id = inputs[T[k]].id  BY DEF Compare!ById
    <3> HIDE DEF found, T
    <3> QED  BY <3>2, <3>3
  <2>2. ASSUME NEW k \in DOMAIN T
        PROVE  outcomes[k] \in Outcomes /\ Sound(inputs, spoiled', T[k], outcomes[k])
    <3>1. outcomes[k] = IF found[k].fits THEN Compare!Outcome("ready", found[k].id, <<>>, 0)
                        ELSE Compare!Plain("failed", T[k])
      BY DEF Compare!HostedOutcome
    <3>2. ~found[k].fits => T[k] \in spoiled'  BY <1>6
    <3>3. found[k].id = inputs[T[k]].id /\ inputs[T[k]].access # "public" /\ inputs[T[k]].id \in Compare!InputIds
      BY <1>3, <2>1
    <3> HIDE DEF found, outcomes, T
    <3>4. "ready" \in Tags /\ "failed" \in Tags  BY DEF Tags
    <3>5. CASE found[k].fits
      <4>1. outcomes[k] = Compare!Outcome("ready", inputs[T[k]].id, <<>>, 0)  BY <3>1, <3>3, <3>5
      <4>2. outcomes[k] \in Outcomes  BY <4>1, <3>3, <3>4, OutcomeTyped
      <4>3. Sound(inputs, spoiled', T[k], outcomes[k])  BY <4>1, <3>3 DEF Sound, Compare!Outcome
      <4> QED  BY <4>2, <4>3
    <3>6. CASE ~found[k].fits
      <4>1. outcomes[k] = Compare!Plain("failed", T[k])  BY <3>1, <3>6
      <4>2. outcomes[k] \in Outcomes  BY <4>1, <3>3, <3>4, PlainTyped
      <4>3. Sound(inputs, spoiled', T[k], outcomes[k])
        BY <4>1, <3>2, <3>6 DEF Sound, Compare!Plain, Compare!Outcome
      <4> QED  BY <4>2, <4>3
    <3> QED  BY <3>5, <3>6
  <2>3. Compare!Deliver(w, outcomes) /\ spoiled \subseteq spoiled'  BY <1>6
  <2> HIDE DEF outcomes, found
  <2> QED  BY <1>1, <2>2, <2>3, DeliverKeeps
<1> QED  BY <1>4, <1>5, <1>6, Zenon

(* When every worker is done, every task is delivered; so the results are  *)
(* complete, and each is the one of its input.                             *)
LEMMA CollectKeeps ==
  ASSUME CompareInv, Compare!Collect
  PROVE  CompareInv'
<1>1. /\ phase = "compare" /\ (\A w \in Workers : at[w] = "done")
      /\ UNCHANGED <<inputs, tasks, spoiled, next, at, drawn, holder, job, results>>
  BY DEF Compare!Collect, Compare!calls
<1>2. Covers(tasks) /\ WorkersApart /\ ResultsFit /\ CompareTypes  BY <1>1 DEF CompareInv
<1>3. /\ inputs \in InputLists /\ Len(inputs) \in Nat /\ DOMAIN inputs = 1..Len(inputs)
      /\ results \in Seq(Nat \X Outcomes) /\ next \in Nat
  BY <1>2, InputsAreTyped DEF CompareTypes
<1>4. Len(results) \in Nat /\ DOMAIN results = 1..Len(results) /\ \A r \in DOMAIN results : results[r] \in Nat \X Outcomes
  <2> DEFINE E == Nat \X Outcomes
  <2>1. results \in Seq(E)  BY <1>3
  <2> HIDE DEF E
  <2>2. Len(results) \in Nat /\ DOMAIN results = 1..Len(results) /\ \A r \in DOMAIN results : results[r] \in E
    BY <2>1
  <2> QED  BY <2>2 DEF E
<1>5. \A t \in DOMAIN tasks : Delivered(t)
  <2>1. Len(tasks) \in Nat /\ DOMAIN tasks = 1..Len(tasks)
    <3> DEFINE E == Seq(DOMAIN inputs)
    <3>1. tasks \in Seq(E)  BY <1>2 DEF Covers
    <3> HIDE DEF E
    <3> QED  BY <3>1
  <2>2. next > Len(tasks)  BY <1>1, <1>2 DEF WorkersApart
  <2>3. \A w \in Workers : ~Working(w)  BY <1>1 DEF Working
  <2> QED  BY <2>1, <2>2, <2>3, <1>3 DEF Delivered
<1>6. \A i \in DOMAIN inputs : Compare!ResultsOf(i) # {}
  <2> SUFFICES ASSUME NEW i \in DOMAIN inputs PROVE \E r \in DOMAIN results : results[r][1] = i
    BY DEF Compare!ResultsOf
  <2>1. PICK t \in DOMAIN tasks : \E k \in DOMAIN tasks[t] : tasks[t][k] = i  BY <1>2 DEF Covers
  <2> QED  BY <2>1, <1>2, <1>5 DEF ResultsFit
<1>7. \A r \in DOMAIN results : results[r][1] \in DOMAIN inputs
  <2> SUFFICES ASSUME NEW r \in DOMAIN results PROVE results[r][1] \in DOMAIN inputs  OBVIOUS
  <2>1. PICK t \in DOMAIN tasks : \E k \in DOMAIN tasks[t] : results[r][1] = tasks[t][k]
    BY <1>2 DEF ResultsFit
  <2>2. tasks[t] \in Seq(DOMAIN inputs)  BY <1>2 DEF Covers
  <2> QED  BY <2>1, <2>2
<1>8. Len(results) = Len(inputs)
  <2> DEFINE f == [r \in DOMAIN results |-> results[r][1]]
  <2>1. f \in Bijection(DOMAIN results, DOMAIN inputs)
    <3>1. f \in [DOMAIN results -> DOMAIN inputs]  BY <1>7
    <3>2. \A r, q \in DOMAIN results : f[r] = f[q] => r = q  BY <1>2 DEF ResultsFit
    <3>3. \A i \in DOMAIN inputs : \E r \in DOMAIN results : f[r] = i  BY <1>6 DEF Compare!ResultsOf
    <3> HIDE DEF f
    <3> QED  BY <3>1, <3>2, <3>3 DEF Bijection, Injection, Surjection, IsInjective
  <2>2. ExistsBijection(1..Len(results), 1..Len(inputs))  BY <2>1, <1>3, <1>4 DEF ExistsBijection
  <2>3. \A n \in Nat : IsFiniteSet(1..n) /\ Cardinality(1..n) = n
    <3> SUFFICES ASSUME NEW n \in Nat PROVE IsFiniteSet(1..n) /\ Cardinality(1..n) = n  OBVIOUS
    <3> QED  BY FS_Interval
  <2>4. Cardinality(1..Len(inputs)) = Cardinality(1..Len(results))
    BY <2>2, <2>3, <1>4, FS_Bijection
  <2> QED  BY <2>3, <2>4, <1>3, <1>4, Zenon
<1>9. Compare!Complete  BY <1>6, <1>8 DEF Compare!Complete
<1>10. /\ phase' = "answered"
       /\ answer' = [i \in DOMAIN inputs |-> results[CHOOSE r \in Compare!ResultsOf(i) : TRUE][2]]
  BY <1>9 DEF Compare!Collect
<1>11. \A i \in DOMAIN inputs : answer'[i] \in Outcomes /\ Sound(inputs, spoiled, i, answer'[i])
  <2> SUFFICES ASSUME NEW i \in DOMAIN inputs
               PROVE  answer'[i] \in Outcomes /\ Sound(inputs, spoiled, i, answer'[i])
    OBVIOUS
  <2> DEFINE r == CHOOSE r \in Compare!ResultsOf(i) : TRUE
  <2>1. r \in Compare!ResultsOf(i)  BY <1>6
  <2>2. answer'[i] = results[r][2]  BY <1>10
  <2> HIDE DEF r
  <2>3. r \in DOMAIN results /\ results[r][1] = i  BY <2>1 DEF Compare!ResultsOf
  <2>4. results[r][2] \in Outcomes  BY <2>3, <1>4
  <2>5. Sound(inputs, spoiled, i, results[r][2])  BY <2>3, <1>2 DEF ResultsFit
  <2> QED  BY <2>2, <2>4, <2>5
<1>12. Len(answer') = Len(inputs) /\ DOMAIN answer' = DOMAIN inputs
  <2>1. DOMAIN answer' = DOMAIN inputs  BY <1>10
  <2>2. answer' \in [1..Len(inputs) -> Outcomes]  BY <1>3, <1>10, <1>11
  <2>3. Len(answer') = Len(inputs)  BY <2>2, <1>3, FunctionIsList
  <2> QED  BY <2>1, <2>3
<1>13. AnswerFits'  BY <1>1, <1>11, <1>12 DEF AnswerFits
<1>14. CompareTypes'  BY <1>1, <1>2, <1>10 DEF CompareTypes
<1> QED  BY <1>1, <1>10, <1>13, <1>14 DEF CompareInv

LEMMA CompareUnchanged == CompareInv /\ UNCHANGED compareVars => CompareInv'
BY CancelKeeps DEF compareVars

LEMMA CompareStep == CompareInv /\ Compare!Next => CompareInv'
<1> SUFFICES ASSUME CompareInv, Compare!Next PROVE CompareInv'  OBVIOUS
<1>1. CASE Compare!Start  BY <1>1, StartKeeps
<1>2. CASE Compare!Collect  BY <1>2, CollectKeeps
<1>3. CASE Compare!Cancel
  <2>1. UNCHANGED <<inputs, phase, tasks, next, at, drawn, holder, job, results, answer, spoiled>>
    BY <1>3 DEF Compare!Cancel, Compare!calls
  <2> QED  BY <2>1, CancelKeeps
<1>4. ASSUME NEW w \in Workers, Compare!Work(w) PROVE CompareInv'
  <2>1. CASE Compare!RequestFails(w)
    BY <2>1, TaskFailsKeeps DEF Compare!RequestFails, Compare!Asks
  <2> QED
    BY <1>4, <2>1, DrawKeeps, LockKeeps, RetryKeeps, StatusKeeps, ReadKeeps, BatchKeeps DEF Compare!Work
<1> QED  BY <1>1, <1>2, <1>3, <1>4 DEF Compare!Next

-----------------------------------------------------------------------------
(* A listing.  What is still to expand names a Repository.                 *)
InLookUp == point \in {"registry", "rows", "github"}

IsList(s) == Len(s) \in Nat /\ s = [i \in 1..Len(s) |-> s[i]]

ListingTypes ==
  /\ reference \in References
  /\ point \in {"read", "registry", "rows", "github", "listed", "failed"}
  /\ slugs \in Seq(Seq(Listing!Entries)) /\ entries \in Seq(Listing!Entries)
  /\ InLookUp => entries # <<>>
  /\ known = [r \in Repositories |-> known[r]]
  /\ fetched \in [Repositories -> Nat]

(* A Repository that was looked up is remembered, unless its lookup is     *)
(* under way or has failed the listing.                                    *)
Remembered ==
  \A r \in Repositories :
    /\ fetched[r] <= 1
    /\ fetched[r] = 1 => \/ known[r] # <<>> \/ point = "failed"
                         \/ InLookUp /\ r = Listing!Entry.repository

(* The rows of the pages before the next one to read are there; those of   *)
(* all pages when the last was read, as far as MaxPages goes.              *)
RowsRead ==
  /\ IsList(rows) /\ \A j \in DOMAIN rows : \E k \in DOMAIN Rows : rows[j] = Rows[k]
  /\ point = "registry" =>
       /\ page \in Nat \ {0} /\ (page > 1 => pages = Listing!PageCount)
       /\ \A k \in DOMAIN Rows : k <= (page - 1) * PageSize => \E j \in DOMAIN rows : rows[j] = Rows[k]
  /\ (point = "rows" /\ Listing!PageCount < MaxPages) =>
       \A k \in DOMAIN Rows : \E j \in DOMAIN rows : rows[j] = Rows[k]
  /\ (point = "github" /\ Listing!PageCount < MaxPages) => Listing!InRows(Listing!Entry.repository) = {}

(* These are all the Skills of a Repository, unless its lookup failed.     *)
AllSkillsOf(r, ids) ==
  /\ (Listing!InRows(r) # {} /\ Listing!PageCount < MaxPages) =>
       \A s \in Listing!InRows(r) : Listing!Identity(s) \in ids
  /\ (Listing!InRows(r) = {} /\ r \notin lost) => \A s \in Listing!OfTree(r) : Listing!Identity(s) \in ids

(* No selector twice.                                                      *)
SelectedOnce(p) == \A i, j \in DOMAIN p : Listing!Selector(p[i]) = Listing!Selector(p[j]) => i = j

(* What is remembered of a Repository are its Skills.                      *)
SkillsKnown ==
  \A r \in Repositories : known[r] # <<>> =>
    /\ IsList(known[r][1])
    /\ \A k \in DOMAIN known[r][1] : known[r][1][k] \in Listing!InRows(r) \cup Listing!OfTree(r)
    /\ AllSkillsOf(r, Listing!Identities(known[r][1])) /\ SelectedOnce(known[r][1])

(* An entry is to be read, to be expanded, or stands in the listing.       *)
NameStands(e) ==
  \/ <<e.repository, e.name>> \in Listing!Identities(items)
  \/ \E s \in Listing!InRows(e.repository) \cup Listing!OfTree(e.repository) :
       s.name = e.name /\ Listing!Identity(s) \in Listing!Identities(items)
EntryStands(e) ==
  IF e.name # None THEN e.valid => NameStands(e) ELSE AllSkillsOf(e.repository, Listing!Identities(items))
Awaited(e) ==
  \/ \E k \in DOMAIN entries : e = entries[k]
  \/ \E k \in DOMAIN slugs : e \in Listing!ToSet(Listing!Firsts(slugs[k], MaxEntries))

EntriesKept ==
  /\ \A e \in Listing!AllEntries : EntryStands(e) \/ Awaited(e)
  /\ point = "listed" => slugs = <<>> /\ entries = <<>>

ListedOnce ==
  /\ IsList(items)
  /\ \A i, j \in DOMAIN items : Listing!Same(items[i], items[j]) => i = j
  /\ Listing!Strict =>
       /\ slugs = <<>>
       /\ entries = <<>> \/ (entries = <<Listing!Whole(reference.repository)>> /\ items = <<>>)

ListingInv == ListingTypes /\ Remembered /\ RowsRead /\ SkillsKnown /\ EntriesKept /\ ListedOnce
(* A listing counts and sorts as this module does.                         *)
LEMMA ListingsAgree ==
  ASSUME NEW X
  PROVE  Listing!Cardinality(X) = Cardinality(X) /\ Listing!InOrder(X) = InOrder(X)
<1>1. Listing!Cardinality(X) = Cardinality(X)  BY DEF Listing!Cardinality, Cardinality
<1>2. Listing!InOrder(X) = InOrder(X)
  BY Zenon DEF Listing!InOrder, InOrder, Listing!Cardinality, Cardinality
<1> QED  BY <1>1, <1>2

LEMMA ListPlaces ==
  ASSUME NEW s, IsList(s)
  PROVE  Len(s) \in Nat /\ DOMAIN s = 1..Len(s) /\ (s = <<>> <=> DOMAIN s = {})
<1>1. Len(s) \in Nat /\ DOMAIN s = 1..Len(s)  BY DEF IsList
<1>2. s = <<>> <=> DOMAIN s = {}
  <2> DEFINE E == {s[i] : i \in DOMAIN s}
  <2>1. s \in [1..Len(s) -> E]  BY <1>1 DEF IsList
  <2> HIDE DEF E
  <2>2. s \in Seq(E)  BY <1>1, <2>1, FunctionIsList
  <2> QED  BY <2>2, <1>1, EmptySeq
<1> QED  BY <1>1, <1>2

LEMMA FunctionIsAList ==
  ASSUME NEW n \in Nat, NEW f, f = [i \in 1..n |-> f[i]]
  PROVE  IsList(f) /\ Len(f) = n
<1> DEFINE E == {f[i] : i \in 1..n}
<1>1. f \in [1..n -> E]  OBVIOUS
<1> HIDE DEF E
<1>2. Len(f) = n  BY <1>1, FunctionIsList
<1> QED  BY <1>2 DEF IsList

LEMMA SequenceIsList ==
  ASSUME NEW E, NEW s \in Seq(E)
  PROVE  IsList(s)
BY DEF IsList

LEMMA ListIsSequence ==
  ASSUME NEW s, IsList(s), NEW E, \A i \in DOMAIN s : s[i] \in E
  PROVE  s \in Seq(E)
<1>1. Len(s) \in Nat /\ DOMAIN s = 1..Len(s) /\ s = [i \in 1..Len(s) |-> s[i]]  BY ListPlaces DEF IsList
<1>2. s \in [1..Len(s) -> E]  BY <1>1
<1> QED  BY <1>1, <1>2, FunctionIsList

LEMMA ConcatLists ==
  ASSUME NEW s, NEW t, IsList(s), IsList(t)
  PROVE  /\ IsList(s \o t) /\ DOMAIN (s \o t) = 1..(Len(s) + Len(t))
         /\ \A i \in DOMAIN (s \o t) :
              (s \o t)[i] = IF i \in DOMAIN s THEN s[i] ELSE t[i - Len(s)]
         /\ \A i \in DOMAIN s : i \in DOMAIN (s \o t) /\ (s \o t)[i] = s[i]
         /\ \A j \in DOMAIN t : Len(s) + j \in DOMAIN (s \o t) /\ (s \o t)[Len(s) + j] = t[j]
<1> DEFINE E == {s[i] : i \in DOMAIN s} \cup {t[i] : i \in DOMAIN t}
<1>1. s \in Seq(E) /\ t \in Seq(E)
  <2>1. \A i \in DOMAIN s : s[i] \in E  OBVIOUS
  <2>2. \A i \in DOMAIN t : t[i] \in E  OBVIOUS
  <2> HIDE DEF E
  <2> QED  BY <2>1, <2>2, ListIsSequence
<1>2. /\ DOMAIN s = 1..Len(s) /\ DOMAIN t = 1..Len(t) /\ Len(s) \in Nat /\ Len(t) \in Nat
  BY ListPlaces
<1> HIDE DEF E
<1>3. /\ s \o t \in Seq(E) /\ Len(s \o t) = Len(s) + Len(t)
      /\ \A i \in 1..(Len(s) + Len(t)) :
           (s \o t)[i] = IF i <= Len(s) THEN s[i] ELSE t[i - Len(s)]
  BY <1>1, ConcatProperties
<1>4. IsList(s \o t) /\ DOMAIN (s \o t) = 1..(Len(s) + Len(t))
  <2>1. IsList(s \o t)  BY <1>3, SequenceIsList, Zenon
  <2>2. DOMAIN (s \o t) = 1..Len(s \o t)  BY <2>1, ListPlaces
  <2> QED  BY <2>1, <2>2, <1>3
<1> HIDE DEF IsList
<1>5. \A i \in 1..(Len(s) + Len(t)) : i <= Len(s) <=> i \in 1..Len(s)  BY <1>2
<1>6. \A i \in 1..Len(s) : i \in 1..(Len(s) + Len(t)) /\ i <= Len(s)  BY <1>2
<1>7. \A j \in 1..Len(t) : Len(s) + j \in 1..(Len(s) + Len(t)) /\ ~(Len(s) + j <= Len(s)) /\ (Len(s) + j) - Len(s) = j
  BY <1>2
<1> QED  BY <1>2, <1>3, <1>4, <1>5, <1>6, <1>7

(* What is picked of a list are the elements at the places, each once.     *)
PickedFits(s, K, p) ==
  /\ IsList(p)
  /\ \A k \in K : \E i \in DOMAIN p : p[i] = s[k]
  /\ \A i \in DOMAIN p : \E k \in K : p[i] = s[k]
  /\ \A i, j \in DOMAIN p : i # j => \E k, l \in K : k # l /\ p[i] = s[k] /\ p[j] = s[l]

LEMMA PickedElements ==
  ASSUME NEW s, IsList(s), NEW K \in SUBSET DOMAIN s
  PROVE  PickedFits(s, K, Listing!Picked(s, K))
<1> DEFINE n == Cardinality(K)  order == InOrder(K)  p == Listing!Picked(s, K)
<1>1. IsFiniteSet(K) /\ K \in SUBSET Nat
  <2>1. Len(s) \in Nat /\ DOMAIN s = 1..Len(s)  BY ListPlaces
  <2>2. IsFiniteSet(1..Len(s))  BY <2>1, FS_Interval
  <2> QED  BY <2>1, <2>2, FS_Subset
<1>2. /\ n \in Nat
      /\ \A k \in K : \E i \in 1..n : order[i] = k
      /\ \A i \in 1..n : order[i] \in K
      /\ \A i, j \in 1..n : order[i] = order[j] => i = j
  BY <1>1, InOrderLists, Zenon
<1>3. p = [i \in 1..n |-> s[order[i]]]  BY ListingsAgree DEF Listing!Picked
<1> HIDE DEF n, order, p
<1>4. DOMAIN p = 1..n /\ \A i \in 1..n : p[i] = s[order[i]]  BY <1>3
<1>5. p = [i \in 1..n |-> p[i]]  BY <1>3
<1>6. IsList(p)  BY <1>2, <1>5, FunctionIsAList
<1>7. \A k \in K : \E i \in DOMAIN p : p[i] = s[k]  BY <1>2, <1>4
<1>8. \A i \in DOMAIN p : \E k \in K : p[i] = s[k]  BY <1>2, <1>4
<1>9. \A i, j \in DOMAIN p : i # j => \E k, l \in K : k # l /\ p[i] = s[k] /\ p[j] = s[l]  BY <1>2, <1>4
<1> QED  BY <1>6, <1>7, <1>8, <1>9 DEF PickedFits, p

(* The first of several places.                                            *)
LEMMA FirstPlace ==
  ASSUME NEW n \in Nat, NEW K \in SUBSET (1..n), K # {}
  PROVE  \E k \in K : \A j \in 1..(k - 1) : j \notin K
<1>1. IsFiniteSet(K) /\ K \in SUBSET Nat
  <2>1. \A m \in Nat : IsFiniteSet(1..m)  BY FS_Interval
  <2>2. IsFiniteSet(1..n)  BY <2>1
  <2>3. IsFiniteSet(K)  BY <2>2, FS_Subset, Zenon
  <2> QED  BY <2>3
<1> DEFINE t == InOrder(K)  c == Cardinality(K)
<1>2. Ordered(K, t)  BY <1>1, InOrderIsOrdered
<1>3. t \in [1..c -> K] /\ \A i, j \in 1..c : i < j => t[i] < t[j]  BY <1>2 DEF Ordered
<1>4. \A x \in K : \E i \in 1..c : t[i] = x  BY <1>1, InOrderLists
<1>5. c \in Nat /\ c # 0  BY <1>1, FS_CardinalityType, FS_EmptySet
<1> HIDE DEF c, t
<1>6. \A i \in 1..c : t[i] \in K /\ t[i] \in Nat
  <2>1. \A i \in 1..c : t[i] \in K  BY <1>3
  <2>2. \A x \in K : x \in Nat  BY <1>1
  <2> QED  BY <2>1, <2>2, Zenon
<1>8. 1 \in 1..c  BY <1>5
<1>7. ASSUME NEW j \in 1..(t[1] - 1), j \in K PROVE FALSE
  <2>1. PICK i \in 1..c : t[i] = j  BY <1>4, <1>7
  <2>2. i = 1 \/ 1 < i  BY <1>5
  <2>3. t[i] \in Nat /\ t[1] <= t[i]  BY <1>3, <1>6, <1>8, <2>2
  <2>4. t[1] \in Nat  BY <1>6, <1>8
  <2> QED  BY <2>1, <2>3, <2>4, <1>7
<1> QED  BY <1>6, <1>7, <1>8

(* What is new of a list: every key that was not seen, each once.          *)
KeyFits(s, key, seen, p) ==
  /\ IsList(p)
  /\ \A i \in DOMAIN p : \E k \in DOMAIN s : p[i] = s[k] /\ key[k] \notin seen
  /\ \A i, j \in DOMAIN p : i # j => \E k, l \in DOMAIN s : p[i] = s[k] /\ p[j] = s[l] /\ key[k] # key[l]
  /\ \A k \in DOMAIN s : key[k] \notin seen => \E i \in DOMAIN p, l \in DOMAIN s : p[i] = s[l] /\ key[l] = key[k]

LEMMA NewElements ==
  ASSUME NEW s, IsList(s), NEW key, NEW seen
  PROVE  KeyFits(s, key, seen, Listing!NewOf(s, key, seen))
<1> DEFINE K == {k \in DOMAIN s : key[k] \notin seen /\ \A j \in 1..(k - 1) : key[j] # key[k]}
           p == Listing!NewOf(s, key, seen)
<1>1. p = Listing!Picked(s, K)  BY DEF Listing!NewOf
<1>2. Len(s) \in Nat /\ DOMAIN s = 1..Len(s)  BY ListPlaces
<1>3. PickedFits(s, K, p)  BY <1>1, PickedElements
<1>4. \A k, l \in K : key[k] = key[l] => k = l
  <2> SUFFICES ASSUME NEW k \in K, NEW l \in K, key[k] = key[l], k < l PROVE FALSE
    BY <1>2
  <2>1. k \in 1..(l - 1)  BY <1>2
  <2> QED  BY <2>1
<1>5. ASSUME NEW k \in DOMAIN s, key[k] \notin seen PROVE \E l \in K : key[l] = key[k]
  <2> DEFINE L == {l \in 1..Len(s) : key[l] = key[k]}
  <2>1. L # {} /\ L \in SUBSET (1..Len(s))  BY <1>2
  <2>2. PICK l \in L : \A j \in 1..(l - 1) : j \notin L
    <3> HIDE DEF L
    <3> QED  BY <1>2, <2>1, FirstPlace, Zenon
  <2>3. l \in 1..Len(s) /\ key[l] = key[k]  OBVIOUS
  <2>4. \A j \in 1..(l - 1) : j \in 1..Len(s)  BY <1>2, <2>3
  <2>5. \A j \in 1..(l - 1) : key[j] # key[l]  BY <2>2, <2>3, <2>4
  <2> HIDE DEF L
  <2>6. l \in K  BY <1>2, <1>5, <2>3, <2>5
  <2> QED  BY <2>3, <2>6
<1>6. \A k \in K : key[k] \notin seen /\ k \in DOMAIN s  OBVIOUS
<1> HIDE DEF K, p
<1>7. \A i \in DOMAIN p : \E k \in DOMAIN s : p[i] = s[k] /\ key[k] \notin seen
  BY <1>3, <1>6 DEF PickedFits
<1>8. \A i, j \in DOMAIN p : i # j => \E k, l \in DOMAIN s : p[i] = s[k] /\ p[j] = s[l] /\ key[k] # key[l]
  BY <1>3, <1>4, <1>6 DEF PickedFits
<1>9. \A k \in DOMAIN s : key[k] \notin seen => \E i \in DOMAIN p, l \in DOMAIN s : p[i] = s[l] /\ key[l] = key[k]
  BY <1>3, <1>5, <1>6 DEF PickedFits
<1> QED  BY <1>3, <1>7, <1>8, <1>9 DEF KeyFits, PickedFits, p

(* By identity, and by selector.                                           *)
NewFits(s, ids, p) ==
  /\ IsList(p)
  /\ \A i \in DOMAIN p : Listing!Identity(p[i]) \notin ids
  /\ \A i, j \in DOMAIN p : Listing!Identity(p[i]) = Listing!Identity(p[j]) => i = j
  /\ \A k \in DOMAIN s : Listing!Identity(s[k]) \in ids \cup Listing!Identities(p)

LEMMA NewIdentities ==
  ASSUME NEW s, IsList(s), NEW ids, NEW p, p = Listing!NewOf(s, Listing!EachIdentity(s), ids)
  PROVE  NewFits(s, ids, p)
<1> DEFINE key == Listing!EachIdentity(s)
<1>1. KeyFits(s, key, ids, p)  BY NewElements
<1>2. \A k \in DOMAIN s : key[k] = Listing!Identity(s[k])  BY DEF Listing!EachIdentity
<1> HIDE DEF key
<1>3. \A i \in DOMAIN p : Listing!Identity(p[i]) \notin ids  BY <1>1, <1>2 DEF KeyFits
<1>4. \A i, j \in DOMAIN p : Listing!Identity(p[i]) = Listing!Identity(p[j]) => i = j
  BY <1>1, <1>2 DEF KeyFits
<1>5. \A k \in DOMAIN s : Listing!Identity(s[k]) \in ids \cup Listing!Identities(p)
  BY <1>1, <1>2 DEF KeyFits, Listing!Identities
<1> QED  BY <1>1, <1>3, <1>4, <1>5 DEF NewFits, KeyFits

LEMMA NewSelectors ==
  ASSUME NEW s, IsList(s), NEW p, p = Listing!NewOf(s, Listing!EachSelector(s), {})
  PROVE  /\ IsList(p) /\ SelectedOnce(p)
         /\ \A i \in DOMAIN p : \E k \in DOMAIN s : p[i] = s[k]
         /\ \A k \in DOMAIN s : Listing!Identity(s[k]) \in Listing!Identities(p)
<1> DEFINE key == Listing!EachSelector(s)
<1>1. KeyFits(s, key, {}, p)  BY NewElements
<1>2. \A k \in DOMAIN s : key[k] = Listing!Selector(s[k])  BY DEF Listing!EachSelector
<1> HIDE DEF key
<1>3. SelectedOnce(p)
  <2> SUFFICES ASSUME NEW i \in DOMAIN p, NEW j \in DOMAIN p, i # j
               PROVE  Listing!Selector(p[i]) # Listing!Selector(p[j])
    BY DEF SelectedOnce
  <2>1. PICK k \in DOMAIN s, l \in DOMAIN s : p[i] = s[k] /\ p[j] = s[l] /\ key[k] # key[l]
    BY <1>1 DEF KeyFits
  <2> QED  BY <1>2, <2>1
<1>4. ASSUME NEW k \in DOMAIN s PROVE Listing!Identity(s[k]) \in Listing!Identities(p)
  <2>1. PICK i \in DOMAIN p, l \in DOMAIN s : p[i] = s[l] /\ key[l] = key[k]  BY <1>1 DEF KeyFits
  <2>2. Listing!Identity(s[l]) = Listing!Identity(s[k])  BY <1>2, <2>1 DEF Listing!Selector
  <2> QED  BY <2>1, <2>2 DEF Listing!Identities
<1> QED  BY <1>1, <1>3, <1>4 DEF KeyFits

(* The first of a sequence are of its kind.                                *)
LEMMA FirstsOf ==
  ASSUME NEW S, NEW s \in Seq(S), NEW n \in Nat
  PROVE  Listing!Firsts(s, n) \in Seq(S)
<1>1. Len(s) \in Nat /\ s \in [1..Len(s) -> S]  BY LenProperties
<1>2. Listing!Min2(Len(s), n) \in Nat /\ Listing!Min2(Len(s), n) <= Len(s)
  BY <1>1 DEF Listing!Min2
<1>3. \A i \in 1..Listing!Min2(Len(s), n) : s[i] \in S  BY <1>1, <1>2
<1>4. SubSeq(s, 1, Listing!Min2(Len(s), n)) \in Seq(S)  BY <1>2, <1>3, SubSeqProperties
<1> QED  BY <1>4 DEF Listing!Firsts

LEMMA ListingConstants ==
  /\ {PageSize, MaxPages, MaxEntries, MaxDirectSkills} \subseteq Nat /\ PageSize \in Nat \ {0}
  /\ IsList(Rows) /\ \A r \in Repositories : IsList(InTree[r])
  /\ \A ref \in References : /\ ref.collections \in Seq(Seq(Listing!Entries))
                             /\ ref.kind = "repository" =>
                                  ref.repository \in Repositories /\ ref.collections = <<>>
  /\ \A e \in Listing!Entries : e.repository \in Repositories
  /\ \A r \in Repositories : Listing!Whole(r) \in Listing!Entries
<1>1. IsList(Rows) /\ \A r \in Repositories : IsList(InTree[r])
  BY SequenceIsList, ListingAssumption DEF Listing!ListingAssumption
<1>2. \A r \in Repositories : Listing!Whole(r) \in Listing!Entries  BY DEF Listing!Entries
<1> QED  BY <1>1, <1>2, ListingAssumption DEF Listing!ListingAssumption

(* The entries before the listing are those of the collections to read.    *)
LEMMA ListingInit == Listing!Init => ListingInv
<1> SUFFICES ASSUME Listing!Init PROVE ListingInv  OBVIOUS
<1>1. /\ reference.collections \in Seq(Seq(Listing!Entries)) /\ MaxEntries \in Nat
      /\ reference.kind = "repository" => reference.repository \in Repositories /\ reference.collections = <<>>
  BY ListingConstants DEF Listing!Init
<1>2. slugs \in Seq(Seq(Listing!Entries))  BY <1>1, FirstsOf DEF Listing!Init
<1>3. entries \in Seq(Listing!Entries)
  <2>1. CASE Listing!Strict
    <3>1. Listing!Whole(reference.repository) \in Listing!Entries
      BY <1>1, <2>1, ListingConstants DEF Listing!Strict
    <3>2. entries = <<Listing!Whole(reference.repository)>>  BY <2>1 DEF Listing!Init
    <3> QED  BY <3>1, <3>2
  <2>2. CASE ~Listing!Strict  BY <2>2 DEF Listing!Init
  <2> QED  BY <2>1, <2>2
<1>4. known = [r \in Repositories |-> <<>>] /\ fetched = [r \in Repositories |-> 0]
  BY DEF Listing!Init
<1>5. ListingTypes  BY <1>2, <1>3, <1>4 DEF Listing!Init, ListingTypes, InLookUp
<1>6. Remembered  BY <1>4 DEF Remembered
<1>7. IsList(<<>>) /\ DOMAIN <<>> = {}  BY DEF IsList
<1>8. RowsRead  BY <1>7 DEF Listing!Init, RowsRead
<1>9. SkillsKnown  BY <1>4 DEF SkillsKnown
<1>10. ListedOnce
  <2>1. ASSUME Listing!Strict PROVE slugs = <<>>
    <3>1. slugs = Listing!Firsts(<<>>, MaxEntries)  BY <1>1, <2>1 DEF Listing!Init, Listing!Strict
    <3>2. Len(<<>>) = 0 /\ Listing!Min2(Len(<<>>), MaxEntries) = 0  BY <1>1, EmptySeq DEF Listing!Min2
    <3>3. <<>> \in Seq({})  BY EmptySeq
    <3>4. SubSeq(<<>>, 1, 0) = <<>>  BY <3>3, SubSeqProperties
    <3> QED  BY <3>1, <3>2, <3>4 DEF Listing!Firsts
  <2>2. Listing!Strict => entries = <<Listing!Whole(reference.repository)>>  BY DEF Listing!Init
  <2>3. items = <<>>  BY DEF Listing!Init
  <2> QED  BY <1>7, <2>1, <2>2, <2>3 DEF ListedOnce
<1>11. EntriesKept
  <2>1. point = "read"  BY DEF Listing!Init
  <2>2. ASSUME NEW e \in Listing!AllEntries PROVE Awaited(e)
    <3>1. CASE Listing!Strict
      <4>1. e = Listing!Whole(reference.repository)  BY <2>2, <3>1 DEF Listing!AllEntries
      <4>2. entries = <<Listing!Whole(reference.repository)>>  BY <3>1 DEF Listing!Init
      <4>3. 1 \in DOMAIN entries /\ entries[1] = e  BY <4>1, <4>2
      <4> QED  BY <4>3 DEF Awaited
    <3>2. CASE ~Listing!Strict
      <4>1. PICK c \in Listing!ToSet(Listing!Firsts(reference.collections, MaxEntries)) :
              e \in Listing!ToSet(Listing!Firsts(c, MaxEntries))
        BY <2>2, <3>2 DEF Listing!AllEntries
      <4>2. slugs = Listing!Firsts(reference.collections, MaxEntries)  BY DEF Listing!Init
      <4>3. PICK k \in DOMAIN slugs : c = slugs[k]  BY <4>1, <4>2 DEF Listing!ToSet
      <4> QED  BY <4>1, <4>3 DEF Awaited
    <3> QED  BY <3>1, <3>2
  <2> QED  BY <2>1, <2>2 DEF EntriesKept
<1> QED  BY <1>5, <1>6, <1>8, <1>9, <1>10, <1>11 DEF ListingInv

(* The entry at hand names a Repository.                                   *)
LEMMA EntryNamed ==
  ASSUME ListingTypes, entries # <<>>
  PROVE  /\ Listing!Entry \in Listing!Entries /\ Listing!Entry.repository \in Repositories
         /\ Tail(entries) \in Seq(Listing!Entries)
<1>1. Listing!Entry \in Listing!Entries /\ Tail(entries) \in Seq(Listing!Entries)
  BY HeadTailProperties DEF ListingTypes, Listing!Entry
<1> QED  BY <1>1, ListingConstants

(* A listing that only waits keeps its parts.                              *)
LEMMA ListingFails == ListingInv /\ Listing!Fail => ListingInv'
<1> SUFFICES ASSUME ListingInv, Listing!Fail PROVE ListingInv'  OBVIOUS
<1>1. point' = "failed"
      /\ UNCHANGED <<reference, slugs, entries, page, pages, rows, known, items, fetched, lost>>
  BY DEF Listing!Fail
<1>2. ListingTypes'  BY <1>1 DEF ListingInv, ListingTypes, InLookUp
<1>3. Remembered'  BY <1>1 DEF ListingInv, Remembered
<1>4. RowsRead'  BY <1>1 DEF ListingInv, RowsRead
<1>5. SkillsKnown'  BY <1>1 DEF ListingInv, SkillsKnown, AllSkillsOf
<1>6. EntriesKept'  BY <1>1, Zenon DEF ListingInv, EntriesKept, EntryStands, NameStands, Awaited, AllSkillsOf,
                              Listing!AllEntries, Listing!Strict
<1>7. ListedOnce'  BY <1>1 DEF ListingInv, ListedOnce, Listing!Same, Listing!Strict, Listing!Selector,
                           Listing!Identity, Listing!Whole
<1> QED  BY <1>2, <1>3, <1>4, <1>5, <1>6, <1>7 DEF ListingInv

(* What stands in the listing goes on to stand there.                      *)
LEMMA StandsOn ==
  ASSUME NEW e, EntryStands(e), lost \subseteq lost',
         Listing!Identities(items) \subseteq Listing!Identities(items')
  PROVE  EntryStands(e)'
<1>3. CASE e.name # None /\ ~e.valid  BY <1>3 DEF EntryStands
<1>1. CASE e.name # None /\ e.valid
  <2>1. NameStands(e)  BY <1>1 DEF EntryStands
  <2>2. NameStands(e)'  BY <2>1 DEF NameStands, Listing!Identities
  <2> QED  BY <1>1, <2>2 DEF EntryStands
<1>2. CASE e.name = None
  <2>1. AllSkillsOf(e.repository, Listing!Identities(items))  BY <1>2 DEF EntryStands
  <2>2. Listing!Identities(items)' = Listing!Identities(items')  BY DEF Listing!Identities
  <2>3. AllSkillsOf(e.repository, Listing!Identities(items))'  BY <2>1, <2>2 DEF AllSkillsOf
  <2> QED  BY <1>2, <2>3 DEF EntryStands
<1> QED  BY <1>1, <1>2, <1>3

LEMMA EntriesGoOn ==
  ASSUME EntriesKept, UNCHANGED <<reference, slugs, entries, items>>, lost \subseteq lost', point' # "listed"
  PROVE  EntriesKept'
<1>1. ASSUME NEW e \in Listing!AllEntries' PROVE EntryStands(e)' \/ Awaited(e)'
  <2>1. e \in Listing!AllEntries  BY <1>1 DEF Listing!AllEntries, Listing!Strict
  <2>2. CASE EntryStands(e)  BY <2>2, StandsOn
  <2>3. CASE Awaited(e)  BY <2>3 DEF Awaited
  <2> QED  BY <2>1, <2>2, <2>3 DEF EntriesKept
<1> QED  BY <1>1 DEF EntriesKept

LEMMA SkillsStayKnown ==
  ASSUME SkillsKnown, UNCHANGED known, lost \subseteq lost'
  PROVE  SkillsKnown'
BY DEF SkillsKnown, AllSkillsOf

LEMMA ReadCollectionKeeps == ListingInv /\ Listing!ReadCollection => ListingInv'
<1> SUFFICES ASSUME ListingInv, Listing!ReadCollection, ~Listing!Fail PROVE ListingInv'
  BY ListingFails
<1>1. ListingTypes /\ Remembered /\ RowsRead /\ SkillsKnown /\ EntriesKept /\ ListedOnce  BY DEF ListingInv
<1> DEFINE more == Listing!Firsts(Head(slugs), MaxEntries)
<1>2. /\ point = "read" /\ slugs # <<>> /\ slugs' = Tail(slugs) /\ entries' = entries \o more
      /\ UNCHANGED <<reference, point, page, pages, rows, known, items, fetched, lost>>
  BY DEF Listing!ReadCollection
<1>3. /\ Head(slugs) \in Seq(Listing!Entries) /\ Head(slugs) = slugs[1]
      /\ Tail(slugs) \in Seq(Seq(Listing!Entries)) /\ Len(slugs) \in Nat /\ DOMAIN slugs = 1..Len(slugs)
      /\ Len(Tail(slugs)) = Len(slugs) - 1
      /\ \A k \in 1..Len(Tail(slugs)) : Tail(slugs)[k] = slugs[k + 1]
  <2> DEFINE E == Seq(Listing!Entries)
  <2>1. slugs \in Seq(E)  BY <1>1 DEF ListingTypes
  <2> HIDE DEF E
  <2>2. /\ Head(slugs) \in E /\ Head(slugs) = slugs[1] /\ Tail(slugs) \in Seq(E)
        /\ Len(Tail(slugs)) = Len(slugs) - 1 /\ \A k \in 1..Len(Tail(slugs)) : Tail(slugs)[k] = slugs[k + 1]
    BY <1>2, <2>1, HeadTailProperties
  <2>3. Len(slugs) \in Nat /\ DOMAIN slugs = 1..Len(slugs)  BY <2>1
  <2> QED  BY <2>2, <2>3 DEF E
<1>4. more \in Seq(Listing!Entries)  BY <1>3, FirstsOf, ListingConstants
<1>5. IsList(entries) /\ IsList(more) /\ entries \in Seq(Listing!Entries)
  BY <1>1, <1>4, SequenceIsList DEF ListingTypes
<1>6. entries' \in Seq(Listing!Entries)  BY <1>2, <1>4, <1>5, ConcatProperties
<1>7. ListingTypes'  BY <1>1, <1>2, <1>3, <1>6 DEF ListingTypes, InLookUp
<1>8. Remembered'  BY <1>1, <1>2 DEF Remembered, InLookUp
<1>9. RowsRead'  BY <1>1, <1>2 DEF RowsRead
<1>10. SkillsKnown'  BY <1>1, <1>2, SkillsStayKnown
<1>11. ListedOnce'  BY <1>1, <1>2 DEF ListedOnce, Listing!Same, Listing!Strict, Listing!Selector,
                           Listing!Identity, Listing!Whole
<1>12. ASSUME NEW e, Awaited(e) PROVE Awaited(e)'
  <2>1. /\ \A i \in DOMAIN entries : i \in DOMAIN entries' /\ entries'[i] = entries[i]
        /\ \A j \in DOMAIN more : Len(entries) + j \in DOMAIN entries' /\ entries'[Len(entries) + j] = more[j]
    BY <1>2, <1>5, ConcatLists
  <2>2. CASE \E k \in DOMAIN entries : e = entries[k]  BY <2>1, <2>2 DEF Awaited
  <2>3. ASSUME NEW k \in DOMAIN slugs, e \in Listing!ToSet(Listing!Firsts(slugs[k], MaxEntries))
        PROVE  Awaited(e)'
    <3>1. CASE k = 1
      <4>1. PICK j \in DOMAIN more : e = more[j]  BY <1>3, <2>3, <3>1 DEF Listing!ToSet
      <4> QED  BY <2>1, <4>1 DEF Awaited
    <3>2. CASE k # 1
      <4>1. k - 1 \in 1..Len(Tail(slugs)) /\ slugs[k] = Tail(slugs)[k - 1]  BY <1>3, <3>2
      <4>2. DOMAIN slugs' = 1..Len(Tail(slugs))
        <5> DEFINE E == Seq(Listing!Entries)
        <5>1. Tail(slugs) \in Seq(E)  BY <1>3
        <5> HIDE DEF E
        <5> QED  BY <1>2, <5>1
      <4>3. k - 1 \in DOMAIN slugs' /\ slugs'[k - 1] = slugs[k]  BY <1>2, <4>1, <4>2
      <4>4. e \in Listing!ToSet(Listing!Firsts(slugs'[k - 1], MaxEntries))  BY <2>3, <4>3
      <4> QED  BY <4>3, <4>4, Zenon DEF Awaited, Listing!ToSet, Listing!Firsts, Listing!Min2
    <3> QED  BY <3>1, <3>2
  <2> QED  BY <1>12, <2>2, <2>3 DEF Awaited
<1>13. EntriesKept'
  <2>1. ASSUME NEW e \in Listing!AllEntries' PROVE EntryStands(e)' \/ Awaited(e)'
    <3>1. e \in Listing!AllEntries  BY <1>2, <2>1 DEF Listing!AllEntries, Listing!Strict
    <3>2. CASE EntryStands(e)  BY <1>2, <3>2, StandsOn
    <3>3. CASE Awaited(e)  BY <1>12, <3>3
    <3> QED  BY <1>1, <3>1, <3>2, <3>3 DEF EntriesKept
  <2> QED  BY <1>2, <2>1 DEF EntriesKept
<1> QED  BY <1>7, <1>8, <1>9, <1>10, <1>11, <1>13 DEF ListingInv

LEMMA LookUpKeeps == ListingInv /\ Listing!LookUp => ListingInv'
<1> SUFFICES ASSUME ListingInv, Listing!LookUp PROVE ListingInv'  OBVIOUS
<1>1. ListingTypes /\ Remembered /\ RowsRead /\ SkillsKnown /\ EntriesKept /\ ListedOnce  BY DEF ListingInv
<1>2. /\ point = "read" /\ entries # <<>> /\ known[Listing!Entry.repository] = <<>>
      /\ point' = "registry" /\ page' = 1 /\ rows' = <<>>
      /\ fetched' = [fetched EXCEPT ![Listing!Entry.repository] = @ + 1]
      /\ UNCHANGED <<reference, slugs, entries, known, items, lost>>
  BY DEF Listing!LookUp, Listing!Expand
<1>3. Listing!Entry.repository \in Repositories  BY <1>1, <1>2, EntryNamed
<1>4. Listing!Entry' = Listing!Entry  BY <1>2 DEF Listing!Entry
<1>5. fetched[Listing!Entry.repository] = 0
  BY <1>1, <1>2, <1>3 DEF Remembered, ListingTypes, InLookUp
<1>6. /\ fetched' \in [Repositories -> Nat] /\ fetched'[Listing!Entry.repository] = 1
      /\ \A r \in Repositories : r # Listing!Entry.repository => fetched'[r] = fetched[r]
  BY <1>1, <1>2, <1>3, <1>5 DEF ListingTypes
<1>7. ListingTypes'  BY <1>1, <1>2, <1>6 DEF ListingTypes, InLookUp
<1>8. Remembered'  BY <1>1, <1>2, <1>4, <1>6 DEF Remembered, InLookUp
<1>9. RowsRead'
  <2>1. IsList(<<>>) /\ DOMAIN <<>> = {}  BY DEF IsList
  <2>2. \A k \in DOMAIN Rows : ~(k <= (1 - 1) * PageSize)
    <3>1. DOMAIN Rows = 1..Len(Rows)  BY ListingConstants, ListPlaces
    <3>2. (1 - 1) * PageSize = 0  BY ListingConstants
    <3> QED  BY <3>1, <3>2
  <2> QED  BY <1>2, <2>1, <2>2 DEF RowsRead
<1>10. SkillsKnown'  BY <1>1, <1>2, SkillsStayKnown
<1>11. ListedOnce'  BY <1>1, <1>2 DEF ListedOnce, Listing!Same, Listing!Strict, Listing!Selector,
                           Listing!Identity, Listing!Whole
<1>12. EntriesKept'  BY <1>1, <1>2, EntriesGoOn
<1> QED  BY <1>7, <1>8, <1>9, <1>10, <1>11, <1>12 DEF ListingInv

LEMMA ListingDoneKeeps == ListingInv /\ Listing!Done => ListingInv'
<1> SUFFICES ASSUME ListingInv, Listing!Done PROVE ListingInv'  OBVIOUS
<1>1. ListingTypes /\ Remembered /\ RowsRead /\ SkillsKnown /\ EntriesKept /\ ListedOnce  BY DEF ListingInv
<1>2. /\ point = "read" /\ slugs = <<>> /\ entries = <<>> /\ point' = "listed"
      /\ UNCHANGED <<reference, slugs, entries, page, pages, rows, known, items, fetched, lost>>
  BY DEF Listing!Done
<1>3. ListingTypes'  BY <1>1, <1>2 DEF ListingTypes, InLookUp
<1>4. Remembered'  BY <1>1, <1>2 DEF Remembered, InLookUp
<1>5. RowsRead'  BY <1>1, <1>2 DEF RowsRead
<1>6. SkillsKnown'  BY <1>1, <1>2, SkillsStayKnown
<1>7. ListedOnce'  BY <1>1, <1>2 DEF ListedOnce, Listing!Same, Listing!Strict, Listing!Selector,
                           Listing!Identity, Listing!Whole
<1>8. EntriesKept'
  <2>1. ASSUME NEW e \in Listing!AllEntries' PROVE EntryStands(e)' \/ Awaited(e)'
    <3>1. e \in Listing!AllEntries  BY <1>2, <2>1 DEF Listing!AllEntries, Listing!Strict
    <3>2. CASE EntryStands(e)  BY <1>2, <3>2, StandsOn
    <3>3. CASE Awaited(e)  BY <1>2, <3>3 DEF Awaited
    <3> QED  BY <1>1, <3>1, <3>2, <3>3 DEF EntriesKept
  <2> QED  BY <1>2, <2>1 DEF EntriesKept
<1> QED  BY <1>3, <1>4, <1>5, <1>6, <1>7, <1>8 DEF ListingInv

(* A page that is read adds its rows, and the last one completes them.     *)
LEMMA PageRows ==
  ASSUME NEW p \in Nat \ {0}
  PROVE  /\ IsList(Listing!RowsOf(p)) /\ (p - 1) * PageSize \in Nat
         /\ p * PageSize = (p - 1) * PageSize + PageSize
         /\ \A j \in DOMAIN Listing!RowsOf(p) : \E k \in DOMAIN Rows : Listing!RowsOf(p)[j] = Rows[k]
         /\ \A k \in DOMAIN Rows : ((p - 1) * PageSize < k /\ k <= p * PageSize) =>
              \E j \in DOMAIN Listing!RowsOf(p) : Listing!RowsOf(p)[j] = Rows[k]
         /\ Len(Listing!RowsOf(p)) < PageSize => Len(Rows) < p * PageSize
<1> DEFINE n == Len(Rows)  low == (p - 1) * PageSize  high == Listing!Min2(p * PageSize, n)  part1 == Listing!RowsOf(p)
<1>1. n \in Nat /\ DOMAIN Rows = 1..n /\ PageSize \in Nat \ {0}  BY ListingConstants, ListPlaces
<1>2. low \in Nat /\ p * PageSize = low + PageSize
  <2>1. p - 1 \in Nat /\ (p - 1) + 1 = p  OBVIOUS
  <2> QED  BY <1>1, <2>1, Multiples
<1> HIDE DEF low
<1>8. high = Listing!Min2(low + PageSize, n)  BY <1>2
<1> HIDE DEF high, n
<1>3. high \in Nat /\ high <= n /\ high <= low + PageSize /\ (high = n \/ high = low + PageSize)
  <2>1. low + PageSize \in Nat /\ n \in Nat  BY <1>1, <1>2
  <2>2. high = IF low + PageSize < n THEN low + PageSize ELSE n  BY <1>8 DEF Listing!Min2
  <2> HIDE DEF part1
  <2> QED  BY <2>1, <2>2
<1> DEFINE E == {Rows[k] : k \in 1..n}
<1>4. Rows \in Seq(E)
  <2>1. \A k \in DOMAIN Rows : Rows[k] \in E  BY <1>1
  <2> HIDE DEF E
  <2> QED  BY <2>1, ListIsSequence, ListingConstants
<1>5. part1 = SubSeq(Rows, low + 1, high)  BY DEF Listing!RowsOf, low, high, n
<1> HIDE DEF part1
<1>6. CASE low + 1 <= high
  <2>1. \A i \in (low + 1)..high : Rows[i] \in E
    <3>1. \A i \in (low + 1)..high : i \in 1..n  BY <1>1, <1>2, <1>3
    <3> QED  BY <3>1
  <2> HIDE DEF E
  <2>2. /\ part1 \in Seq(E) /\ Len(part1) = high - (low + 1) + 1
        /\ \A i \in 1..(high - (low + 1) + 1) : part1[i] = Rows[(low + 1) + i - 1]
    BY <1>2, <1>3, <1>5, <1>6, <2>1, SubSeqProperties
  <2>3. /\ high - (low + 1) + 1 = high - low
        /\ \A i \in 1..(high - low) : (low + 1) + i - 1 = low + i /\ low + i \in 1..n
    BY <1>1, <1>2, <1>3
  <2>4. IsList(part1)  BY <2>2, SequenceIsList
  <2>5. DOMAIN part1 = 1..(high - low) /\ \A i \in 1..(high - low) : part1[i] = Rows[low + i]
    BY <2>2, <2>3
  <2>6. \A k \in 1..n : (low < k /\ k <= low + PageSize) =>
          \E j \in 1..(high - low) : part1[j] = Rows[k]
    <3> SUFFICES ASSUME NEW k \in 1..n, low < k, k <= low + PageSize
                 PROVE  \E j \in 1..(high - low) : part1[j] = Rows[k]
      OBVIOUS
    <3>1. k - low \in 1..(high - low) /\ low + (k - low) = k  BY <1>1, <1>2, <1>3
    <3> QED  BY <2>5, <3>1
  <2>7. Len(part1) < PageSize => n < low + PageSize  BY <1>1, <1>2, <1>3, <2>2, <2>3
  <2>8. \A j \in DOMAIN part1 : \E k \in DOMAIN Rows : part1[j] = Rows[k]  BY <1>1, <2>3, <2>5
  <2> QED  BY <1>1, <1>2, <2>4, <2>5, <2>6, <2>7, <2>8 DEF n, part1, low
<1>7. CASE ~(low + 1 <= high)
  <2>1. part1 = <<>>
    <3> HIDE DEF E
    <3> QED  BY <1>2, <1>3, <1>4, <1>5, <1>7, SubSeqProperties
  <2>2. IsList(part1) /\ DOMAIN part1 = {} /\ Len(part1) = 0  BY <2>1 DEF IsList
  <2>3. \A k \in 1..n : ~(low < k /\ k <= low + PageSize)  BY <1>1, <1>2, <1>3, <1>7
  <2>4. n < low + PageSize  BY <1>1, <1>2, <1>3, <1>7
  <2> QED  BY <1>1, <1>2, <2>2, <2>3, <2>4 DEF n, part1, low
<1> QED  BY <1>6, <1>7

LEMMA PagesEnough ==
  /\ Listing!PageCount \in Nat
  /\ Listing!PageCount < MaxPages => Len(Rows) <= Listing!PageCount * PageSize
<1> DEFINE n == Len(Rows)  c == Compare!DivCeil(n, PageSize)
<1>1. n \in Nat /\ PageSize \in Nat \ {0} /\ MaxPages \in Nat  BY ListingConstants, ListPlaces
<1>2. c \in Nat /\ n <= c * PageSize  BY <1>1, ChunkCount
<1>3. Listing!PageCount = Listing!Min2(c, MaxPages)  BY DEF Listing!PageCount, Compare!DivCeil
<1> HIDE DEF c
<1>4. Listing!PageCount \in Nat /\ (Listing!PageCount < MaxPages => Listing!PageCount = c)
  BY <1>1, <1>2, <1>3 DEF Listing!Min2
<1> QED  BY <1>2, <1>4

LEMMA ReadPageKeeps == ListingInv /\ Listing!ReadRegistryPage => ListingInv'
<1> SUFFICES ASSUME ListingInv, Listing!ReadRegistryPage, ~Listing!Fail PROVE ListingInv'
  BY ListingFails
<1>1. ListingTypes /\ Remembered /\ RowsRead /\ SkillsKnown /\ EntriesKept /\ ListedOnce  BY DEF ListingInv
<1>2. /\ point = "registry" /\ point' \in {"rows", "registry"}
      /\ rows' = rows \o Listing!RowsOf(page) /\ page' = page + 1
      /\ pages' = IF page = 1 THEN Listing!PageCount ELSE pages
      /\ point' = "rows" => page >= pages' \/ (page > 1 /\ Len(Listing!RowsOf(page)) < PageSize)
      /\ UNCHANGED <<reference, slugs, entries, known, items, fetched, lost>>
  BY DEF Listing!ReadRegistryPage
<1>3. ListingTypes'  BY <1>1, <1>2 DEF ListingTypes, InLookUp
<1>4. Remembered'  BY <1>1, <1>2 DEF Remembered, InLookUp, Listing!Entry
<1>5. SkillsKnown'  BY <1>1, <1>2, SkillsStayKnown
<1>6. ListedOnce'  BY <1>1, <1>2 DEF ListedOnce, Listing!Same, Listing!Strict, Listing!Selector,
                           Listing!Identity, Listing!Whole
<1>7. EntriesKept'  BY <1>1, <1>2, EntriesGoOn
<1>8. RowsRead'
  <2>1. /\ page \in Nat \ {0} /\ (page > 1 => pages = Listing!PageCount) /\ IsList(rows)
        /\ \A k \in DOMAIN Rows : k <= (page - 1) * PageSize => \E j \in DOMAIN rows : rows[j] = Rows[k]
        /\ \A j \in DOMAIN rows : \E k \in DOMAIN Rows : rows[j] = Rows[k]
    BY <1>1, <1>2 DEF RowsRead
  <2>2. /\ IsList(Listing!RowsOf(page)) /\ (page - 1) * PageSize \in Nat
        /\ page * PageSize = (page - 1) * PageSize + PageSize
        /\ \A j \in DOMAIN Listing!RowsOf(page) : \E k \in DOMAIN Rows : Listing!RowsOf(page)[j] = Rows[k]
        /\ \A k \in DOMAIN Rows : ((page - 1) * PageSize < k /\ k <= page * PageSize) =>
             \E j \in DOMAIN Listing!RowsOf(page) : Listing!RowsOf(page)[j] = Rows[k]
        /\ Len(Listing!RowsOf(page)) < PageSize => Len(Rows) < page * PageSize
    BY <2>1, PageRows
  <2>3. /\ IsList(rows') /\ DOMAIN rows' = 1..(Len(rows) + Len(Listing!RowsOf(page)))
        /\ \A i \in DOMAIN rows' :
             rows'[i] = IF i \in DOMAIN rows THEN rows[i] ELSE Listing!RowsOf(page)[i - Len(rows)]
        /\ \A i \in DOMAIN rows : i \in DOMAIN rows' /\ rows'[i] = rows[i]
        /\ \A j \in DOMAIN Listing!RowsOf(page) :
             Len(rows) + j \in DOMAIN rows' /\ rows'[Len(rows) + j] = Listing!RowsOf(page)[j]
    BY <1>2, <2>1, <2>2, ConcatLists
  <2>4. \A i \in DOMAIN rows' : \E k \in DOMAIN Rows : rows'[i] = Rows[k]
    <3> SUFFICES ASSUME NEW i \in DOMAIN rows' PROVE \E k \in DOMAIN Rows : rows'[i] = Rows[k]  OBVIOUS
    <3>1. CASE i \in DOMAIN rows  BY <2>1, <2>3, <3>1
    <3>2. CASE i \notin DOMAIN rows
      <4>1. /\ DOMAIN rows = 1..Len(rows) /\ Len(rows) \in Nat /\ Len(Listing!RowsOf(page)) \in Nat
            /\ DOMAIN Listing!RowsOf(page) = 1..Len(Listing!RowsOf(page))
        BY <2>1, <2>2, ListPlaces
      <4>2. i - Len(rows) \in 1..Len(Listing!RowsOf(page))  BY <2>3, <3>2, <4>1
      <4> QED  BY <2>2, <2>3, <3>2, <4>1, <4>2
    <3> QED  BY <3>1, <3>2
  <2>5. \A k \in DOMAIN Rows : k <= page * PageSize => \E j \in DOMAIN rows' : rows'[j] = Rows[k]
    <3> SUFFICES ASSUME NEW k \in DOMAIN Rows, k <= page * PageSize
                 PROVE  \E j \in DOMAIN rows' : rows'[j] = Rows[k]
      OBVIOUS
    <3>1. CASE k <= (page - 1) * PageSize  BY <2>1, <2>3, <3>1
    <3>2. CASE ~(k <= (page - 1) * PageSize)
      <4>1. DOMAIN Rows = 1..Len(Rows) /\ Len(Rows) \in Nat  BY ListingConstants, ListPlaces
      <4>2. (page - 1) * PageSize < k  BY <2>2, <3>2, <4>1
      <4> QED  BY <2>2, <2>3, <4>2
    <3> QED  BY <3>1, <3>2
  <2>6. pages' = Listing!PageCount  BY <1>2, <2>1
  <2>7. page' \in Nat \ {0} /\ page' - 1 = page  BY <1>2, <2>1
  <2>8. ASSUME point' = "rows", Listing!PageCount < MaxPages
        PROVE  \A k \in DOMAIN Rows : \E j \in DOMAIN rows' : rows'[j] = Rows[k]
    <3>1. Listing!PageCount \in Nat /\ Len(Rows) <= Listing!PageCount * PageSize  BY <2>8, PagesEnough
    <3>2. DOMAIN Rows = 1..Len(Rows) /\ Len(Rows) \in Nat /\ PageSize \in Nat \ {0}
      BY ListingConstants, ListPlaces
    <3>3. Len(Rows) <= page * PageSize
      <4>1. CASE page >= pages'
        <5>1. Listing!PageCount * PageSize <= page * PageSize /\ Listing!PageCount * PageSize \in Nat
          BY <2>1, <2>6, <3>1, <3>2, <4>1, Multiples
        <5> QED  BY <3>1, <3>2, <5>1, <2>2
      <4>2. CASE Len(Listing!RowsOf(page)) < PageSize  BY <2>2, <3>2, <4>2
      <4> QED  BY <1>2, <2>8, <4>1, <4>2
    <3>4. \A k \in DOMAIN Rows : k <= page * PageSize  BY <2>2, <3>2, <3>3
    <3> QED  BY <2>5, <3>4
  <2> QED  BY <1>2, <2>3, <2>4, <2>5, <2>6, <2>7, <2>8, Zenon DEF RowsRead
<1> QED  BY <1>3, <1>4, <1>5, <1>6, <1>7, <1>8 DEF ListingInv

(* What the registry or the tree gives is remembered of the Repository.    *)
LEMMA RememberKeeps ==
  ASSUME ListingInv, NEW skills, Listing!Remember(skills), point \in {"rows", "github"}, IsList(skills),
         NEW r, r = Listing!Entry.repository, lost \subseteq lost',
         \A k \in DOMAIN skills : skills[k] \in Listing!InRows(r) \cup Listing!OfTree(r),
         (Listing!InRows(r) # {} /\ Listing!PageCount < MaxPages) =>
           \A s \in Listing!InRows(r) : Listing!Identity(s) \in Listing!Identities(skills),
         (Listing!InRows(r) = {} /\ r \notin lost') =>
           \A s \in Listing!OfTree(r) : Listing!Identity(s) \in Listing!Identities(skills),
         SelectedOnce(skills)
  PROVE  ListingInv'
<1>1. ListingTypes /\ Remembered /\ RowsRead /\ SkillsKnown /\ EntriesKept /\ ListedOnce  BY DEF ListingInv
<1>2. /\ known' = [known EXCEPT ![r] = <<skills>>] /\ point' = "read"
      /\ UNCHANGED <<reference, slugs, entries, page, pages, rows, items, fetched>>
  BY DEF Listing!Remember
<1>3. r \in Repositories  BY <1>1, EntryNamed DEF ListingTypes, InLookUp
<1>4. <<skills>> # <<>> /\ <<skills>>[1] = skills  OBVIOUS
<1>5. /\ known' = [q \in Repositories |-> known'[q]] /\ known'[r] = <<skills>>
      /\ \A q \in Repositories : q # r => known'[q] = known[q]
  BY <1>1, <1>2, <1>3, Zenon DEF ListingTypes
<1>6. ListingTypes'  BY <1>1, <1>2, <1>5 DEF ListingTypes, InLookUp
<1>7. \A q \in Repositories : fetched'[q] <= 1 /\ (fetched'[q] = 1 => known'[q] # <<>>)
  BY <1>1, <1>2, <1>4, <1>5 DEF Remembered
<1>8. Remembered'  BY <1>7 DEF Remembered
<1>9. RowsRead'  BY <1>1, <1>2 DEF RowsRead
<1>10. ListedOnce'  BY <1>1, <1>2 DEF ListedOnce, Listing!Same, Listing!Strict, Listing!Selector,
                           Listing!Identity, Listing!Whole
<1>11. EntriesKept'  BY <1>1, <1>2, EntriesGoOn
<1>12. SkillsKnown'
  <2> SUFFICES ASSUME NEW q \in Repositories, known'[q] # <<>>
               PROVE  /\ IsList(known'[q][1])
                      /\ \A k \in DOMAIN known'[q][1] :
                           known'[q][1][k] \in Listing!InRows(q) \cup Listing!OfTree(q)
                      /\ AllSkillsOf(q, Listing!Identities(known[q][1]))'
                      /\ SelectedOnce(known'[q][1])
    BY Zenon DEF SkillsKnown, IsList, SelectedOnce
  <2>1. CASE q = r
    <3>1. known'[q][1] = skills  BY <1>4, <1>5, <2>1
    <3>2. AllSkillsOf(q, Listing!Identities(known[q][1]))'  BY <2>1, <3>1 DEF AllSkillsOf, Listing!Identities
    <3> QED  BY <2>1, <3>1, <3>2
  <2>2. CASE q # r
    <3>1. known'[q] = known[q]  BY <1>5, <2>2
    <3>2. /\ IsList(known[q][1])
          /\ \A k \in DOMAIN known[q][1] : known[q][1][k] \in Listing!InRows(q) \cup Listing!OfTree(q)
          /\ AllSkillsOf(q, Listing!Identities(known[q][1])) /\ SelectedOnce(known[q][1])
      BY <1>1, <3>1 DEF SkillsKnown
    <3>3. AllSkillsOf(q, Listing!Identities(known[q][1]))'  BY <3>1, <3>2 DEF AllSkillsOf, Listing!Identities
    <3> QED  BY <3>1, <3>2, <3>3
  <2> QED  BY <2>1, <2>2
<1> QED  BY <1>6, <1>8, <1>9, <1>10, <1>11, <1>12 DEF ListingInv

(* The Skills of a Repository among some rows.                             *)
LEMMA RepositoryRows ==
  ASSUME NEW s, IsList(s), NEW r
  PROVE  /\ IsList(Listing!InRepository(s, r))
         /\ \A i \in DOMAIN Listing!InRepository(s, r) :
              \E k \in Listing!ValidRows(s, r) : Listing!InRepository(s, r)[i] = Listing!Listed(s[k])
         /\ \A k \in Listing!ValidRows(s, r) :
              \E i \in DOMAIN Listing!InRepository(s, r) : Listing!InRepository(s, r)[i] = Listing!Listed(s[k])
<1> DEFINE K == Listing!ValidRows(s, r)  p == Listing!Picked(s, K)  q == Listing!InRepository(s, r)
<1>1. K \in SUBSET DOMAIN s  BY DEF Listing!ValidRows
<1>2. q = [k \in DOMAIN p |-> Listing!Listed(p[k])]  BY DEF Listing!InRepository
<1> HIDE DEF K, q
<1>3. PickedFits(s, K, p)  BY <1>1, PickedElements
<1> HIDE DEF p
<1>4. Len(p) \in Nat /\ DOMAIN p = 1..Len(p)  BY <1>3, ListPlaces DEF PickedFits
<1>5. DOMAIN q = 1..Len(p) /\ q = [i \in 1..Len(p) |-> q[i]] /\ \A i \in DOMAIN q : q[i] = Listing!Listed(p[i])
  BY <1>2, <1>4
<1>6. IsList(q)  BY <1>4, <1>5, FunctionIsAList
<1>7. \A i \in DOMAIN q : \E k \in K : q[i] = Listing!Listed(s[k])  BY <1>3, <1>4, <1>5 DEF PickedFits
<1>8. \A k \in K : \E i \in DOMAIN q : q[i] = Listing!Listed(s[k])  BY <1>3, <1>4, <1>5 DEF PickedFits
<1> QED  BY <1>6, <1>7, <1>8 DEF q, K

LEMMA UseRowsKeeps == ListingInv /\ Listing!UseRows => ListingInv'
<1> SUFFICES ASSUME ListingInv, Listing!UseRows PROVE ListingInv'  OBVIOUS
<1> DEFINE r == Listing!Entry.repository  all == Listing!InRepository(rows, r)  
           found == Listing!NewOf(all, Listing!EachSelector(all), {})
<1>1. ListingTypes /\ Remembered /\ RowsRead /\ SkillsKnown /\ EntriesKept /\ ListedOnce  BY DEF ListingInv
<1>2. /\ point = "rows"
      /\ \/ found # <<>> /\ Listing!Remember(found) /\ UNCHANGED lost
         \/ /\ found = <<>> /\ point' = "github"
            /\ UNCHANGED <<reference, slugs, entries, page, pages, rows, known, items, fetched, lost>>
  BY DEF Listing!UseRows
<1>3. /\ IsList(rows) /\ \A j \in DOMAIN rows : \E k \in DOMAIN Rows : rows[j] = Rows[k]
      /\ Listing!PageCount < MaxPages => \A k \in DOMAIN Rows : \E j \in DOMAIN rows : rows[j] = Rows[k]
  BY <1>1, <1>2 DEF RowsRead
<1>4. /\ IsList(all)
      /\ \A i \in DOMAIN all : \E k \in Listing!ValidRows(rows, r) : all[i] = Listing!Listed(rows[k])
      /\ \A k \in Listing!ValidRows(rows, r) : \E i \in DOMAIN all : all[i] = Listing!Listed(rows[k])
  BY <1>3, RepositoryRows
<1>5. \A i \in DOMAIN all : all[i] \in Listing!InRows(r)
  <2> SUFFICES ASSUME NEW i \in DOMAIN all PROVE all[i] \in Listing!InRows(r)  OBVIOUS
  <2>1. PICK k \in Listing!ValidRows(rows, r) : all[i] = Listing!Listed(rows[k])  BY <1>4
  <2>2. PICK j \in DOMAIN Rows : rows[k] = Rows[j]  BY <1>3, <2>1 DEF Listing!ValidRows
  <2>3. j \in Listing!ValidRows(Rows, r)  BY <2>1, <2>2 DEF Listing!ValidRows
  <2> HIDE DEF all
  <2> QED  BY <2>1, <2>2, <2>3 DEF Listing!InRows
<1>6. ASSUME Listing!PageCount < MaxPages, NEW s \in Listing!InRows(r) PROVE \E i \in DOMAIN all : all[i] = s
  <2>1. PICK k \in Listing!ValidRows(Rows, r) : s = Listing!Listed(Rows[k])  BY <1>6 DEF Listing!InRows
  <2>2. PICK j \in DOMAIN rows : rows[j] = Rows[k]  BY <1>3, <1>6, <2>1 DEF Listing!ValidRows
  <2>3. j \in Listing!ValidRows(rows, r)  BY <2>1, <2>2 DEF Listing!ValidRows
  <2> HIDE DEF all
  <2> QED  BY <1>4, <2>1, <2>2, <2>3
<1> HIDE DEF all
<1>7. /\ IsList(found) /\ SelectedOnce(found)
      /\ \A i \in DOMAIN found : \E k \in DOMAIN all : found[i] = all[k]
      /\ \A k \in DOMAIN all : Listing!Identity(all[k]) \in Listing!Identities(found)
  BY <1>4, NewSelectors
<1> HIDE DEF found
<1>8. \A s \in Listing!InRows(r) : Listing!PageCount < MaxPages =>
        Listing!Identity(s) \in Listing!Identities(found)
  BY <1>6, <1>7
<1>9. IsList(found) /\ SelectedOnce(found) /\ \A i \in DOMAIN found : found[i] \in Listing!InRows(r)
  BY <1>5, <1>7
<1>10. CASE found # <<>>
  <2>1. Listing!InRows(r) # {}  BY <1>9, <1>10, ListPlaces, Zenon
  <2> HIDE DEF r
  <2>2. Listing!Remember(found) /\ UNCHANGED lost  BY <1>2, <1>10
  <2> QED  BY <1>2, <1>8, <1>9, <2>1, <2>2, RememberKeeps DEF r
<1>11. CASE found = <<>>
  <2>1. /\ point' = "github"
        /\ UNCHANGED <<reference, slugs, entries, page, pages, rows, known, items, fetched, lost>>
    BY <1>2, <1>11
  <2>2. DOMAIN found = {}  BY <1>9, <1>11, ListPlaces
  <2>3. Listing!PageCount < MaxPages => Listing!InRows(r) = {}  BY <1>8, <2>2 DEF Listing!Identities
  <2>4. RowsRead'  BY <1>1, <2>1, <2>3 DEF RowsRead, Listing!Entry
  <2>5. ListingTypes'  BY <1>1, <1>2, <2>1 DEF ListingTypes, InLookUp
  <2>6. Remembered'  BY <1>1, <1>2, <2>1 DEF Remembered, InLookUp, Listing!Entry
  <2>7. SkillsKnown'  BY <1>1, <2>1, SkillsStayKnown
  <2>8. ListedOnce'  BY <1>1, <2>1 DEF ListedOnce, Listing!Same, Listing!Strict, Listing!Selector,
                           Listing!Identity, Listing!Whole
  <2>9. EntriesKept'  BY <1>1, <2>1, EntriesGoOn
  <2> QED  BY <2>4, <2>5, <2>6, <2>7, <2>8, <2>9 DEF ListingInv
<1> QED  BY <1>10, <1>11

LEMMA ReadGithubKeeps == ListingInv /\ Listing!ReadGithub => ListingInv'
<1> SUFFICES ASSUME ListingInv, Listing!ReadGithub PROVE ListingInv'  OBVIOUS
<1> DEFINE r == Listing!Entry.repository  all == Listing!FromTree(r)
<1>1. ListingTypes /\ RowsRead /\ point = "github"  BY DEF ListingInv, Listing!ReadGithub
<1>2. Listing!PageCount < MaxPages => Listing!InRows(r) = {}  BY <1>1 DEF RowsRead
<1>3. r \in Repositories  BY <1>1, EntryNamed DEF ListingTypes, InLookUp
<1>4. CASE Listing!Fail  BY <1>4, ListingFails
<1>5. CASE Listing!Remember(<<>>) /\ lost' = lost \cup {r}
  <2>1. IsList(<<>>) /\ DOMAIN <<>> = {} /\ lost \subseteq lost' /\ r \in lost' /\ SelectedOnce(<<>>)
    BY <1>5 DEF IsList, SelectedOnce
  <2> HIDE DEF r
  <2> QED  BY <1>1, <1>2, <1>5, <2>1, RememberKeeps DEF r
<1>6. CASE Listing!Remember(all) /\ UNCHANGED lost
  <2>1. IsList(all)
    <3>1. Len(InTree[r]) \in Nat /\ DOMAIN InTree[r] = 1..Len(InTree[r])  BY <1>3, ListingConstants, ListPlaces
    <3>2. DOMAIN all = 1..Len(InTree[r]) /\ all = [i \in 1..Len(InTree[r]) |-> all[i]]
      BY <3>1 DEF Listing!FromTree
    <3> HIDE DEF all
    <3> QED  BY <3>1, <3>2, FunctionIsAList
  <2>2. Listing!OfTree(r) = {all[k] : k \in DOMAIN all}  BY DEF Listing!OfTree, Listing!ToSet
  <2>5. SelectedOnce(all)
    <3>1. DOMAIN all = DOMAIN InTree[r]
          /\ \A k \in DOMAIN all : all[k].path = InTree[r][k].path /\ all[k].spelling = InTree[r][k].spelling
                                  /\ all[k].repository = r
      <4>1. Len(InTree[r]) \in Nat /\ DOMAIN InTree[r] = 1..Len(InTree[r])  BY <1>3, ListingConstants, ListPlaces
      <4> QED  BY DEF Listing!FromTree
    <3>2. /\ \A k \in DOMAIN InTree[r] : InTree[r][k].path # None
          /\ \A i, j \in DOMAIN InTree[r] :
               (InTree[r][i].path = InTree[r][j].path /\ InTree[r][i].spelling = InTree[r][j].spelling) => i = j
      BY <1>3, ListingAssumption DEF Listing!ListingAssumption
    <3> HIDE DEF all, r
    <3>3. \A k \in DOMAIN all : Listing!Selector(all[k]) = <<<<r, InTree[r][k].path>>, InTree[r][k].spelling>>
      BY <3>1, <3>2 DEF Listing!Selector, Listing!Identity
    <3> QED  BY <3>1, <3>2, <3>3 DEF SelectedOnce
  <2> HIDE DEF all
  <2>3. \A k \in DOMAIN all : all[k] \in Listing!OfTree(r)  BY <2>2
  <2>4. \A s \in Listing!OfTree(r) : Listing!Identity(s) \in Listing!Identities(all)
    BY <2>2 DEF Listing!Identities
  <2> HIDE DEF r
  <2> QED  BY <1>1, <1>2, <1>6, <2>1, <2>3, <2>4, <2>5, RememberKeeps DEF r
<1> QED  BY <1>4, <1>5, <1>6 DEF Listing!ReadGithub

(* The Skills an entry leads to are those of its Repository, or the one it *)
(* names.                                                                  *)
EntryMeans(e, d) ==
  /\ IsList(d)
  /\ e.name = None => d = known[e.repository][1]
  /\ (e.name # None /\ e.valid) => \E i \in DOMAIN d :
       \/ Listing!Identity(d[i]) = <<e.repository, e.name>>
       \/ \E s \in Listing!InRows(e.repository) \cup Listing!OfTree(e.repository) :
            s.name = e.name /\ Listing!Identity(s) = Listing!Identity(d[i])

LEMMA EntryExpands ==
  ASSUME SkillsKnown, NEW e, e.repository \in Repositories, known[e.repository] # <<>>
  PROVE  EntryMeans(e, Listing!Expanded(e, known[e.repository][1]))
<1> DEFINE r == e.repository  skills == known[r][1]  d == Listing!Expanded(e, skills)
<1>1. IsList(skills) /\ \A k \in DOMAIN skills : skills[k] \in Listing!InRows(r) \cup Listing!OfTree(r)
  BY DEF SkillsKnown
<1>2. ASSUME NEW x, d = <<x>> PROVE IsList(d) /\ 1 \in DOMAIN d /\ d[1] = x
  <2> HIDE DEF d
  <2>1. Len(d) = 1 /\ d = [i \in 1..1 |-> d[i]]  BY <1>2
  <2> QED  BY <1>2, <2>1 DEF IsList
<1>3. CASE e.name = None  BY <1>1, <1>3 DEF Listing!Expanded, EntryMeans
<1>4. CASE e.name # None
  <2> DEFINE K == {k \in DOMAIN skills : skills[k].name = e.name /\ skills[k].path # None}
             matches == Listing!Picked(skills, K)
             given == [Head(matches) EXCEPT !.reason = e.reason]
             hosted == [repository |-> r, name |-> e.name, path |-> None, spelling |-> None, reason |-> e.reason]
  <2>1. K \in SUBSET DOMAIN skills  OBVIOUS
  <2>2. PickedFits(skills, K, matches)
    <3> HIDE DEF skills, K
    <3> QED  BY <1>1, <2>1, PickedElements
  <2>3. d = IF matches # <<>> THEN <<IF e.reason # None THEN given ELSE Head(matches)>>
            ELSE IF ~e.valid THEN <<>> ELSE <<hosted>>
    BY <1>4 DEF Listing!Expanded, Listing!Named
  <2>6. CASE matches = <<>> /\ ~e.valid
    <3>1. d = <<>>  BY <2>3, <2>6, Zenon
    <3>2. IsList(d)
      <4> HIDE DEF d
      <4> QED  BY <3>1 DEF IsList
    <3> QED  BY <1>4, <2>6, <3>2 DEF EntryMeans
  <2>4. CASE matches = <<>> /\ e.valid
    <3>1. d = <<hosted>>  BY <2>3, <2>4, Zenon
    <3>2. Listing!Identity(hosted) = <<r, e.name>>  BY DEF Listing!Identity
    <3> HIDE DEF d, hosted
    <3>3. IsList(d) /\ 1 \in DOMAIN d /\ Listing!Identity(d[1]) = <<r, e.name>>  BY <1>2, <3>1, <3>2
    <3> QED  BY <1>4, <3>3 DEF EntryMeans, d
  <2>5. CASE matches # <<>>
    <3> DEFINE s == Head(matches)
    <3>1. s = matches[1] /\ 1 \in DOMAIN matches
      <4> HIDE DEF matches
      <4>1. IsList(matches)  BY <2>2 DEF PickedFits
      <4>2. Len(matches) \in Nat /\ DOMAIN matches = 1..Len(matches) /\ DOMAIN matches # {}
        BY <2>5, <4>1, ListPlaces, Zenon
      <4> DEFINE E == {matches[i] : i \in DOMAIN matches}
      <4>3. \A i \in DOMAIN matches : matches[i] \in E  OBVIOUS
      <4> HIDE DEF E
      <4>4. matches \in Seq(E)  BY <4>1, <4>3, ListIsSequence
      <4>5. Head(matches) = matches[1]  BY <2>5, <4>4, HeadTailProperties
      <4> QED  BY <4>2, <4>5
    <3>2. PICK k \in K : s = skills[k]
      <4> HIDE DEF matches, K
      <4> QED  BY <2>2, <3>1 DEF PickedFits
    <3>3. s.name = e.name /\ s \in Listing!InRows(r) \cup Listing!OfTree(r)  BY <1>1, <3>2, Zenon
    <3>4. s = [repository |-> s.repository, name |-> s.name, path |-> s.path, spelling |-> s.spelling,
               reason |-> s.reason]
      <4> HIDE DEF s
      <4>1. CASE s \in Listing!InRows(r)
        <5>1. PICK j \in Listing!ValidRows(Rows, r) : s = Listing!Listed(Rows[j])  BY <4>1 DEF Listing!InRows
        <5> QED  BY <5>1 DEF Listing!Listed
      <4>2. CASE s \in Listing!OfTree(r)
        <5>1. PICK j \in DOMAIN Listing!FromTree(r) : s = Listing!FromTree(r)[j]
          BY <4>2 DEF Listing!OfTree, Listing!ToSet
        <5> QED  BY <5>1, Zenon DEF Listing!FromTree
      <4> QED  BY <3>3, <4>1, <4>2
    <3>5. PICK x : d = <<x>> /\ (x = s \/ x = given)  BY <2>3, <2>5, Zenon
    <3>6. Listing!Identity(given) = Listing!Identity(s)
      <4> HIDE DEF s
      <4>1. [s EXCEPT !.reason = e.reason] =
              [repository |-> s.repository, name |-> s.name, path |-> s.path, spelling |-> s.spelling,
               reason |-> e.reason]
        BY <3>4
      <4>2. Listing!Identity([s EXCEPT !.reason = e.reason]) = Listing!Identity(s)
        BY <4>1 DEF Listing!Identity
      <4> QED  BY <4>2, Zenon DEF s
    <3> HIDE DEF given, s, d
    <3>7. IsList(d) /\ 1 \in DOMAIN d /\ Listing!Identity(s) = Listing!Identity(d[1])
      BY <1>2, <3>5, <3>6
    <3> QED  BY <1>4, <3>3, <3>7 DEF EntryMeans, d
  <2> QED  BY <2>4, <2>5, <2>6
<1> QED  BY <1>3, <1>4

(* An entry stands in the listing once all it leads to does.               *)
LEMMA ExpandedStands ==
  ASSUME SkillsKnown, NEW e, NEW d, EntryMeans(e, d),
         e.repository \in Repositories, known[e.repository] # <<>>, UNCHANGED <<known, lost>>,
         \A k \in DOMAIN d : Listing!Identity(d[k]) \in Listing!Identities(items')
  PROVE  EntryStands(e)'
<1>1. Listing!Identities(items)' = Listing!Identities(items')  BY DEF Listing!Identities
<1>2. CASE e.name = None
  <2>1. d = known[e.repository][1]  BY <1>2 DEF EntryMeans
  <2>2. AllSkillsOf(e.repository, Listing!Identities(d))  BY <2>1 DEF SkillsKnown
  <2>3. Listing!Identities(d) \subseteq Listing!Identities(items')  BY DEF Listing!Identities
  <2>4. AllSkillsOf(e.repository, Listing!Identities(items))'  BY <1>1, <2>2, <2>3 DEF AllSkillsOf
  <2> QED  BY <1>2, <2>4 DEF EntryStands
<1>3. CASE e.name # None /\ e.valid
  <2>1. PICK i \in DOMAIN d :
          \/ Listing!Identity(d[i]) = <<e.repository, e.name>>
          \/ \E s \in Listing!InRows(e.repository) \cup Listing!OfTree(e.repository) :
               s.name = e.name /\ Listing!Identity(s) = Listing!Identity(d[i])
    BY <1>3 DEF EntryMeans
  <2>2. NameStands(e)'  BY <1>1, <2>1 DEF NameStands
  <2> QED  BY <1>3, <2>2 DEF EntryStands
<1>4. CASE e.name # None /\ ~e.valid  BY <1>4 DEF EntryStands
<1> QED  BY <1>2, <1>3, <1>4

LEMMA AddKeeps == ListingInv /\ Listing!Add => ListingInv'
<1> SUFFICES ASSUME ListingInv, Listing!Add PROVE ListingInv'  OBVIOUS
<1> DEFINE e == Listing!Entry  d == Listing!Expanded(e, known[e.repository][1])
           ids == Listing!Identities(items)  new == Listing!Shown(d)
<1>1. ListingTypes /\ Remembered /\ RowsRead /\ SkillsKnown /\ EntriesKept /\ ListedOnce  BY DEF ListingInv
<1>2. /\ point = "read" /\ slugs = <<>> /\ entries # <<>> /\ known[e.repository] # <<>>
      /\ items' = items \o new /\ entries' = Tail(entries)
      /\ UNCHANGED <<reference, point, slugs, page, pages, rows, known, fetched, lost>>
  BY DEF Listing!Add, Listing!Expand
<1>3. e.repository \in Repositories /\ Tail(entries) \in Seq(Listing!Entries)  BY <1>1, <1>2, EntryNamed
<1>4. EntryMeans(e, d)  BY <1>1, <1>2, <1>3, EntryExpands
<1> HIDE DEF d
<1>strict. ASSUME Listing!Strict
           PROVE  /\ new = d /\ IsList(d) /\ SelectedOnce(d)
                  /\ items = <<>> /\ entries = <<Listing!Whole(reference.repository)>> /\ Tail(entries) = <<>>
  <2>1. new = d  BY <1>strict DEF Listing!Shown
  <2>2. items = <<>> /\ entries = <<Listing!Whole(reference.repository)>>  BY <1>1, <1>2, <1>strict DEF ListedOnce
  <2>3. e.name = None  BY <2>2 DEF Listing!Entry, Listing!Whole
  <2>4. d = known[e.repository][1] /\ IsList(d)  BY <1>4, <2>3 DEF EntryMeans
  <2>5. SelectedOnce(d)  BY <1>1, <1>2, <1>3, <2>4 DEF SkillsKnown
  <2> QED  BY <2>1, <2>2, <2>4, <2>5
<1>new. ASSUME ~Listing!Strict PROVE NewFits(d, ids, new)
  <2>1. new = Listing!NewOf(d, Listing!EachIdentity(d), ids)  BY <1>new DEF Listing!Shown
  <2>2. IsList(d)  BY <1>4 DEF EntryMeans
  <2> HIDE DEF new, ids
  <2> QED  BY <2>1, <2>2, NewIdentities
<1> HIDE DEF new
<1>6. /\ IsList(items) /\ IsList(new)
      /\ \A i, j \in DOMAIN items : Listing!Same(items[i], items[j]) => i = j
  BY <1>1, <1>strict, <1>new DEF ListedOnce, NewFits
<1>7. /\ IsList(items') /\ DOMAIN items' = 1..(Len(items) + Len(new))
      /\ \A i \in DOMAIN items' : items'[i] = IF i \in DOMAIN items THEN items[i] ELSE new[i - Len(items)]
      /\ \A i \in DOMAIN items : i \in DOMAIN items' /\ items'[i] = items[i]
      /\ \A j \in DOMAIN new : Len(items) + j \in DOMAIN items' /\ items'[Len(items) + j] = new[j]
  BY <1>2, <1>6, ConcatLists
<1>8. /\ Len(items) \in Nat /\ DOMAIN items = 1..Len(items)
      /\ Len(new) \in Nat /\ DOMAIN new = 1..Len(new)
  BY <1>6, ListPlaces
<1>9. ListedOnce'
  <2>1. \A i \in DOMAIN items' : i \notin DOMAIN items => i - Len(items) \in DOMAIN new /\ items'[i] = new[i - Len(items)]
    <3>1. \A i \in 1..(Len(items) + Len(new)) : i \notin 1..Len(items) => i - Len(items) \in 1..Len(new)
      BY <1>8
    <3> QED  BY <1>7, <1>8, <3>1
  <2>2. \A i \in DOMAIN items : Listing!Identity(items[i]) \in ids  BY DEF Listing!Identities
  <2> SUFFICES ASSUME NEW i \in DOMAIN items', NEW j \in DOMAIN items', Listing!Same(items'[i], items'[j])
               PROVE  i = j
    <3>1. \A x, y : Listing!Same(x, y)' = Listing!Same(x, y)
      BY <1>2 DEF Listing!Same, Listing!Strict, Listing!Selector, Listing!Identity
    <3>2. Listing!Strict' => slugs' = <<>> /\ entries' = <<>>  BY <1>2, <1>strict DEF Listing!Strict
    <3> QED  BY <1>7, <3>1, <3>2 DEF ListedOnce, IsList, Listing!Same, Listing!Strict, Listing!Selector,
                                     Listing!Identity
  <2>3. CASE i \in DOMAIN items /\ j \in DOMAIN items  BY <1>6, <1>7, <2>3
  <2>strict. CASE Listing!Strict
    <3>1. Len(items) = 0 /\ DOMAIN items = {}  BY <1>strict, <2>strict, EmptySeq
    <3>2. i \in Int /\ j \in Int /\ i - Len(items) = i /\ j - Len(items) = j  BY <1>7, <1>8, <3>1
    <3>3. i \in DOMAIN d /\ j \in DOMAIN d /\ items'[i] = d[i] /\ items'[j] = d[j]
      BY <1>strict, <2>1, <2>strict, <3>1, <3>2
    <3> QED  BY <1>strict, <2>strict, <3>3 DEF SelectedOnce, Listing!Same
  <2>other. CASE ~Listing!Strict
    <3>1. /\ \A k, l \in DOMAIN new : Listing!Identity(new[k]) = Listing!Identity(new[l]) => k = l
          /\ \A k \in DOMAIN new : Listing!Identity(new[k]) \notin ids
      BY <1>new, <2>other DEF NewFits
    <3>2. Listing!Identity(items'[i]) = Listing!Identity(items'[j])  BY <2>other DEF Listing!Same
    <3>3. CASE i \in DOMAIN items /\ j \notin DOMAIN items
      <4>1. Listing!Identity(items'[i]) \in ids  BY <1>7, <2>2, <3>3
      <4>2. Listing!Identity(items'[j]) \notin ids  BY <2>1, <3>1, <3>3
      <4> QED  BY <3>2, <4>1, <4>2
    <3>4. CASE i \notin DOMAIN items /\ j \in DOMAIN items
      <4>1. Listing!Identity(items'[j]) \in ids  BY <1>7, <2>2, <3>4
      <4>2. Listing!Identity(items'[i]) \notin ids  BY <2>1, <3>1, <3>4
      <4> QED  BY <3>2, <4>1, <4>2
    <3>5. CASE i \notin DOMAIN items /\ j \notin DOMAIN items
      <4>1. i - Len(items) = j - Len(items)  BY <2>1, <3>1, <3>2, <3>5
      <4>2. i \in Int /\ j \in Int  BY <1>7, <1>8
      <4> QED  BY <1>8, <4>1, <4>2
    <3> QED  BY <2>3, <3>3, <3>4, <3>5
  <2> QED  BY <2>strict, <2>other
<1>10. ids \subseteq Listing!Identities(items')
       /\ \A k \in DOMAIN d : Listing!Identity(d[k]) \in Listing!Identities(items')
  <2>1. ids \subseteq Listing!Identities(items')  BY <1>7 DEF Listing!Identities
  <2>2. Listing!Identities(new) \subseteq Listing!Identities(items')  BY <1>7 DEF Listing!Identities
  <2>3. CASE Listing!Strict
    <3>1. \A k \in DOMAIN d : Listing!Identity(d[k]) \in Listing!Identities(new)
      BY <1>strict, <2>3 DEF Listing!Identities
    <3> QED  BY <2>1, <2>2, <3>1
  <2>4. CASE ~Listing!Strict
    <3> HIDE DEF ids
    <3> QED  BY <1>new, <2>1, <2>2, <2>4 DEF NewFits
  <2> QED  BY <2>3, <2>4
<1>11. ASSUME NEW f, f = e PROVE EntryStands(f)'
  <2>1. EntryMeans(f, d) /\ f.repository \in Repositories /\ known[f.repository] # <<>>
    BY <1>2, <1>3, <1>4, <1>11
  <2> HIDE DEF e
  <2> QED  BY <1>1, <1>2, <1>10, <2>1, ExpandedStands
<1>12. EntriesKept'
  <2>1. /\ Len(entries) \in Nat /\ DOMAIN entries = 1..Len(entries) /\ e = entries[1]
        /\ DOMAIN entries' = 1..(Len(entries) - 1)
        /\ \A k \in 1..(Len(entries) - 1) : entries'[k] = entries[k + 1]
    <3>1. entries \in Seq(Listing!Entries) /\ entries # <<>>  BY <1>1, <1>2 DEF ListingTypes
    <3>2. /\ Len(Tail(entries)) = Len(entries) - 1 /\ Head(entries) = entries[1]
          /\ \A k \in 1..Len(Tail(entries)) : Tail(entries)[k] = entries[k + 1]
      BY <3>1, HeadTailProperties
    <3>3. DOMAIN Tail(entries) = 1..Len(Tail(entries))  BY <1>3
    <3>4. Len(entries) \in Nat /\ DOMAIN entries = 1..Len(entries)  BY <3>1
    <3> QED  BY <1>2, <3>2, <3>3, <3>4 DEF Listing!Entry
  <2>2. ASSUME NEW f, Awaited(f) PROVE EntryStands(f)' \/ Awaited(f)'
    <3>1. PICK k \in DOMAIN entries : f = entries[k]
      <4>1. DOMAIN slugs = {}  BY <1>2
      <4> QED  BY <2>2, <4>1 DEF Awaited
    <3>2. CASE k = 1  BY <1>11, <2>1, <3>1, <3>2
    <3>3. CASE k # 1
      <4>1. k - 1 \in 1..(Len(entries) - 1) /\ (k - 1) + 1 = k  BY <2>1, <3>1, <3>3
      <4>2. k - 1 \in DOMAIN entries' /\ f = entries'[k - 1]  BY <2>1, <3>1, <4>1
      <4> QED  BY <4>2 DEF Awaited
    <3> QED  BY <3>2, <3>3
  <2>3. ASSUME NEW f \in Listing!AllEntries' PROVE EntryStands(f)' \/ Awaited(f)'
    <3>1. f \in Listing!AllEntries  BY <1>2, <2>3 DEF Listing!AllEntries, Listing!Strict
    <3>2. CASE EntryStands(f)  BY <1>2, <1>10, <3>2, StandsOn
    <3>3. CASE Awaited(f)  BY <2>2, <3>3
    <3> QED  BY <1>1, <3>1, <3>2, <3>3 DEF EntriesKept
  <2> QED  BY <1>2, <2>3 DEF EntriesKept
<1>13. ListingTypes'  BY <1>1, <1>2, <1>3 DEF ListingTypes, InLookUp
<1>14. Remembered'  BY <1>1, <1>2 DEF Remembered, InLookUp
<1>15. RowsRead'  BY <1>1, <1>2 DEF RowsRead
<1>16. SkillsKnown'  BY <1>1, <1>2, SkillsStayKnown
<1> QED  BY <1>9, <1>12, <1>13, <1>14, <1>15, <1>16 DEF ListingInv

(* Every action of a listing keeps the invariant.                          *)
LEMMA ListingStep == ListingInv /\ Listing!Next => ListingInv'
BY ReadCollectionKeeps, LookUpKeeps, ReadPageKeeps, UseRowsKeeps, ReadGithubKeeps, AddKeeps, ListingDoneKeeps
   DEF Listing!Next

LEMMA ListingUnchanged == ListingInv /\ UNCHANGED listingVars => ListingInv'
<1> SUFFICES ASSUME ListingInv, UNCHANGED listingVars PROVE ListingInv'  OBVIOUS
<1>1. UNCHANGED <<reference, point, slugs, entries, page, pages, rows, known, items, fetched, lost>>
  BY DEF listingVars
<1>2. ListingTypes'  BY <1>1 DEF ListingInv, ListingTypes, InLookUp
<1>3. Remembered'  BY <1>1 DEF ListingInv, Remembered, InLookUp, Listing!Entry
<1>4. RowsRead'  BY <1>1 DEF ListingInv, RowsRead, Listing!Entry
<1>5. SkillsKnown'  BY <1>1, SkillsStayKnown DEF ListingInv
<1>6. EntriesKept'  BY <1>1, Zenon DEF ListingInv, EntriesKept, EntryStands, NameStands, Awaited, AllSkillsOf,
                              Listing!AllEntries, Listing!Strict
<1>7. ListedOnce'  BY <1>1 DEF ListingInv, ListedOnce, Listing!Same, Listing!Strict, Listing!Selector,
                           Listing!Identity, Listing!Whole
<1> QED  BY <1>2, <1>3, <1>4, <1>5, <1>6, <1>7 DEF ListingInv

(* What the invariant says of a listing.                                   *)
LEMMA ListingSafe == ListingInv => Listing!EachSkillOnce /\ Listing!LookedUpOnce
<1> SUFFICES ASSUME ListingInv PROVE Listing!EachSkillOnce /\ Listing!LookedUpOnce  OBVIOUS
<1>1. Listing!LookedUpOnce  BY DEF ListingInv, Remembered, Listing!LookedUpOnce
<1>2. ASSUME point = "listed", NEW e \in Listing!AllEntries PROVE EntryStands(e)
  <2>1. slugs = <<>> /\ entries = <<>> /\ (EntryStands(e) \/ Awaited(e))  BY <1>2 DEF ListingInv, EntriesKept
  <2>2. DOMAIN slugs = {} /\ DOMAIN entries = {}  BY <2>1
  <2> QED  BY <2>1, <2>2 DEF Awaited
<1>3. \A i, j \in DOMAIN items : Listing!Same(items[i], items[j]) => i = j
  BY DEF ListingInv, ListedOnce
<1>4. Listing!EachSkillOnce
  BY <1>2, <1>3 DEF Listing!EachSkillOnce, EntryStands, NameStands, AllSkillsOf, Listing!Stands
<1> QED  BY <1>1, <1>4

-----------------------------------------------------------------------------
(* The files of a Skill that --direct installs.  One element more in a     *)
(* list.                                                                   *)
LEMMA AppendedList ==
  ASSUME NEW s, IsList(s), NEW x
  PROVE  /\ IsList(Append(s, x)) /\ Len(Append(s, x)) = Len(s) + 1
         /\ \A i \in 1..Len(s) : Append(s, x)[i] = s[i]
         /\ Append(s, x)[Len(s) + 1] = x
<1> DEFINE E == {s[i] : i \in DOMAIN s} \cup {x}
<1>1. \A i \in DOMAIN s : s[i] \in E  OBVIOUS
<1>2. x \in E  OBVIOUS
<1> HIDE DEF E
<1>3. s \in Seq(E)  BY <1>1, ListIsSequence
<1>4. /\ Append(s, x) \in Seq(E) /\ Len(Append(s, x)) = Len(s) + 1
      /\ \A i \in 1..Len(s) : Append(s, x)[i] = s[i]
      /\ Append(s, x)[Len(s) + 1] = x
  BY <1>2, <1>3, AppendProperties
<1>5. IsList(Append(s, x))  BY <1>4, SequenceIsList
<1> QED  BY <1>4, <1>5

(* The files of the Skill at hand: those of the tree below its path, of    *)
(* which as many were read as there are, whatever their bytes; one by one  *)
(* only where the tarball could not serve them.                            *)
PlanFits ==
  /\ IsList(plan)
  /\ Direct!ToSet(plan) = Direct!Held(memo[Direct!Skill.ref].commit, Direct!Skill.path)
  /\ \A e \in Direct!ToSet(plan) : e.kind # "link"

AsPlanned(file, entry) == file \in {entry, Direct!WithBytes(entry, OtherBytes)}

ReadAsPlanned ==
  /\ IsList(files) /\ Len(files) <= Len(plan)
  /\ \A i \in DOMAIN files : AsPlanned(files[i], plan[i])

OneByOne ==
  plan = <<>> \/ ~Direct!CouldServe(memo[Direct!Skill.ref].tarball, memo[Direct!Skill.ref].commit, Direct!Skill.path)

Planned ==
  /\ step \in {"tarball", "blobs"} => PlanFits
  /\ IF step = "blobs" THEN ReadAsPlanned /\ OneByOne ELSE files = <<>>
  /\ Direct!FilesAreTheTree

(* Nothing is planned yet. *)
LEMMA PlannedInit == Direct!Init => Planned
BY DEF Direct!Init, Planned, Direct!FilesAreTheTree

(* The entries of a tree.                                                  *)
LEMMA TreeEntry ==
  ASSUME NEW c \in Commits
  PROVE  /\ IsList(Trees[c])
         /\ \A e \in Direct!ToSet(Trees[c]) :
              /\ e.kind \in {"blob", "exec", "tree", "link"}
              /\ e = [path |-> e.path, kind |-> e.kind, sha |-> e.sha]
<1>1. Trees[c] \in Seq(Direct!TreeEntries)  BY DirectAssumption DEF Direct!DirectAssumption
<1>2. IsList(Trees[c])  BY <1>1, SequenceIsList
<1>3. \A e \in Direct!ToSet(Trees[c]) : e \in Direct!TreeEntries  BY DEF Direct!TreeEntries
<1> QED  BY <1>2, <1>3, DirectAssumption DEF Direct!DirectAssumption

(* The Repository of the Skill at hand is read. *)
LEMMA SnapshotRead ==
  ASSUME DirectInv, step \in {"plan", "tarball", "blobs"}
  PROVE  /\ Direct!Skill.ref \in Direct!Refs /\ Direct!Snapshot = memo[Direct!Skill.ref]
         /\ Direct!Snapshot \in Direct!Snapshots /\ Direct!Snapshot.commit \in Commits
<1>1. DirectTypes /\ OneSnapshot  BY DEF DirectInv
<1>2. Direct!Skill.ref \in Direct!Refs  BY <1>1, SkillNamed
<1>3. memo[Direct!Skill.ref] \in Direct!Snapshots  BY <1>1, <1>2 DEF DirectTypes, OneSnapshot
<1>4. memo[Direct!Skill.ref].commit \in Commits  BY <1>3 DEF Direct!Snapshots
<1> QED  BY <1>2, <1>3, <1>4 DEF Direct!Snapshot

(* What is planned are files.                                              *)
LEMMA PlannedKinds ==
  ASSUME DirectInv, step \in {"tarball", "blobs"}, PlanFits
  PROVE  \A e \in Direct!ToSet(plan) :
           /\ e \in Direct!ToSet(Trees[Direct!Snapshot.commit])
           /\ e.kind \in {"blob", "exec"}
           /\ e = [path |-> e.path, kind |-> e.kind, sha |-> e.sha]
<1>1. Direct!Snapshot.commit \in Commits /\ Direct!Snapshot = memo[Direct!Skill.ref]  BY SnapshotRead
<1> SUFFICES ASSUME NEW e \in Direct!ToSet(plan)
             PROVE  /\ e \in Direct!ToSet(Trees[Direct!Snapshot.commit])
                    /\ e.kind \in {"blob", "exec"}
                    /\ e = [path |-> e.path, kind |-> e.kind, sha |-> e.sha]
  OBVIOUS
<1>2. e \in Direct!ToSet(Trees[Direct!Snapshot.commit]) /\ e.kind # "tree" /\ e.kind # "link"
  BY <1>1 DEF PlanFits, Direct!Held
<1>3. /\ e.kind \in {"blob", "exec", "tree", "link"}
      /\ e = [path |-> e.path, kind |-> e.kind, sha |-> e.sha]
  BY <1>1, <1>2, TreeEntry
<1> QED  BY <1>2, <1>3

(* A Skill ends with a refusal, or with its files.                         *)
LEMMA EndKeeps ==
  ASSUME DirectInv, Planned, NEW x, Direct!Finish(x),
         x.code = "ok" => Direct!OfTheTree(x)
  PROVE  Planned'
<1>1. IsSequence(installed)  BY DEF DirectInv, DirectTypes
<1>2. /\ installed' = Append(installed, x) /\ files' = <<>> /\ step' \in {"done", "snapshot"}
  BY DEF Direct!Finish
<1>3. \A t : t = Append(installed, x) =>
        \A i \in DOMAIN t : (i \in DOMAIN installed /\ t[i] = installed[i]) \/ t[i] = x
  BY <1>1, Appended
<1>4. ASSUME NEW i \in DOMAIN installed', installed'[i].code = "ok"
      PROVE  Direct!OfTheTree(installed'[i])
  <2>1. (i \in DOMAIN installed /\ installed'[i] = installed[i]) \/ installed'[i] = x  BY <1>2, <1>3
  <2>2. CASE installed'[i] = x  BY <1>4, <2>2
  <2>3. CASE i \in DOMAIN installed /\ installed'[i] = installed[i]
    BY <1>4, <2>3 DEF Planned, Direct!FilesAreTheTree
  <2> QED  BY <2>1, <2>2, <2>3
<1>5. Direct!FilesAreTheTree'  BY <1>4 DEF Direct!FilesAreTheTree
<1> QED  BY <1>2, <1>5 DEF Planned

LEMMA RefusalKeeps ==
  ASSUME DirectInv, Planned, NEW code, code # "ok", Direct!Refuse(code)
  PROVE  Planned'
BY EndKeeps DEF Direct!Refuse

(* The files that were read, each as planned; with the bytes of the tree   *)
(* where the tarball could serve them.                                     *)
AllAsPlanned(all) ==
  /\ \A e \in Direct!ToSet(plan) : \E f \in Direct!ToSet(all) : AsPlanned(f, e)
  /\ \A f \in Direct!ToSet(all) : \E e \in Direct!ToSet(plan) : AsPlanned(f, e)
  /\ Direct!CouldServe(Direct!Snapshot.tarball, Direct!Snapshot.commit, Direct!Skill.path) =>
       Direct!ToSet(all) = Direct!ToSet(plan)

LEMMA PrepareKeeps ==
  ASSUME DirectInv, Planned, step \in {"tarball", "blobs"}, NEW all, AllAsPlanned(all), Direct!Prepare(all)
  PROVE  Planned'
<1> DEFINE x == [ref |-> Direct!Skill.ref, path |-> Direct!Skill.path, code |-> "ok",
                 commit |-> Direct!Snapshot.commit, tarball |-> Direct!Snapshot.tarball, files |-> all]
<1>1. PlanFits  BY DEF Planned
<1>2. Direct!ToSet(plan) = Direct!Held(x.commit, x.path)  BY <1>1, SnapshotRead DEF PlanFits
<1>3. ASSUME NEW f \in Direct!ToSet(all) PROVE f.kind \in {"blob", "exec"}
  <2>1. PICK e \in Direct!ToSet(plan) : AsPlanned(f, e)  BY DEF AllAsPlanned
  <2>2. e.kind \in {"blob", "exec"} /\ e = [path |-> e.path, kind |-> e.kind, sha |-> e.sha]
    BY <1>1, PlannedKinds
  <2>3. Direct!WithBytes(e, OtherBytes).kind = e.kind  BY <2>2 DEF Direct!WithBytes
  <2> QED  BY <2>1, <2>2, <2>3 DEF AsPlanned
<1>4. CASE Direct!Refuse("INVALID_ARCHIVE")  BY <1>4, RefusalKeeps
<1>5. CASE Direct!Finish(x)
  <2>1. x.files = all /\ x.tarball = Direct!Snapshot.tarball /\ x.commit = Direct!Snapshot.commit
        /\ x.path = Direct!Skill.path
    OBVIOUS
  <2> HIDE DEF x
  <2>2. Direct!OfTheTree(x)  BY <1>2, <1>3, <2>1 DEF AllAsPlanned, AsPlanned, Direct!OfTheTree
  <2> QED  BY <1>5, <2>2, EndKeeps
<1> QED  BY <1>4, <1>5 DEF Direct!Prepare

(* What is planned is what the tree holds below the path.                  *)
LEMMA WantedIsHeld ==
  ASSUME DirectInv, step = "plan", plan' = Direct!Wanted, UNCHANGED <<todo, memo>>,
         ~\E e \in Direct!ToSet(Direct!Wanted) : e.kind = "link"
  PROVE  PlanFits'
<1> DEFINE tree == Trees[Direct!Snapshot.commit]
           K == {i \in DOMAIN tree : Direct!Below(Direct!Skill.path, tree[i]) /\ tree[i].kind # "tree"}
<1>1. Direct!Snapshot.commit \in Commits /\ Direct!Snapshot = memo[Direct!Skill.ref]  BY SnapshotRead
<1>2. IsList(tree)  BY <1>1, TreeEntry
<1>3. Direct!Wanted = Listing!Picked(tree, K)
  BY Zenon DEF Direct!Wanted, Direct!Picked, Listing!Picked, Direct!InOrder, Listing!InOrder, Direct!Cardinality,
         Listing!Cardinality
<1>4. PickedFits(tree, K, Direct!Wanted)
  <2> HIDE DEF tree
  <2>1. K \in SUBSET DOMAIN tree  OBVIOUS
  <2> HIDE DEF K
  <2> QED  BY <1>2, <1>3, <2>1, PickedElements
<1>5. Direct!ToSet(Direct!Wanted) = Direct!Held(memo[Direct!Skill.ref].commit, Direct!Skill.path)
  <2>1. Direct!ToSet(Direct!Wanted) = {tree[k] : k \in K}
    <3> HIDE DEF K, tree
    <3> QED  BY <1>4 DEF PickedFits, Direct!ToSet
  <2>2. {tree[k] : k \in K} = Direct!Held(Direct!Snapshot.commit, Direct!Skill.path)
    BY DEF Direct!Held, Direct!ToSet
  <2> QED  BY <1>1, <2>1, <2>2
<1>6. Direct!Skill' = Direct!Skill  BY DEF Direct!Skill
<1>7. IsList(plan') /\ Direct!ToSet(plan') = Direct!Held(memo'[Direct!Skill'.ref].commit, Direct!Skill'.path)
  BY <1>4, <1>5, <1>6 DEF PickedFits
<1>8. \A e \in Direct!ToSet(plan') : e.kind # "link"  OBVIOUS
<1> QED  BY <1>7, <1>8 DEF PlanFits

(* A step on the way to the files of the Skill at hand.                    *)
LEMMA PlanGoesOn ==
  ASSUME Planned, step' \in {"snapshot", "plan", "tarball", "blobs", "done"}, UNCHANGED installed,
         step' \in {"tarball", "blobs"} => PlanFits',
         IF step' = "blobs" THEN ReadAsPlanned' /\ OneByOne' ELSE files' = <<>>
  PROVE  Planned'
<1>1. Direct!FilesAreTheTree'  BY DEF Planned, Direct!FilesAreTheTree
<1> QED  BY <1>1 DEF Planned

LEMMA PlanStays ==
  ASSUME PlanFits, UNCHANGED <<plan, todo>>, memo'[Direct!Skill.ref].commit = memo[Direct!Skill.ref].commit
  PROVE  PlanFits'
<1>1. Direct!Skill' = Direct!Skill  BY DEF Direct!Skill
<1> QED  BY <1>1 DEF PlanFits

LEMMA StaysOneByOne ==
  ASSUME OneByOne, UNCHANGED <<plan, todo, memo>>
  PROVE  OneByOne'
<1>1. Direct!Skill' = Direct!Skill  BY DEF Direct!Skill
<1> QED  BY <1>1 DEF OneByOne

(* Every action of direct access keeps to the plan.                        *)
LEMMA PlannedStep ==
  ASSUME DirectInv, Planned, Direct!Next
  PROVE  Planned'
<1>1. DirectTypes /\ OneSnapshot  BY DEF DirectInv
<1>2. step \in {"snapshot", "plan", "tarball", "blobs", "done"}  BY <1>1 DEF DirectTypes
<1>3. CASE Direct!NeedsPath
  <2>1. Direct!Refuse("DIRECT_SOURCE_REQUIRED")  BY <1>3 DEF Direct!NeedsPath
  <2> QED  BY <2>1, RefusalKeeps
<1>4. CASE Direct!Recall
  BY <1>4, PlanGoesOn DEF Direct!Recall, Planned
<1>5. CASE Direct!Resolve
  <2>1. CASE step' = "plan" /\ UNCHANGED <<files, installed>>
    BY <1>5, <2>1, PlanGoesOn DEF Direct!Resolve, Planned
  <2>2. CASE ~(step' = "plan" /\ UNCHANGED <<files, installed>>)
    <3>1. PICK code \in {"DIRECT_SOURCE_TOO_LARGE", "SOURCE_MISMATCH", "DIRECT_PRIVATE_UNSUPPORTED",
                         "SERVICE_UNAVAILABLE", "INVALID_RESPONSE"} : Direct!Refuse(code)
      BY <1>5, <2>2 DEF Direct!Resolve
    <3> QED  BY <3>1, RefusalKeeps
  <2> QED  BY <2>1, <2>2
<1>6. CASE Direct!Plan
  <2>1. step = "plan" /\ UNCHANGED memo  BY <1>6 DEF Direct!Plan
  <2>2. CASE /\ ~\E e \in Direct!ToSet(Direct!Wanted) : e.kind = "link"
             /\ plan' = Direct!Wanted /\ step' = "tarball" /\ UNCHANGED <<todo, files, installed>>
    <3>1. PlanFits'  BY <2>1, <2>2, WantedIsHeld
    <3>2. files' = <<>>  BY <2>1, <2>2 DEF Planned
    <3> QED  BY <2>2, <3>1, <3>2, PlanGoesOn
  <2>3. CASE ~(/\ ~\E e \in Direct!ToSet(Direct!Wanted) : e.kind = "link"
               /\ plan' = Direct!Wanted /\ step' = "tarball" /\ UNCHANGED <<todo, files, installed>>)
    <3>1. PICK code \in {"INVALID_RESPONSE", "DIRECT_SOURCE_UNSUPPORTED", "DIRECT_SOURCE_TOO_LARGE"} :
            Direct!Refuse(code)
      BY <1>6, <2>3 DEF Direct!Plan
    <3> QED  BY <3>1, RefusalKeeps
  <2> QED  BY <2>2, <2>3
<1>7. CASE Direct!FetchTarball
  <2>1. /\ step = "tarball" /\ UNCHANGED <<todo, step, plan, files, installed>>
        /\ \E got : memo' = [memo EXCEPT ![Direct!Skill.ref].tarball = got]
    BY <1>7 DEF Direct!FetchTarball
  <2>2. /\ Direct!Skill.ref \in Direct!Refs /\ memo[Direct!Skill.ref] \in Direct!Snapshots
    BY <2>1, SnapshotRead
  <2>3. memo'[Direct!Skill.ref].commit = memo[Direct!Skill.ref].commit
    BY <1>1, <2>1, <2>2 DEF DirectTypes, Direct!Snapshots
  <2>4. PlanFits /\ files = <<>>  BY <2>1 DEF Planned
  <2>5. PlanFits'  BY <2>1, <2>3, <2>4, PlanStays
  <2> QED  BY <2>1, <2>4, <2>5, PlanGoesOn
<1>8. CASE Direct!ReadTarball
  <2> DEFINE tar == Direct!Snapshot.tarball
             all == [k \in DOMAIN plan |-> Direct!InTarball(tar, plan[k])]
  <2>1. step = "tarball" /\ Direct!Serves(tar) /\ Direct!Prepare(all)  BY <1>8 DEF Direct!ReadTarball
  <2>2. PlanFits  BY <2>1 DEF Planned
  <2>3. ASSUME NEW k \in DOMAIN plan PROVE all[k] = plan[k]
    <3>1. plan[k] \in Direct!ToSet(plan)  BY DEF Direct!ToSet
    <3>2. plan[k] = [path |-> plan[k].path, kind |-> plan[k].kind, sha |-> plan[k].sha]
      BY <2>1, <2>2, <3>1, PlannedKinds
    <3>3. Direct!CarriedAs(tar.entries, plan[k].path) = plan[k].sha
      BY <2>1, <3>1 DEF Direct!Serves, Direct!HasFile
    <3>4. all[k] = [plan[k] EXCEPT !.sha = plan[k].sha]  BY <3>3 DEF Direct!InTarball
    <3> QED  BY <3>2, <3>4
  <2>4. DOMAIN all = DOMAIN plan  OBVIOUS
  <2> HIDE DEF all
  <2>5. Direct!ToSet(all) = Direct!ToSet(plan)  BY <2>3, <2>4 DEF Direct!ToSet
  <2>6. AllAsPlanned(all)  BY <2>5 DEF AllAsPlanned, AsPlanned
  <2> QED  BY <2>1, <2>6, PrepareKeeps
<1>9. CASE Direct!PrepareBlobs
  <2>1. step = "blobs" /\ Len(files) = Len(plan) /\ Direct!Prepare(files)  BY <1>9 DEF Direct!PrepareBlobs
  <2>2. PlanFits /\ ReadAsPlanned /\ OneByOne  BY <2>1 DEF Planned
  <2>3. DOMAIN files = 1..Len(files) /\ DOMAIN plan = 1..Len(plan) /\ DOMAIN files = DOMAIN plan
    BY <2>1, <2>2, ListPlaces DEF PlanFits, ReadAsPlanned
  <2>4. \A i \in DOMAIN plan : AsPlanned(files[i], plan[i])  BY <2>2, <2>3 DEF ReadAsPlanned
  <2>5. ASSUME plan = <<>> PROVE AllAsPlanned(files)
    <3>1. DOMAIN plan = {}  BY <2>5
    <3>2. Direct!ToSet(files) = {} /\ Direct!ToSet(plan) = {}  BY <2>3, <3>1 DEF Direct!ToSet
    <3> QED  BY <3>2 DEF AllAsPlanned
  <2>6. ASSUME plan # <<>> PROVE AllAsPlanned(files)
    <3>1. ~Direct!CouldServe(Direct!Snapshot.tarball, Direct!Snapshot.commit, Direct!Skill.path)
      BY <2>1, <2>2, <2>6, SnapshotRead DEF OneByOne
    <3>2. \A e \in Direct!ToSet(plan) : \E f \in Direct!ToSet(files) : AsPlanned(f, e)
      BY <2>3, <2>4 DEF Direct!ToSet
    <3>3. \A f \in Direct!ToSet(files) : \E e \in Direct!ToSet(plan) : AsPlanned(f, e)
      BY <2>3, <2>4 DEF Direct!ToSet
    <3> QED  BY <3>1, <3>2, <3>3 DEF AllAsPlanned
  <2> QED  BY <2>1, <2>5, <2>6, PrepareKeeps
<1>10. CASE Direct!FallBack
  <2>1. step = "tarball" /\ step' = "blobs" /\ UNCHANGED <<todo, memo, plan, files, installed>>
    BY <1>10 DEF Direct!FallBack
  <2>2. PlanFits /\ files = <<>>  BY <2>1 DEF Planned
  <2>3. PlanFits'  BY <2>1, <2>2, PlanStays
  <2>4. ReadAsPlanned'
    <3>1. Len(<<>>) = 0 /\ DOMAIN <<>> = {}  BY EmptySeq
    <3>2. IsList(<<>>)  BY EmptySeq, SequenceIsList
    <3>3. Len(plan) \in Nat  BY <2>2 DEF PlanFits, IsList
    <3>4. files' = <<>> /\ plan' = plan  BY <2>1, <2>2
    <3> QED  BY <3>1, <3>2, <3>3, <3>4 DEF ReadAsPlanned
  <2>5. OneByOne
    <3>1. Direct!Snapshot = memo[Direct!Skill.ref]  BY <2>1, SnapshotRead
    <3>2. Direct!ToSet(plan) = Direct!Held(memo[Direct!Skill.ref].commit, Direct!Skill.path)  BY <2>2 DEF PlanFits
    <3>3. CASE ~Direct!Usable  BY <3>1, <3>3 DEF Direct!Usable, OneByOne, Direct!CouldServe
    <3>4. CASE Direct!Snapshot.tarball = Unavailable  BY <3>1, <3>4 DEF OneByOne, Direct!CouldServe
    <3>5. CASE ~Direct!Serves(Direct!Snapshot.tarball)
      BY <3>1, <3>2, <3>5 DEF Direct!Serves, OneByOne, Direct!CouldServe
    <3> QED  BY <1>10, <3>3, <3>4, <3>5 DEF Direct!FallBack
  <2>6. OneByOne'  BY <2>1, <2>5, StaysOneByOne
  <2> QED  BY <2>1, <2>3, <2>4, <2>6, PlanGoesOn
<1>11. CASE Direct!ReadBlob
  <2>1. step = "blobs" /\ Len(files) < Len(plan) /\ UNCHANGED memo  BY <1>11 DEF Direct!ReadBlob
  <2> DEFINE entry == plan[Len(files) + 1]
             Reads(bytes) == files' = Append(files, Direct!WithBytes(entry, bytes))
  <2>2. CASE (\E bytes \in {entry.sha, OtherBytes} : Reads(bytes)) /\ UNCHANGED <<todo, step, plan, installed>>
    <3>1. PlanFits /\ ReadAsPlanned /\ OneByOne  BY <2>1 DEF Planned
    <3>2. PlanFits'  BY <2>1, <2>2, <3>1, PlanStays
    <3>entry. entry = [path |-> entry.path, kind |-> entry.kind, sha |-> entry.sha]
      <4>1. DOMAIN plan = 1..Len(plan) /\ Len(plan) \in Nat /\ Len(files) \in Nat
        BY <3>1, ListPlaces DEF PlanFits, ReadAsPlanned
      <4>2. entry \in Direct!ToSet(plan)  BY <2>1, <4>1 DEF Direct!ToSet
      <4> QED  BY <2>1, <3>1, <4>2, PlannedKinds
    <3>bytes. PICK f : files' = Append(files, f) /\ AsPlanned(f, entry)
      <4>1. Direct!WithBytes(entry, entry.sha) = entry
        <5> HIDE DEF entry
        <5> QED  BY <3>entry DEF Direct!WithBytes
      <4> QED  BY <2>2, <4>1 DEF AsPlanned
    <3>3. /\ IsList(files') /\ Len(files') = Len(files) + 1
          /\ \A i \in 1..Len(files) : files'[i] = files[i]
          /\ AsPlanned(files'[Len(files) + 1], entry)
      BY <3>1, <3>bytes, AppendedList DEF ReadAsPlanned
    <3>4. DOMAIN files = 1..Len(files) /\ DOMAIN files' = 1..Len(files') /\ Len(files) \in Nat /\ Len(plan) \in Nat
      BY <3>1, <3>3, ListPlaces DEF ReadAsPlanned, PlanFits
    <3>5. \A i \in DOMAIN files' : AsPlanned(files'[i], plan[i])
      <4> SUFFICES ASSUME NEW i \in DOMAIN files' PROVE AsPlanned(files'[i], plan[i])  OBVIOUS
      <4>1. i \in DOMAIN files \/ i = Len(files) + 1  BY <3>3, <3>4
      <4> QED  BY <3>1, <3>3, <3>4, <4>1 DEF ReadAsPlanned
    <3>6. Len(files') <= Len(plan)  BY <2>1, <3>3, <3>4
    <3>7. ReadAsPlanned'
      <4>1. plan' = plan  BY <2>2
      <4> QED  BY <3>3, <3>5, <3>6, <4>1 DEF ReadAsPlanned, AsPlanned
    <3>8. OneByOne'  BY <2>1, <2>2, <3>1, StaysOneByOne
    <3> QED  BY <2>1, <2>2, <3>2, <3>7, <3>8, PlanGoesOn
  <2>3. CASE ~((\E bytes \in {entry.sha, OtherBytes} : Reads(bytes)) /\ UNCHANGED <<todo, step, plan, installed>>)
    <3>1. PICK code \in {"SERVICE_UNAVAILABLE", "INVALID_RESPONSE"} : Direct!Refuse(code)
      BY <1>11, <2>3 DEF Direct!ReadBlob
    <3> QED  BY <3>1, RefusalKeeps
  <2> QED  BY <2>2, <2>3
<1>12. CASE Direct!Push
  <2>1. UNCHANGED <<todo, step, memo, plan, files, installed>>  BY <1>12 DEF Direct!Push
  <2>2. step \in {"tarball", "blobs"} => PlanFits'  BY <2>1, PlanStays DEF Planned
  <2>3. step = "blobs" => ReadAsPlanned' /\ OneByOne'
    BY <2>1, StaysOneByOne DEF Planned, ReadAsPlanned, AsPlanned
  <2> QED  BY <1>2, <2>1, <2>2, <2>3, PlanGoesOn DEF Planned
<1> QED
  BY <1>3, <1>4, <1>5, <1>6, <1>7, <1>8, <1>9, <1>10, <1>11, <1>12 DEF Direct!Next, Direct!Client

(* A file that Git writes once, the CLI reads once: the name held for it   *)
(* is the one right before it.                                             *)
LEMMA NameRead ==
  ASSUME NEW s, IsList(s), NEW i \in DOMAIN s,
         \A j \in DOMAIN s :
           /\ s[j].kind \in {"g", "x", "L", "5", "0"} /\ (s[j].kind = "g" => j = 1)
           /\ s[j].kind \in {"x", "L"} => s[j].path # None
  PROVE  Direct!NameOf(s, i) =
           Direct!StripTop(IF i > 1 /\ s[i - 1].kind \in {"x", "L"} THEN s[i - 1].path ELSE s[i].path)
<1> DEFINE before == {j \in 1..(i - 1) : s[j].kind \notin {"g", "K"}}
<1>1. Len(s) \in Nat /\ DOMAIN s = 1..Len(s)  BY ListPlaces
<1>2. Direct!NameHeld(s, i) =
        IF before # {} /\ s[Direct!Max(before)].kind \in {"x", "L"} THEN s[Direct!Max(before)].path ELSE None
  BY DEF Direct!NameHeld
<1>3. CASE i > 1 /\ s[i - 1].kind # "g"
  <2>1. i - 1 \in DOMAIN s  BY <1>1, <1>3
  <2>2. i - 1 \in before
    <3>1. s[i - 1].kind \in {"x", "L", "5", "0"}  BY <1>3, <2>1
    <3>2. s[i - 1].kind \notin {"g", "K"}  BY <3>1
    <3>3. i - 1 \in 1..(i - 1)  BY <1>1, <1>3
    <3> QED  BY <3>2, <3>3
  <2>3. \A j \in before : i - 1 >= j /\ j \in Int /\ i - 1 \in Int  BY <1>1
  <2> HIDE DEF before
  <2>4. Direct!Max(before) = i - 1
    <3>1. Direct!Max(before) \in before /\ \A y \in before : Direct!Max(before) >= y
      BY <2>2, <2>3 DEF Direct!Max
    <3> QED  BY <2>2, <2>3, <3>1
  <2>5. Direct!NameHeld(s, i) = IF s[i - 1].kind \in {"x", "L"} THEN s[i - 1].path ELSE None
    BY <1>2, <2>2, <2>4
  <2> QED  BY <1>3, <2>1, <2>5 DEF Direct!NameOf
<1>4. CASE ~(i > 1 /\ s[i - 1].kind # "g")
  <2>1. ~(i > 1 /\ s[i - 1].kind \in {"x", "L"})  BY <1>4
  <2>2. before = {}
    <3>1. CASE ~(i > 1)  BY <1>1, <3>1
    <3>2. CASE i > 1 /\ s[i - 1].kind = "g"
      <4>1. i - 1 \in DOMAIN s  BY <1>1, <3>2
      <4>2. i - 1 = 1  BY <3>2, <4>1
      <4> QED  BY <1>1, <3>2, <4>2
    <3> QED  BY <1>4, <3>1, <3>2
  <2> HIDE DEF before
  <2>3. Direct!NameHeld(s, i) = None  BY <1>2, <2>2
  <2> QED  BY <2>1, <2>3 DEF Direct!NameOf
<1> QED  BY <1>3, <1>4

(* So a tarball as Git writes it has every file that is planned.           *)
LEMMA GitServes ==
  ASSUME DirectInv, Planned, step = "tarball", NEW tar \in GitTarballs(Direct!Snapshot.commit)
  PROVE  Direct!Serves(tar)
<1> DEFINE c == Direct!Snapshot.commit  s == tar.entries
           name(i) == Direct!StripTop(IF i > 1 /\ s[i - 1].kind \in {"x", "L"} THEN s[i - 1].path ELSE s[i].path)
<1>1. c \in Commits  BY SnapshotRead
<1>2. Direct!AsGitWrites(tar, Trees[c])  BY <1>1, GitAssumption
<1>3. /\ Direct!Readable(tar) /\ s \in Seq(Direct!ToSet(s))
      /\ \A j \in DOMAIN s :
           /\ s[j].kind \in {"g", "x", "L", "5", "0"} /\ (s[j].kind = "g" => j = 1)
           /\ s[j].kind \in {"x", "L"} => s[j].path # None
      /\ \A e \in Direct!ToSet(Trees[c]) : e.kind \in {"blob", "exec"} =>
           \E i \in DOMAIN s :
             /\ s[i].kind = "0" /\ name(i) = e.path /\ s[i].sha = e.sha
             /\ \A j \in DOMAIN s : (s[j].kind = "0" /\ name(j) = e.path) => j = i
  BY <1>2 DEF Direct!AsGitWrites, Direct!Readable
<1>4. IsList(s)  BY <1>3, SequenceIsList
<1>5. \A i \in DOMAIN s : Direct!NameOf(s, i) = name(i)  BY <1>3, <1>4, NameRead
<1>6. Len(s) \in Nat /\ DOMAIN s = 1..Len(s)  BY <1>4, ListPlaces
<1>7. PlanFits  BY DEF Planned
<1> HIDE DEF c, s, name
<1>8. ASSUME NEW e \in Direct!ToSet(plan) PROVE Direct!HasFile(tar, e)
  <2>1. e \in Direct!ToSet(Trees[c]) /\ e.kind \in {"blob", "exec"}  BY <1>7, PlannedKinds DEF c
  <2>2. PICK i \in DOMAIN s :
          /\ s[i].kind = "0" /\ name(i) = e.path /\ s[i].sha = e.sha
          /\ \A j \in DOMAIN s : (s[j].kind = "0" /\ name(j) = e.path) => j = i
    BY <1>3, <2>1
  <2>3. {j \in DOMAIN s : s[j].kind = "0" /\ Direct!NameOf(s, j) = e.path} = {i}  BY <1>5, <2>2
  <2>4. Direct!Max({i}) = i
    <3>1. i \in Nat  BY <1>6
    <3>2. Direct!Max({i}) \in {i}  BY <3>1 DEF Direct!Max
    <3> QED  BY <3>2
  <2>5. Direct!CarriedAs(s, e.path) = s[i].sha  BY <2>3, <2>4 DEF Direct!CarriedAs
  <2> QED  BY <2>2, <2>5 DEF Direct!HasFile, s
<1> QED  BY <1>3, <1>8 DEF Direct!Serves

LEMMA PlannedUnchanged == Planned /\ UNCHANGED directVars => Planned'
<1> SUFFICES ASSUME Planned, UNCHANGED directVars PROVE Planned'  OBVIOUS
<1>1. UNCHANGED <<todo, step, memo, plan, files, installed>>  BY DEF directVars
<1>2. PlanFits => PlanFits'  BY <1>1, PlanStays
<1>3. ReadAsPlanned /\ OneByOne => ReadAsPlanned' /\ OneByOne'
  BY <1>1, StaysOneByOne DEF ReadAsPlanned, AsPlanned
<1>4. Direct!FilesAreTheTree'  BY <1>1 DEF Planned, Direct!FilesAreTheTree
<1> QED  BY <1>1, <1>2, <1>3, <1>4 DEF Planned

-----------------------------------------------------------------------------
(* Verification.  It counts as this module does, and picks as a listing    *)
(* does.                                                                   *)
LEMMA VerificationAgrees ==
  ASSUME NEW X, NEW s
  PROVE  Verify!Cardinality(X) = Cardinality(X) /\ Verify!Picked(s, X) = Listing!Picked(s, X)
<1>1. Verify!Cardinality(X) = Cardinality(X)  BY DEF Verify!Cardinality, Cardinality
<1>2. Verify!Picked(s, X) = Listing!Picked(s, X)
  BY Zenon DEF Verify!Picked, Listing!Picked, Verify!InOrder, Listing!InOrder, Verify!Cardinality,
         Listing!Cardinality
<1> QED  BY <1>1, <1>2

(* A list has finitely many elements, and as many as it is long if they    *)
(* differ.                                                                 *)
LEMMA ElementsCount ==
  ASSUME NEW n \in Nat, NEW g, DOMAIN g = 1..n, NEW T, T = {g[i] : i \in 1..n}
  PROVE  /\ IsFiniteSet(T)
         /\ (\A i, j \in 1..n : g[i] = g[j] => i = j) => Cardinality(T) = n
<1> DEFINE f == [i \in 1..n |-> g[i]]
<1>1. /\ IsFiniteSet(1..n) /\ Cardinality(1..n) = n
  <2>1. \A m \in Nat : IsFiniteSet(1..m) /\ Cardinality(1..m) = m
    <3> TAKE m \in Nat
    <3> QED  BY FS_Interval
  <2> QED  BY <2>1
<1>2. f \in Surjection(1..n, T)  BY DEF Surjection
<1>3. IsFiniteSet(T)  BY <1>1, <1>2, FS_Surjection
<1>4. ASSUME \A i, j \in 1..n : g[i] = g[j] => i = j PROVE Cardinality(T) = n
  <2>1. f \in [1..n -> T] /\ \A i, j \in 1..n : f[i] = f[j] => i = j  BY <1>4
  <2>2. f \in Injection(1..n, T)
    <3> HIDE DEF f
    <3> QED  BY <2>1 DEF Injection, IsInjective
  <2> HIDE DEF f
  <2> QED  BY <1>1, <1>2, <2>2, FS_Surjection
<1> QED  BY <1>3, <1>4

(* The files that an attestation lists, as they are written.               *)
RecordOf(f) == [path |-> f.path, mode |-> f.mode, bytes |-> f.bytes]
RecordsOf(list) == {RecordOf(f) : f \in Verify!ToSet(list)}

(* A list of files is what it should be, and no two are one without case.  *)
FilesFit(list, wants) ==
  /\ IsList(list) /\ Verify!ToSet(list) = wants
  /\ \A i, j \in DOMAIN list : Folded(list[i].path) = Folded(list[j].path) => i = j

Attested ==
  /\ Verify!ShapeHolds(attestation) /\ Verify!StatementFits(attestation)
  /\ Verify!KeyHolds(attestation) /\ ~Verify!Blocked(attestation)

(* Each check stands from its stage on.                                    *)
VerificationInv ==
  /\ attestation \in Attestations /\ archive \in SignedArchives
  /\ stage \in {"root", "attestation", "archive", "linked", "verified", "refused"}
  /\ stage \in {"attestation", "archive", "linked", "verified"} => Verify!RootHolds
  /\ stage \in {"archive", "linked", "verified"} => Attested
  /\ stage = "linked" => FilesFit(verifiedFiles, RecordsOf(attestation.fields.files))
  /\ stage = "verified" =>
       FilesFit(verifiedFiles, RecordsOf(attestation.fields.files) \cup RecordsOf(attestation.fields.linked))

LEMMA VerificationInit == Verify!Init => VerificationInv
BY DEF Verify!Init, VerificationInv

LEMMA AttestationLists ==
  ASSUME attestation \in Attestations
  PROVE  IsList(attestation.fields.files) /\ IsList(attestation.fields.linked)
<1>1. /\ attestation.fields.files \in Seq(Verify!ToSet(attestation.fields.files))
      /\ attestation.fields.linked \in Seq(Verify!ToSet(attestation.fields.linked))
  BY VerificationAssumption DEF Verify!VerificationAssumption
<1> QED  BY <1>1, SequenceIsList

(* Its paths differ without case, of the archive and linked.               *)
LEMMA ShapePaths ==
  ASSUME attestation \in Attestations, Verify!ShapeHolds(attestation),
         NEW own, own = attestation.fields.files, NEW links, links = attestation.fields.linked
  PROVE  /\ \A i, j \in DOMAIN own : Folded(own[i].path) = Folded(own[j].path) => i = j
         /\ \A i, j \in DOMAIN links : Folded(links[i].path) = Folded(links[j].path) => i = j
         /\ \A i \in DOMAIN own : \A j \in DOMAIN links : Folded(own[i].path) # Folded(links[j].path)
<1> DEFINE p == [k \in DOMAIN own |-> own[k].path]  q == [k \in DOMAIN links |-> links[k].path]
<1>1. IsList(own) /\ IsList(links)  BY AttestationLists
<1>2. /\ Len(own) \in Nat /\ DOMAIN own = 1..Len(own)
      /\ Len(links) \in Nat /\ DOMAIN links = 1..Len(links)
  BY <1>1, ListPlaces
<1>3. IsList(p) /\ Len(p) = Len(own) /\ IsList(q) /\ Len(q) = Len(links)
  <2>1. p = [i \in 1..Len(own) |-> p[i]]  BY <1>2
  <2>2. q = [i \in 1..Len(links) |-> q[i]]  BY <1>2
  <2> HIDE DEF p, q
  <2> QED  BY <1>2, <2>1, <2>2, FunctionIsAList
<1>4. Verify!Paths(attestation.fields) = p \o q  BY DEF Verify!Paths
<1>5. \A i, j \in DOMAIN (p \o q) : Folded((p \o q)[i]) = Folded((p \o q)[j]) => i = j
  <2> DEFINE all == Verify!Paths(attestation.fields)
  <2>1. \A i, j \in DOMAIN all : Folded(all[i]) = Folded(all[j]) => i = j  BY DEF Verify!ShapeHolds
  <2>2. all = p \o q  BY <1>4
  <2> HIDE DEF all, p, q
  <2> QED  BY <2>1, <2>2
<1>6. /\ DOMAIN p = DOMAIN own /\ \A i \in DOMAIN own : p[i] = own[i].path
      /\ DOMAIN q = DOMAIN links /\ \A i \in DOMAIN links : q[i] = links[i].path
  OBVIOUS
<1> HIDE DEF p, q
<1>7. /\ \A i \in DOMAIN p : i \in DOMAIN (p \o q) /\ (p \o q)[i] = p[i]
      /\ \A j \in DOMAIN q : Len(p) + j \in DOMAIN (p \o q) /\ (p \o q)[Len(p) + j] = q[j]
  BY <1>3, ConcatLists
<1>8. \A i, j \in DOMAIN own : Folded(own[i].path) = Folded(own[j].path) => i = j
  BY <1>5, <1>6, <1>7
<1>9. ASSUME NEW i \in DOMAIN links, NEW j \in DOMAIN links, Folded(links[i].path) = Folded(links[j].path)
      PROVE  i = j
  <2>1. Len(p) + i = Len(p) + j
    <3>1. Len(p) + i \in DOMAIN (p \o q) /\ (p \o q)[Len(p) + i] = links[i].path  BY <1>6, <1>7
    <3>2. Len(p) + j \in DOMAIN (p \o q) /\ (p \o q)[Len(p) + j] = links[j].path  BY <1>6, <1>7
    <3> QED  BY <1>5, <1>9, <3>1, <3>2
  <2> QED  BY <1>2, <1>3, <2>1
<1>10. ASSUME NEW i \in DOMAIN own, NEW j \in DOMAIN links, Folded(own[i].path) = Folded(links[j].path)
       PROVE  FALSE
  <2>1. i = Len(p) + j
    <3>1. i \in DOMAIN (p \o q) /\ (p \o q)[i] = own[i].path  BY <1>6, <1>7
    <3>2. Len(p) + j \in DOMAIN (p \o q) /\ (p \o q)[Len(p) + j] = links[j].path  BY <1>6, <1>7
    <3> QED  BY <1>5, <1>10, <3>1, <3>2
  <2> QED  BY <1>2, <1>3, <2>1
<1> QED  BY <1>8, <1>9, <1>10

(* The files of an archive are blocks of it before its end, each declared  *)
(* and no two of one path.                                                 *)
BlocksFit(tarFiles) ==
  /\ IsList(tarFiles)
  /\ \A i \in DOMAIN tarFiles : \E f \in Verify!ToSet(attestation.fields.files) : tarFiles[i] = RecordOf(f)
  /\ \A i, j \in DOMAIN tarFiles : Folded(tarFiles[i].path) = Folded(tarFiles[j].path) => i = j

LEMMA TarBlocks ==
  ASSUME archive \in SignedArchives, Verify!TarHolds
  PROVE  BlocksFit(Verify!TarFiles)
<1> DEFINE s == archive.entries
           K == {i \in DOMAIN s : s[i].kind = "file"}
           blocks == Verify!Picked(s, K)
           tarFiles == [k \in DOMAIN blocks |-> RecordOf(blocks[k])]
<1>1. IsList(s)
  <2>1. s \in Seq(Verify!ToSet(s))  BY VerificationAssumption DEF Verify!VerificationAssumption
  <2> QED  BY <2>1, SequenceIsList
<1>2. Len(s) \in Nat /\ DOMAIN s = 1..Len(s)  BY <1>1, ListPlaces
<1>3. Verify!TarFiles = tarFiles  BY DEF Verify!TarFiles, RecordOf
<1>4. PICK end \in DOMAIN s :
        /\ \A i \in 1..(end - 1) : Verify!BlockHolds(i)
        /\ \A i \in end..Len(s) : s[i].kind = "zero"
  BY DEF Verify!TarHolds
<1>5. ASSUME NEW k \in K PROVE k \in 1..(end - 1)
  <2>1. k \in 1..Len(s) /\ s[k].kind = "file"  BY <1>2
  <2>2. ~(k \in end..Len(s))  BY <1>4, <2>1
  <2> HIDE DEF K, s
  <2> QED  BY <1>2, <2>1, <2>2
<1>6. ASSUME NEW k \in K
      PROVE  \E f \in Verify!ToSet(attestation.fields.files) : RecordOf(s[k]) = RecordOf(f)
  <2>1. Verify!BlockHolds(k) /\ s[k].kind = "file"  BY <1>4, <1>5
  <2>2. PICK f \in Verify!Declared(s[k].path) : f.mode = s[k].mode /\ f.bytes = s[k].bytes
    BY <2>1 DEF Verify!BlockHolds
  <2>3. f \in Verify!ToSet(attestation.fields.files) /\ f.path = s[k].path  BY DEF Verify!Declared
  <2> HIDE DEF s
  <2> QED  BY <2>2, <2>3 DEF RecordOf
<1>7. ASSUME NEW k \in K, NEW l \in K, k < l PROVE Folded(s[k].path) # Folded(s[l].path)
  <2>1. Verify!FirstTime(l)  BY <1>4, <1>5 DEF Verify!BlockHolds
  <2>2. k \in 1..(l - 1)
    <3>1. k \in 1..(end - 1) /\ l \in 1..(end - 1)  BY <1>5
    <3> HIDE DEF K
    <3> QED  BY <1>2, <3>1, <1>7
  <2> QED  BY <2>1, <2>2 DEF Verify!FirstTime
<1>8. \A k, l \in K : k # l => Folded(s[k].path) # Folded(s[l].path)
  <2>1. \A k \in K : k \in Nat  BY <1>2
  <2> HIDE DEF K, s
  <2> QED  BY <1>7, <2>1
<1>9. PickedFits(s, K, blocks)
  <2>1. K \in SUBSET DOMAIN s  OBVIOUS
  <2>2. blocks = Listing!Picked(s, K)  BY VerificationAgrees
  <2> HIDE DEF K, s, blocks
  <2> QED  BY <1>1, <2>1, <2>2, PickedElements
<1> HIDE DEF K, s, blocks
<1>10. IsList(blocks) /\ DOMAIN tarFiles = DOMAIN blocks /\ \A i \in DOMAIN blocks : tarFiles[i] = RecordOf(blocks[i])
  BY <1>9 DEF PickedFits
<1>11. Len(blocks) \in Nat /\ DOMAIN blocks = 1..Len(blocks)  BY <1>10, ListPlaces
<1>12. tarFiles = [i \in 1..Len(blocks) |-> tarFiles[i]]  BY <1>11
<1> HIDE DEF tarFiles
<1>13. IsList(tarFiles)  BY <1>11, <1>12, FunctionIsAList
<1>14. \A i \in DOMAIN tarFiles : \E f \in Verify!ToSet(attestation.fields.files) : tarFiles[i] = RecordOf(f)
  <2> SUFFICES ASSUME NEW i \in DOMAIN tarFiles
               PROVE  \E f \in Verify!ToSet(attestation.fields.files) : tarFiles[i] = RecordOf(f)
    OBVIOUS
  <2>1. PICK k \in K : blocks[i] = s[k]  BY <1>9, <1>10 DEF PickedFits
  <2> QED  BY <1>6, <1>10, <2>1
<1>15. \A i, j \in DOMAIN tarFiles : Folded(tarFiles[i].path) = Folded(tarFiles[j].path) => i = j
  <2> SUFFICES ASSUME NEW i \in DOMAIN tarFiles, NEW j \in DOMAIN tarFiles, i # j
               PROVE  Folded(tarFiles[i].path) # Folded(tarFiles[j].path)
    OBVIOUS
  <2>1. PICK k \in K, l \in K : k # l /\ blocks[i] = s[k] /\ blocks[j] = s[l]  BY <1>9, <1>10 DEF PickedFits
  <2>2. tarFiles[i].path = s[k].path /\ tarFiles[j].path = s[l].path  BY <1>10, <2>1 DEF RecordOf
  <2> QED  BY <1>8, <2>1, <2>2
<1> QED  BY <1>3, <1>13, <1>14, <1>15 DEF BlocksFit

(* As there are as many as are declared, they are all that is declared.    *)
LEMMA ArchiveFiles ==
  ASSUME attestation \in Attestations, archive \in SignedArchives, Verify!ShapeHolds(attestation), Verify!ArchiveHolds
  PROVE  FilesFit(Verify!TarFiles, RecordsOf(attestation.fields.files))
<1> DEFINE got == Verify!TarFiles  own == attestation.fields.files
           paths == {got[i].path : i \in DOMAIN got}
           declared == {f.path : f \in Verify!ToSet(own)}
<1>1. BlocksFit(got)  BY TarBlocks DEF Verify!ArchiveHolds
<1>2. IsList(got) /\ IsList(own)  BY <1>1, AttestationLists DEF BlocksFit
<1>3. Len(got) = Cardinality(declared)  BY VerificationAgrees DEF Verify!ArchiveHolds
<1>4. \A i, j \in DOMAIN own : Folded(own[i].path) = Folded(own[j].path) => i = j  BY ShapePaths
<1>5. Verify!ToSet(got) = {got[i] : i \in DOMAIN got} /\ Verify!ToSet(own) = {own[i] : i \in DOMAIN own}
  BY DEF Verify!ToSet
<1> HIDE DEF got, own
<1>6. /\ Len(got) \in Nat /\ DOMAIN got = 1..Len(got) /\ Len(own) \in Nat /\ DOMAIN own = 1..Len(own)
  BY <1>2, ListPlaces
<1>7. paths \in SUBSET declared  BY <1>1 DEF BlocksFit, RecordOf, own
<1>8. Cardinality(paths) = Len(got)
  <2> DEFINE g == [i \in 1..Len(got) |-> got[i].path]
  <2>1. \A i, j \in 1..Len(got) : g[i] = g[j] => i = j  BY <1>1, <1>6 DEF BlocksFit, got
  <2>2. DOMAIN g = 1..Len(got) /\ paths = {g[i] : i \in 1..Len(got)}  BY <1>6
  <2> HIDE DEF g, paths
  <2> QED  BY <1>6, <2>1, <2>2, ElementsCount
<1>9. IsFiniteSet(declared)
  <2> DEFINE g == [i \in 1..Len(own) |-> own[i].path]
  <2>1. DOMAIN g = 1..Len(own) /\ declared = {g[i] : i \in 1..Len(own)}  BY <1>5, <1>6
  <2> HIDE DEF g, declared
  <2> QED  BY <1>6, <2>1, ElementsCount
<1>10. paths = declared
  <2> HIDE DEF paths, declared
  <2> QED  BY <1>3, <1>7, <1>8, <1>9, FS_Subset
<1>11. ASSUME NEW f \in Verify!ToSet(own) PROVE RecordOf(f) \in Verify!ToSet(got)
  <2>1. PICK i \in DOMAIN got : got[i].path = f.path  BY <1>10
  <2>2. PICK h \in Verify!ToSet(own) : got[i] = RecordOf(h)  BY <1>1 DEF BlocksFit, own
  <2>3. h.path = f.path  BY <2>1, <2>2 DEF RecordOf
  <2>4. PICK a \in DOMAIN own, b \in DOMAIN own : h = own[a] /\ f = own[b]  BY <1>5
  <2>5. a = b  BY <1>4, <2>3, <2>4
  <2> QED  BY <1>5, <2>2, <2>4, <2>5
<1>12. Verify!ToSet(got) = RecordsOf(own)
  <2>1. \A g \in Verify!ToSet(got) : g \in RecordsOf(own)  BY <1>1, <1>5 DEF BlocksFit, RecordsOf, own
  <2>2. \A g \in RecordsOf(own) : g \in Verify!ToSet(got)  BY <1>11 DEF RecordsOf
  <2> QED  BY <2>1, <2>2
<1> QED  BY <1>1, <1>12 DEF FilesFit, BlocksFit, got, own

(* Linked files that fit are the declared ones.                            *)
LEMMA LinksJoin ==
  ASSUME attestation \in Attestations, Verify!ShapeHolds(attestation),
         FilesFit(verifiedFiles, RecordsOf(attestation.fields.files)),
         NEW own, own = attestation.fields.files, NEW links, links = attestation.fields.linked,
         \A f \in Verify!ToSet(links) : Verify!LinkedFits(f)
  PROVE  FilesFit(verifiedFiles \o [k \in DOMAIN links |-> LET f == links[k] IN
                                      [path |-> f.path, mode |-> f.mode, bytes |-> served[f.path]]],
                  RecordsOf(own) \cup RecordsOf(links))
<1> DEFINE had == verifiedFiles
           more == [k \in DOMAIN links |-> LET f == links[k] IN
                      [path |-> f.path, mode |-> f.mode, bytes |-> served[f.path]]]
           all == had \o more
<1>1. IsList(links) /\ IsList(had)  BY AttestationLists DEF FilesFit
<1>2. /\ Len(links) \in Nat /\ DOMAIN links = 1..Len(links) /\ Len(had) \in Nat /\ DOMAIN had = 1..Len(had)
  BY <1>1, ListPlaces
<1>3. DOMAIN more = DOMAIN links /\ \A k \in DOMAIN links : more[k] = RecordOf(links[k])
  <2>1. \A k \in DOMAIN links : served[links[k].path] = links[k].bytes
    BY DEF Verify!ToSet, Verify!LinkedFits
  <2> QED  BY <2>1 DEF RecordOf
<1>4. IsList(more)
  <2>1. more = [i \in 1..Len(links) |-> more[i]]  BY <1>2
  <2> HIDE DEF more
  <2> QED  BY <1>2, <2>1, FunctionIsAList
<1>5. /\ \A i \in DOMAIN had : \E a \in DOMAIN own : had[i] = RecordOf(own[a])
      /\ \A i, j \in DOMAIN had : Folded(had[i].path) = Folded(had[j].path) => i = j
  BY DEF FilesFit, RecordsOf, Verify!ToSet
<1>6. Verify!ToSet(had) = RecordsOf(own)  BY DEF FilesFit
<1> HIDE DEF had, more
<1>7. /\ IsList(all) /\ DOMAIN all = 1..(Len(had) + Len(more))
      /\ \A i \in DOMAIN all : all[i] = IF i \in DOMAIN had THEN had[i] ELSE more[i - Len(had)]
      /\ \A i \in DOMAIN had : i \in DOMAIN all /\ all[i] = had[i]
      /\ \A j \in DOMAIN more : Len(had) + j \in DOMAIN all /\ all[Len(had) + j] = more[j]
  BY <1>1, <1>4, ConcatLists
<1> HIDE DEF all
<1>8. DOMAIN more = 1..Len(more) /\ Len(more) \in Nat  BY <1>4, ListPlaces
<1>9. \A i \in DOMAIN all : (i \in DOMAIN had /\ all[i] = had[i])
                            \/ (i \notin DOMAIN had /\ i - Len(had) \in DOMAIN links
                                /\ all[i] = RecordOf(links[i - Len(had)]))
  <2> SUFFICES ASSUME NEW i \in DOMAIN all, i \notin DOMAIN had
               PROVE  i - Len(had) \in DOMAIN links /\ all[i] = RecordOf(links[i - Len(had)])
    BY <1>7
  <2>1. i - Len(had) \in DOMAIN links  BY <1>2, <1>3, <1>7, <1>8
  <2> QED  BY <1>3, <1>7, <2>1
<1>10. Verify!ToSet(all) = RecordsOf(own) \cup RecordsOf(links)
  <2>1. \A g \in Verify!ToSet(all) : g \in Verify!ToSet(had) \cup RecordsOf(links)
    BY <1>9 DEF Verify!ToSet, RecordsOf
  <2>2. \A g \in Verify!ToSet(had) : g \in Verify!ToSet(all)  BY <1>7 DEF Verify!ToSet
  <2>3. \A g \in RecordsOf(links) : g \in Verify!ToSet(all)  BY <1>3, <1>7 DEF Verify!ToSet, RecordsOf
  <2> QED  BY <1>6, <2>1, <2>2, <2>3
<1>11. \A i, j \in DOMAIN all : Folded(all[i].path) = Folded(all[j].path) => i = j
  <2>1. /\ \A i, j \in DOMAIN links : Folded(links[i].path) = Folded(links[j].path) => i = j
        /\ \A i \in DOMAIN own : \A j \in DOMAIN links : Folded(own[i].path) # Folded(links[j].path)
    BY ShapePaths
  <2>2. ASSUME NEW i \in DOMAIN had, NEW j \in DOMAIN links PROVE Folded(had[i].path) # Folded(links[j].path)
    BY <1>5, <2>1 DEF RecordOf
  <2> SUFFICES ASSUME NEW i \in DOMAIN all, NEW j \in DOMAIN all, Folded(all[i].path) = Folded(all[j].path)
               PROVE  i = j
    OBVIOUS
  <2>3. CASE i \in DOMAIN had /\ j \in DOMAIN had  BY <1>5, <1>7, <2>3
  <2>4. CASE i \notin DOMAIN had /\ j \notin DOMAIN had
    <3>1. i - Len(had) = j - Len(had)  BY <1>9, <2>1, <2>4 DEF RecordOf
    <3> QED  BY <1>2, <1>7, <1>8, <3>1
  <2>5. CASE i \in DOMAIN had /\ j \notin DOMAIN had  BY <1>9, <2>2, <2>5 DEF RecordOf
  <2>6. CASE i \notin DOMAIN had /\ j \in DOMAIN had  BY <1>9, <2>2, <2>6 DEF RecordOf
  <2> QED  BY <2>3, <2>4, <2>5, <2>6
<1> QED  BY <1>7, <1>10, <1>11 DEF FilesFit, had, more, all

(* Every step of the verification keeps what was checked.                  *)
LEMMA VerificationStep == VerificationInv /\ Verify!Next => VerificationInv'
<1> SUFFICES ASSUME VerificationInv, Verify!Next PROVE VerificationInv'  OBVIOUS
<1>1. UNCHANGED <<root, attestation, archive, served>>
  BY DEF Verify!Next, Verify!VerifyTrustedRoot, Verify!VerifyAttestation, Verify!VerifyArtifact,
         Verify!WithLinkedFiles, Verify!Pass, Verify!Refuse
<1>2. attestation \in Attestations /\ archive \in SignedArchives  BY DEF VerificationInv
<1>3. Verify!RootHolds => Verify!RootHolds'
  BY <1>1 DEF Verify!RootHolds, Verify!KeyStatement, Verify!SignedBy
<1>4. Attested => Attested'
  BY <1>1 DEF Attested, Verify!ShapeHolds, Verify!StatementFits, Verify!KeyHolds, Verify!Blocked, Verify!SignedBy
<1> DEFINE own == attestation.fields.files  links == attestation.fields.linked
<1>5. CASE Verify!VerifyTrustedRoot
  BY <1>1, <1>2, <1>3, <1>5 DEF Verify!VerifyTrustedRoot, Verify!Pass, Verify!Refuse, VerificationInv
<1>6. CASE Verify!VerifyAttestation
  <2>1. stage = "attestation" /\ Verify!RootHolds'  BY <1>3, <1>6 DEF Verify!VerifyAttestation, VerificationInv
  <2>2. stage' = "refused" \/ (stage' = "archive" /\ Attested')
    BY <1>4, <1>6 DEF Verify!VerifyAttestation, Verify!Pass, Verify!Refuse, Attested
  <2> QED  BY <1>1, <1>2, <2>1, <2>2 DEF VerificationInv
<1>7. CASE Verify!VerifyArtifact
  <2>1. stage = "archive" /\ Verify!RootHolds' /\ Attested /\ Attested'
    BY <1>3, <1>4, <1>7 DEF Verify!VerifyArtifact, VerificationInv
  <2>2. CASE Verify!ArchiveHolds
    <3>1. verifiedFiles' = Verify!TarFiles /\ stage' = IF links = <<>> THEN "verified" ELSE "linked"
      BY <1>7, <2>2 DEF Verify!VerifyArtifact
    <3>2. FilesFit(verifiedFiles', RecordsOf(own))
      BY <1>2, <2>1, <2>2, <3>1, ArchiveFiles DEF Attested
    <3>3. links = <<>> => RecordsOf(own) = RecordsOf(own) \cup RecordsOf(links)
      BY DEF RecordsOf, Verify!ToSet
    <3> QED  BY <1>1, <1>2, <2>1, <3>1, <3>2, <3>3 DEF VerificationInv
  <2>3. CASE ~Verify!ArchiveHolds
    <3>1. stage' = "refused"  BY <1>7, <2>3 DEF Verify!VerifyArtifact, Verify!Refuse
    <3> QED  BY <1>1, <1>2, <3>1 DEF VerificationInv
  <2> QED  BY <2>2, <2>3
<1>8. CASE Verify!WithLinkedFiles
  <2>1. /\ stage = "linked" /\ Verify!RootHolds' /\ Attested /\ Attested'
        /\ FilesFit(verifiedFiles, RecordsOf(own))
    BY <1>3, <1>4, <1>8 DEF Verify!WithLinkedFiles, VerificationInv
  <2>2. CASE \A f \in Verify!ToSet(links) : Verify!LinkedFits(f)
    <3>1. /\ stage' = "verified"
          /\ verifiedFiles' = verifiedFiles \o [k \in DOMAIN links |-> LET f == links[k] IN
                                      [path |-> f.path, mode |-> f.mode, bytes |-> served[f.path]]]
      BY <1>8, <2>2 DEF Verify!WithLinkedFiles
    <3>2. FilesFit(verifiedFiles', RecordsOf(own) \cup RecordsOf(links))
      BY <1>2, <2>1, <2>2, <3>1, LinksJoin DEF Attested
    <3> QED  BY <1>1, <1>2, <2>1, <3>1, <3>2 DEF VerificationInv
  <2>3. CASE ~\A f \in Verify!ToSet(links) : Verify!LinkedFits(f)
    <3>1. stage' = "refused"  BY <1>8, <2>3 DEF Verify!WithLinkedFiles, Verify!Refuse
    <3> QED  BY <1>1, <1>2, <3>1 DEF VerificationInv
  <2> QED  BY <2>2, <2>3
<1> QED  BY <1>5, <1>6, <1>7, <1>8 DEF Verify!Next

LEMMA VerificationUnchanged == VerificationInv /\ UNCHANGED verificationVars => VerificationInv'
<1> SUFFICES ASSUME VerificationInv, UNCHANGED verificationVars PROVE VerificationInv'  OBVIOUS
<1>1. UNCHANGED <<root, attestation, archive, served, stage, verifiedFiles>>  BY DEF verificationVars
<1>2. Verify!RootHolds => Verify!RootHolds'
  BY <1>1 DEF Verify!RootHolds, Verify!KeyStatement, Verify!SignedBy
<1>3. Attested => Attested'
  BY <1>1 DEF Attested, Verify!ShapeHolds, Verify!StatementFits, Verify!KeyHolds, Verify!Blocked, Verify!SignedBy
<1> QED  BY <1>1, <1>2, <1>3 DEF VerificationInv, FilesFit

(* What is verified is what was signed.                                    *)
LEMMA VerificationSafe == VerificationInv => Verify!VerifiedIsSigned
<1> SUFFICES ASSUME VerificationInv, stage = "verified" PROVE Verify!VerifiedIsSigned
  BY DEF Verify!VerifiedIsSigned
<1> DEFINE signed == attestation.signature.over  own == attestation.fields.files
           links == attestation.fields.linked
<1>1. /\ Verify!RootHolds /\ Attested /\ FilesFit(verifiedFiles, RecordsOf(own) \cup RecordsOf(links))
  BY DEF VerificationInv
<1>2. PICK i \in DOMAIN root.keys :
        /\ root.keys[i].status \in {"active", "overlapping"}
        /\ attestation.fields.created \in root.keys[i].from..root.keys[i].to
        /\ attestation.signature.key = root.keys[i].key /\ signed = attestation.statement
  BY <1>1 DEF Attested, Verify!KeyHolds, Verify!SignedBy
<1>3. signed = attestation.fields  BY <1>1, <1>2 DEF Attested, Verify!StatementFits
<1>4. /\ root.keys[i].signature.key = Pin
      /\ root.keys[i].signature.over = Verify!KeyStatement(root.keys[i])
  <2>1. /\ root.key = Pin /\ root.keys[i].statement = Verify!KeyStatement(root.keys[i])
        /\ Verify!SignedBy(root.keys[i].signature, root.key, "trusted-key", root.keys[i].statement)
    BY <1>1 DEF Verify!RootHolds
  <2>2. root.keys[i].signature = [key |-> root.key, domain |-> "trusted-key", over |-> root.keys[i].statement]
    BY <2>1 DEF Verify!SignedBy
  <2> QED  BY <2>1, <2>2
<1>5. /\ root.keys[i].signature.over.status = root.keys[i].status
      /\ root.keys[i].signature.over.from = root.keys[i].from
      /\ root.keys[i].signature.over.to = root.keys[i].to
  BY <1>4 DEF Verify!KeyStatement
<1>6. {[path |-> f.path, mode |-> f.mode, bytes |-> f.bytes] : f \in Verify!ToSet(signed.files) \cup Verify!ToSet(signed.linked)}
        = Verify!ToSet(verifiedFiles)
  BY <1>1, <1>3 DEF FilesFit, RecordsOf, RecordOf
<1>7. Verify!Cardinality({Folded(f.path) : f \in Verify!ToSet(verifiedFiles)}) = Len(verifiedFiles)
  <2> DEFINE n == Len(verifiedFiles)  g == [k \in 1..n |-> Folded(verifiedFiles[k].path)]
             T == {Folded(f.path) : f \in Verify!ToSet(verifiedFiles)}
  <2>1. n \in Nat /\ DOMAIN verifiedFiles = 1..n  BY <1>1, ListPlaces DEF FilesFit
  <2>2. DOMAIN g = 1..n /\ \A k, l \in 1..n : g[k] = g[l] => k = l  BY <1>1, <2>1 DEF FilesFit
  <2>3. T = {g[k] : k \in 1..n}  BY <2>1 DEF Verify!ToSet
  <2> HIDE DEF n, g, T
  <2>4. Cardinality(T) = n  BY <2>1, <2>2, <2>3, ElementsCount
  <2> QED  BY <2>4, VerificationAgrees DEF n, T
<1>8. \A c \in Verify!ToSet(signed.checks) : c.required => c.outcome = "pass"
  BY <1>1, <1>3 DEF Attested, Verify!Blocked
<1>9. \E k \in DOMAIN root.keys :
        /\ root.keys[k].key = attestation.signature.key
        /\ root.keys[k].signature.key = Pin
        /\ root.keys[k].signature.over.status \in {"active", "overlapping"}
        /\ signed.created \in root.keys[k].signature.over.from..root.keys[k].signature.over.to
  BY <1>2, <1>3, <1>4, <1>5
<1> QED  BY <1>6, <1>7, <1>8, <1>9 DEF Verify!VerifiedIsSigned

-----------------------------------------------------------------------------
(* Together.  A part that does not run stays as it started.                *)
RemoteInv == DeliveryInv /\ VerificationInv /\ DirectInv /\ Planned /\ CompareInv /\ ListingInv

LEMMA RemoteInit == Init => RemoteInv
BY DeliveryInit, VerificationInit, DirectInit, PlannedInit, CompareInit, ListingInit DEF Init, RemoteInv

(* A step is one of its part, and leaves the others alone.                 *)
LEMMA RemoteStep ==
  RemoteInv /\ [Next]_vars => RemoteInv' /\ Delivery!RetriesInTime
<1> SUFFICES ASSUME RemoteInv, [Next]_vars PROVE RemoteInv' /\ Delivery!RetriesInTime  OBVIOUS
<1>1. DeliveryInv /\ VerificationInv /\ DirectInv /\ Planned /\ CompareInv /\ ListingInv  BY DEF RemoteInv
<1>2. UNCHANGED deliveryVars => DeliveryInv' /\ Delivery!RetriesInTime
  BY <1>1, DeliveryUnchanged DEF deliveryVars
<1>3. UNCHANGED verificationVars => VerificationInv'  BY <1>1, VerificationUnchanged
<1>4. UNCHANGED directVars => DirectInv' /\ Planned'
  <2>1. UNCHANGED directVars => DirectInv'
    BY <1>1 DEF directVars, DirectInv, DirectTypes, OneSnapshot, Direct!Skill
  <2> QED  BY <1>1, <2>1, PlannedUnchanged
<1>5. UNCHANGED compareVars => CompareInv'  BY <1>1, CompareUnchanged
<1>6. UNCHANGED listingVars => ListingInv'  BY <1>1, ListingUnchanged
<1>7. CASE Delivery!Next /\ UNCHANGED <<verificationVars, directVars, compareVars, listingVars>>
  BY <1>1, <1>3, <1>4, <1>5, <1>6, <1>7, DeliveryStep DEF RemoteInv
<1>8. CASE Verify!Next /\ UNCHANGED <<deliveryVars, directVars, compareVars, listingVars>>
  BY <1>1, <1>2, <1>4, <1>5, <1>6, <1>8, VerificationStep DEF RemoteInv
<1>9. CASE Direct!Next /\ UNCHANGED <<deliveryVars, verificationVars, compareVars, listingVars>>
  BY <1>1, <1>2, <1>3, <1>5, <1>6, <1>9, DirectStep, PlannedStep DEF RemoteInv
<1>10. CASE Compare!Next /\ UNCHANGED <<deliveryVars, verificationVars, directVars, listingVars>>
  BY <1>1, <1>2, <1>3, <1>4, <1>6, <1>10, CompareStep DEF RemoteInv
<1>11. CASE Listing!Next /\ UNCHANGED <<deliveryVars, verificationVars, directVars, compareVars>>
  BY <1>1, <1>2, <1>3, <1>4, <1>5, <1>11, ListingStep DEF RemoteInv
<1>12. CASE UNCHANGED <<deliveryVars, verificationVars, directVars, compareVars, listingVars>>
  BY <1>2, <1>3, <1>4, <1>5, <1>6, <1>12 DEF RemoteInv
<1> QED  BY <1>7, <1>8, <1>9, <1>10, <1>11, <1>12 DEF Next, vars

(* The types of a preparation hold in every run, for every bound.          *)
THEOREM RemoteTypes == Spec => []TypesOK
<1>1. RemoteInv => TypesOK  BY DeliverySafe DEF RemoteInv, TypesOK
<1>2. RemoteInv /\ [Next]_vars => RemoteInv'  BY RemoteStep
<1> QED  BY <1>1, <1>2, RemoteInit, PTL DEF Spec

(* A Skill that is ready is the one that was asked for, of the one         *)
(* Resolution made for it; the Skills that --direct installs from a        *)
(* Repository are of one commit; a listing looks a Repository up once.     *)
THEOREM AskedIsDelivered == Spec => []DeliveredAsAsked
<1>1. RemoteInv => DeliveredAsAsked
  <2> SUFFICES ASSUME RemoteInv PROVE DeliveredAsAsked  OBVIOUS
  <2>1. Delivery!PreparedAsAsked /\ Delivery!ResolutionsBounded  BY DeliverySafe DEF RemoteInv
  <2>2. Direct!OneCommitForAll
    BY DEF RemoteInv, DirectInv, OneSnapshot, Direct!OneCommitForAll
  <2>3. Listing!LookedUpOnce  BY ListingSafe DEF RemoteInv
  <2> QED  BY <2>1, <2>2, <2>3 DEF DeliveredAsAsked
<1>2. RemoteInv /\ [Next]_vars => RemoteInv'  BY RemoteStep
<1> QED  BY <1>1, <1>2, RemoteInit, PTL DEF Spec

(* What was verified is what a key of the pinned root signed, file by file.*)
(* What --direct installs are the files that the tree of its commit holds  *)
(* below the path, with the bytes of the tree whenever the tarball that    *)
(* came could serve them, however it lies; of files read one by one, whose *)
(* size alone is checked, GitHub's bytes are taken.  A tarball as Git      *)
(* writes it spares reading the files one by one.                          *)
THEOREM FilesAreOfTheSource == Spec => []FilesAreTheSource
<1>1. RemoteInv => FilesAreTheSource
  <2> SUFFICES ASSUME RemoteInv PROVE FilesAreTheSource  OBVIOUS
  <2>1. Verify!VerifiedIsSigned  BY VerificationSafe DEF RemoteInv
  <2>2. Direct!FilesAreTheTree  BY DEF RemoteInv, Planned
  <2>3. (step = "tarball" /\ Direct!Usable) =>
          (Direct!Snapshot.tarball \in GitTarballs(Direct!Snapshot.commit) =>
             Direct!Serves(Direct!Snapshot.tarball))
    BY GitServes DEF RemoteInv
  <2> QED  BY <2>1, <2>2, <2>3 DEF FilesAreTheSource
<1>2. RemoteInv /\ [Next]_vars => RemoteInv'  BY RemoteStep
<1> QED  BY <1>1, <1>2, RemoteInit, PTL DEF Spec

(* However many workers deliver, and in whatever order, each comparison    *)
(* has its own answer: its last commits if its pages were, and a failure   *)
(* only of its own; and a listing of any length, over any number of pages  *)
(* and collections, names each Skill once and misses none that a selector  *)
(* can name and whose Repository was read.                                 *)
THEOREM AnswersAreTheirOwn == Spec => []AnswersTheirOwn
<1>1. RemoteInv => AnswersTheirOwn  BY CompareSafe, ListingSafe DEF RemoteInv, AnswersTheirOwn
<1>2. RemoteInv /\ [Next]_vars => RemoteInv'  BY RemoteStep
<1> QED  BY <1>1, <1>2, RemoteInit, PTL DEF Spec

(* "Never retry" is said only after an answer that stays the same, and a   *)
(* Resolution is requested again only with time left to wait for it.       *)
THEOREM RetriesArePatient == Spec => Patience
<1>1. RemoteInv /\ RemoteInv' /\ [Next]_vars =>
        [Delivery!NeverMeansFinal' /\ Delivery!RetriesInTime]_vars
  BY RemoteStep DEF RemoteInv, DeliveryInv
<1>2. RemoteInv /\ [Next]_vars => RemoteInv'  BY RemoteStep
<1> QED  BY <1>1, <1>2, RemoteInit, PTL DEF Spec, Patience

=============================================================================
