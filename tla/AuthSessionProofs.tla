-------------------------- MODULE AuthSessionProofs --------------------------
(***************************************************************************)
(* Proofs about the account session, for every set of processes and        *)
(* accounts and for every bound: how a credential that is not saved yet    *)
(* relates to those that were, and what follows from it for the keychain   *)
(* and for what the commands report.                                       *)
(***************************************************************************)
EXTENDS AuthSession, SequenceTheorems, TLAPS

-----------------------------------------------------------------------------
(* Types of all that a step reads.                                         *)
SessionRecord == [account: Accounts, gen: 0..MaxGen, revoked: BOOLEAN]

Places ==
  {"idle", "bind", "wait", "callback", "load", "refresh", "send", "answered", "save", "respond", "reload",
   "delete", "remove"}

Errors == {"AUTH_REQUIRED", "UNSUPPORTED_HOST", "SERVICE_UNAVAILABLE"}
Codes == Errors \cup {"none", "ok", "public", "token", "expired", "signed_in", "signed_out", "crashed"}
Told == {"nothing", "accepted", "rejected"}

AuthTypes ==
  /\ AuthAssumption
  /\ keychain \in Credential \cup {None} /\ saved \subseteq Credential
  /\ sessions \in Seq(SessionRecord)
  /\ now \in 0..MaxNow /\ crashes \in 0..MaxCrashes
  /\ pc \in [Procs -> Places]
  /\ op \in [Procs -> {"none", "login", "token", "status", "logout"}]
  /\ cred \in [Procs -> Credential \cup {None}]
  /\ answer \in [Procs -> [kind: AnswerKinds, cred: Credential \cup {None}]]
  /\ hops \in [Procs -> 0..MaxRedirects]
  /\ callback \in [Procs -> CallbackRequests \cup {None}]
  /\ deadline \in [Procs -> Nat]
  /\ result \in [Procs -> [code: Codes, browser: Told]]

(* Where the command of a process can stand, what it holds there, and that *)
(* nothing is reported before it returns.                                  *)
InStep(p) ==
  /\ pc[p] = "idle" => op[p] = "none"
  /\ pc[p] \in {"bind", "wait", "callback", "respond"} => op[p] = "login"
  /\ pc[p] = "load" => op[p] \in {"token", "status", "logout"}
  /\ pc[p] \in {"refresh", "reload"} => op[p] = "token"
  /\ pc[p] \in {"send", "answered"} => op[p] \in {"login", "token", "logout"}
  /\ pc[p] = "save" => op[p] \in {"login", "token"}
  /\ pc[p] \in {"delete", "remove"} => op[p] = "logout"
  /\ pc[p] = "callback" => callback[p] \in CallbackRequests
  /\ pc[p] # "idle" => result[p] = NoResult

(* A credential of a session that was granted, with the session's account. *)
OfItsSession(c) ==
  /\ c.session \in 1..Len(sessions)
  /\ c.gen <= sessions[c.session].gen
  /\ c.account = sessions[c.session].account

(* What the process works with was in the keychain, or is its own session. *)
Working(p) ==
  /\ pc[p] \in {"idle", "bind", "wait", "callback", "load"} => cred[p] = None
  /\ pc[p] \in {"send", "answered"} =>
       IF op[p] = "login" THEN cred[p] = None ELSE cred[p] \in saved
  /\ pc[p] \in {"delete", "remove", "respond"} => cred[p] \in saved
  /\ pc[p] = "save" => cred[p] \in Credential /\ OfItsSession(cred[p])

(* What the service may have answered.                                     *)
Answer(p) ==
  /\ pc[p] = "answered" /\ answer[p].kind = "credential" =>
       LET c == answer[p].cred IN
         /\ op[p] \in {"login", "token"} /\ c \in Credential
         /\ c.session \in 1..Len(sessions) /\ c.gen <= sessions[c.session].gen
         /\ op[p] = "login" => c.account = sessions[c.session].account
         /\ op[p] = "token" => c.session = cred[p].session
  /\ pc[p] = "answered" /\ answer[p].kind = "done" => op[p] = "logout"
  /\ pc[p] \in {"answered", "delete", "remove"} /\ op[p] = "logout" /\ answer[p].kind = "done" =>
       sessions[cred[p].session].revoked

(* p has a credential that the service has issued and no keychain has      *)
(* held.                                                                   *)
Issued(p, c) ==
  \/ /\ pc[p] = "answered" /\ answer[p].kind = "credential" /\ c = answer[p].cred
     /\ op[p] = "token" => c.gen # cred[p].gen
  \/ pc[p] = "save" /\ c = cred[p]

(* It is the newest of its session, and newer than all that were saved; no *)
(* two processes have one of the same session.                             *)
NewestIssued ==
  \A p \in Procs : \A c \in Credential : Issued(p, c) =>
    /\ c.gen = sessions[c.session].gen
    /\ \A old \in saved : old.session = c.session => old.gen < c.gen

OneIssued ==
  \A p, q \in Procs : \A c, d \in Credential :
    Issued(p, c) /\ Issued(q, d) /\ p # q => c.session # d.session

(* The exchange of a code of this login.                                   *)
OwnCode(p) ==
  op[p] = "login" /\ pc[p] \in {"send", "answered", "save", "respond"} =>
    callback[p].state = p /\ callback[p].host = p

SavedInv ==
  /\ keychain = None \/ keychain \in saved
  /\ \A c \in saved : OfItsSession(c)

ProcInv(p) == InStep(p) /\ Working(p) /\ Answer(p) /\ OwnCode(p)

AuthInv ==
  AuthTypes /\ SavedInv /\ (\A p \in Procs : ProcInv(p)) /\ NewestIssued /\ OneIssued

(* What is assumed of the constants goes with the types.                   *)
LEMMA Bounds == AuthTypes => AuthAssumption
BY DEF AuthTypes

(* Nothing is under way and nothing is saved.                              *)
LEMMA AuthInit == AuthAssumption /\ Init => AuthInv
<1> SUFFICES ASSUME AuthAssumption, Init PROVE AuthInv  OBVIOUS
<1>1. {MaxRedirects, MaxNow, MaxCrashes} \subseteq Nat  BY DEF AuthAssumption
<1>2. AuthTypes
  <2>1. sessions \in Seq(SessionRecord)  BY DEF Init
  <2>2. keychain \in Credential \cup {None} /\ saved \subseteq Credential  BY DEF Init
  <2>3. now \in 0..MaxNow /\ crashes \in 0..MaxCrashes  BY <1>1 DEF Init
  <2>4. hops \in [Procs -> 0..MaxRedirects] /\ deadline \in [Procs -> Nat]  BY <1>1 DEF Init
  <2>5. result \in [Procs -> [code: Codes, browser: Told]]  BY DEF Init, NoResult, Codes, Told
  <2> QED  BY <2>1, <2>2, <2>3, <2>4, <2>5 DEF AuthTypes, Init, Places, NoAnswer, AnswerKinds
<1>3. SavedInv  BY DEF Init, SavedInv
<1>4. \A p \in Procs : ProcInv(p)
  BY DEF Init, ProcInv, InStep, Working, Answer, OwnCode
<1>5. NewestIssued /\ OneIssued  BY DEF Init, NewestIssued, OneIssued, Issued
<1> QED  BY <1>2, <1>3, <1>4, <1>5 DEF AuthInv

-----------------------------------------------------------------------------
(* A step that moves one process.                                          *)
Untouched(p) ==
  \A q \in Procs \ {p} :
    /\ pc'[q] = pc[q] /\ op'[q] = op[q] /\ cred'[q] = cred[q] /\ answer'[q] = answer[q]
    /\ callback'[q] = callback[q] /\ result'[q] = result[q]

(* Where neither the service nor the keychain changes, the invariant is a  *)
(* matter of the process that moves, if it has no new credential.          *)
LEMMA MoveKeeps ==
  ASSUME NEW p \in Procs
  PROVE  /\ AuthInv /\ AuthTypes' /\ Untouched(p)
         /\ sessions' = sessions /\ saved' = saved /\ (keychain' = keychain \/ keychain' = None)
         /\ ProcInv(p)'
         /\ \A c \in Credential : Issued(p, c)' => Issued(p, c)
         => AuthInv'
<1> SUFFICES ASSUME AuthInv, AuthTypes', Untouched(p),
                    sessions' = sessions, saved' = saved, keychain' = keychain \/ keychain' = None,
                    ProcInv(p)',
                    \A c \in Credential : Issued(p, c)' => Issued(p, c)
             PROVE  AuthInv'
  OBVIOUS
<1>1. SavedInv'  BY DEF AuthInv, SavedInv, OfItsSession
<1>2. ASSUME NEW q \in Procs PROVE ProcInv(q)'
  <2>1. CASE q = p  BY <2>1
  <2>2. CASE q # p
    <3>1. ProcInv(q)  BY DEF AuthInv
    <3> QED
      BY <2>2, <3>1 DEF Untouched, ProcInv, InStep, Working, Answer, OwnCode, OfItsSession
  <2> QED  BY <2>1, <2>2
<1>3. ASSUME NEW q \in Procs, NEW c \in Credential, Issued(q, c)' PROVE Issued(q, c)
  BY <1>3 DEF Untouched, Issued
<1>4. NewestIssued'  BY <1>3 DEF AuthInv, NewestIssued
<1>5. OneIssued'  BY <1>3 DEF AuthInv, OneIssued
<1> QED  BY <1>1, <1>2, <1>4, <1>5 DEF AuthInv

(* A command that returns holds nothing any more.                          *)
LEMMA ReturnKeeps ==
  ASSUME NEW p \in Procs, NEW what \in Codes, NEW told \in Told
  PROVE  /\ AuthInv /\ ReturnAnd(p, what, told)
         /\ sessions' = sessions /\ saved' = saved /\ (keychain' = keychain \/ keychain' = None)
         /\ now' = now /\ crashes' \in 0..MaxCrashes
         => AuthInv'
<1> SUFFICES ASSUME AuthInv, ReturnAnd(p, what, told),
                    sessions' = sessions, saved' = saved, keychain' = keychain \/ keychain' = None,
                    now' = now, crashes' \in 0..MaxCrashes
             PROVE  AuthInv'
  OBVIOUS
<1>1. AuthTypes  BY DEF AuthInv
<1>2. 0 \in 0..MaxRedirects  BY <1>1, Bounds DEF AuthAssumption
<1>3. AuthTypes'
  BY <1>1, <1>2 DEF AuthTypes, ReturnAnd, Places, NoAnswer, AnswerKinds
<1>4. Untouched(p)  BY <1>1 DEF AuthTypes, ReturnAnd, Untouched
<1>5. pc'[p] = "idle" /\ op'[p] = "none" /\ cred'[p] = None  BY <1>1 DEF AuthTypes, ReturnAnd
<1>6. ProcInv(p)'  BY <1>5 DEF ProcInv, InStep, Working, Answer, OwnCode
<1>7. \A c \in Credential : Issued(p, c)' => Issued(p, c)  BY <1>5 DEF Issued
<1> QED  BY <1>3, <1>4, <1>6, <1>7, MoveKeeps

(* The errors that a command reports.                                      *)
LEMMA ErrorNames ==
  ASSUME NEW kind
  PROVE  CommandAuthError(kind) \in Errors
BY DEF CommandAuthError, Errors

(* ... through either of the ways to return.                               *)
LEMMA RespondKeeps ==
  ASSUME NEW p \in Procs, NEW what \in Codes, NEW told \in Told
  PROVE  AuthInv /\ (Respond(p, what, told) \/ Return(p, what)) /\ Keep => AuthInv'
<1> SUFFICES ASSUME AuthInv, Respond(p, what, told) \/ Return(p, what), Keep PROVE AuthInv'
  OBVIOUS
<1>1. crashes' \in 0..MaxCrashes  BY DEF AuthInv, AuthTypes, Keep
<1>2. PICK heard \in Told : ReturnAnd(p, what, heard)  BY DEF Respond, Return, Told
<1> QED  BY <1>1, <1>2, ReturnKeeps DEF Keep

(* A command that is refused, or ends in an error, holds nothing either.   *)
LEMMA RejectKeeps ==
  ASSUME NEW p \in Procs, NEW kind
  PROVE  AuthInv /\ (Reject(p, CommandAuthError(kind)) \/ Return(p, CommandAuthError(kind))) /\ Keep => AuthInv'
<1>1. CommandAuthError(kind) \in Codes /\ "rejected" \in Told  BY ErrorNames DEF Codes, Told
<1> QED  BY <1>1, RespondKeeps DEF Reject

(* A request that fails ends the command, or lets the logout delete.       *)
LEMMA RequestFailsKeeps ==
  ASSUME NEW p \in Procs, NEW kind
  PROVE  AuthInv /\ pc[p] \in {"send", "answered", "save"} /\ RequestFails(p, kind) /\ Keep => AuthInv'
<1> SUFFICES ASSUME AuthInv, pc[p] \in {"send", "answered", "save"}, RequestFails(p, kind), Keep PROVE AuthInv'
  OBVIOUS
<1>1. CASE Reject(p, CommandAuthError(kind)) \/ Return(p, CommandAuthError(kind))  BY <1>1, RejectKeeps
<1>2. CASE /\ op[p] = "logout" /\ Goto(p, "delete")
           /\ answer' = [answer EXCEPT ![p] = [kind |-> "failed", cred |-> None]]
           /\ UNCHANGED <<op, cred, hops, callback, deadline, result>>
  <2>1. AuthTypes /\ ProcInv(p)  BY DEF AuthInv
  <2>2. pc' = [pc EXCEPT ![p] = "delete"] /\ pc'[p] = "delete"  BY <1>2, <2>1 DEF Goto, AuthTypes
  <2>3. AuthTypes'  BY <1>2, <2>1, <2>2 DEF AuthTypes, Keep, Places, AnswerKinds
  <2>4. Untouched(p)  BY <1>2, <2>1, <2>2 DEF Untouched, AuthTypes
  <2>5. answer'[p].kind = "failed"  BY <1>2, <2>1 DEF AuthTypes
  <2>6. ProcInv(p)'
    BY <1>2, <2>1, <2>2, <2>5 DEF ProcInv, InStep, Working, Answer, OwnCode, Keep
  <2>7. \A c \in Credential : Issued(p, c)' => Issued(p, c)  BY <2>2 DEF Issued
  <2> QED  BY <2>3, <2>4, <2>6, <2>7, MoveKeeps DEF Keep
<1> QED  BY <1>1, <1>2 DEF RequestFails

(* A step of one process from place to place, while all else stands.       *)
LEMMA StepKeeps ==
  ASSUME NEW p \in Procs, NEW place \in Places
  PROVE  /\ AuthInv /\ Keep /\ Goto(p, place)
         /\ UNCHANGED <<op, answer, result>> /\ Untouched(p)
         /\ cred' \in [Procs -> Credential \cup {None}] /\ hops' \in [Procs -> 0..MaxRedirects]
         /\ callback' \in [Procs -> CallbackRequests \cup {None}] /\ deadline' \in [Procs -> Nat]
         /\ ProcInv(p)'
         /\ place \notin {"answered", "save"}
         => AuthInv'
<1> SUFFICES ASSUME AuthInv, Keep, Goto(p, place), UNCHANGED <<op, answer, result>>, Untouched(p),
                    cred' \in [Procs -> Credential \cup {None}], hops' \in [Procs -> 0..MaxRedirects],
                    callback' \in [Procs -> CallbackRequests \cup {None}], deadline' \in [Procs -> Nat],
                    ProcInv(p)', place \notin {"answered", "save"}
             PROVE  AuthInv'
  OBVIOUS
<1>1. AuthTypes  BY DEF AuthInv
<1>2. pc' = [pc EXCEPT ![p] = place] /\ pc'[p] = place  BY <1>1 DEF Goto, AuthTypes
<1>3. AuthTypes'  BY <1>1, <1>2 DEF AuthTypes, Keep
<1>4. \A c \in Credential : Issued(p, c)' => Issued(p, c)  BY <1>2 DEF Issued
<1> QED  BY <1>3, <1>4, MoveKeeps DEF Keep

-----------------------------------------------------------------------------
(* A command starts.                                                       *)
LEMMA StartKeeps ==
  ASSUME NEW p \in Procs, NEW c \in Commands
  PROVE  AuthInv /\ Start(p, c) => AuthInv'
<1> SUFFICES ASSUME AuthInv, Start(p, c) PROVE AuthInv'  OBVIOUS
<1>1. AuthTypes /\ ProcInv(p) /\ c \in {"login", "token", "status", "logout"}
  BY Bounds DEF AuthInv, AuthAssumption
<1>2. /\ pc' = [pc EXCEPT ![p] = IF c = "login" THEN "bind" ELSE "load"]
      /\ op' = [op EXCEPT ![p] = c] /\ result' = [result EXCEPT ![p] = NoResult]
  BY DEF Start, Goto
<1>3. /\ pc'[p] = IF c = "login" THEN "bind" ELSE "load"
      /\ op'[p] = c /\ result'[p] = NoResult
  BY <1>1, <1>2 DEF AuthTypes
<1>4. NoResult \in [code: Codes, browser: Told]  BY DEF NoResult, Codes, Told
<1>5. AuthTypes'  BY <1>1, <1>2, <1>4 DEF AuthTypes, Start, Keep, Places
<1>6. Untouched(p)  BY <1>1, <1>2 DEF Untouched, AuthTypes, Start
<1>7. cred[p] = None  BY <1>1 DEF ProcInv, Working, Start
<1>8. ProcInv(p)'
  BY <1>1, <1>3, <1>7 DEF ProcInv, InStep, Working, Answer, OwnCode, Start, Keep
<1>9. \A d \in Credential : Issued(p, d)' => Issued(p, d)  BY <1>3 DEF Issued
<1> QED  BY <1>5, <1>6, <1>8, <1>9, MoveKeeps DEF Start, Keep

(* The listener of a login.                                                *)
LEMMA ListenerKeeps ==
  ASSUME NEW p \in Procs
  PROVE  /\ AuthInv
         /\ \/ OpenBrowser(p) \/ ReceiveFails(p) \/ CheckCallback(p)
            \/ \E r \in CallbackRequests : Receive(p, r)
         => AuthInv'
<1> SUFFICES ASSUME AuthInv,
                    \/ OpenBrowser(p) \/ ReceiveFails(p) \/ CheckCallback(p)
                    \/ \E r \in CallbackRequests : Receive(p, r)
             PROVE  AuthInv'
  OBVIOUS
<1>1. AuthTypes /\ ProcInv(p)  BY DEF AuthInv
<1>2. CASE \E kind \in {"CallbackFailed", "BrowserFailed", "UnsupportedCapability", "Timeout",
                        "ExpiredAuthorizationCode"} :
             Keep /\ (Return(p, CommandAuthError(kind)) \/ Reject(p, CommandAuthError(kind)))
  BY <1>2, RejectKeeps
<1>3. CASE /\ pc[p] = "bind" /\ Keep /\ Goto(p, "wait")
           /\ deadline' = [deadline EXCEPT ![p] = now + CallbackTimeout]
           /\ UNCHANGED <<op, cred, answer, hops, callback, result>>
  <2>1. pc' = [pc EXCEPT ![p] = "wait"] /\ pc'[p] = "wait" /\ "wait" \in Places
    BY <1>1, <1>3 DEF Goto, AuthTypes, Places
  <2>2. now + CallbackTimeout \in Nat  BY <1>1, Bounds DEF AuthAssumption, AuthTypes
  <2>3. deadline' \in [Procs -> Nat]  BY <1>1, <1>3, <2>2 DEF AuthTypes
  <2>4. Untouched(p)  BY <1>1, <1>3, <2>1 DEF Untouched, AuthTypes
  <2>5. ProcInv(p)'  BY <1>1, <1>3, <2>1 DEF ProcInv, InStep, Working, Answer, OwnCode
  <2> QED  BY <1>1, <1>3, <2>1, <2>3, <2>4, <2>5, StepKeeps DEF AuthTypes
<1>4. ASSUME NEW r \in CallbackRequests, Receive(p, r) PROVE AuthInv'
  <2>1. pc' = [pc EXCEPT ![p] = "callback"] /\ pc'[p] = "callback" /\ "callback" \in Places
    BY <1>1, <1>4 DEF Receive, Goto, AuthTypes, Places
  <2>2. callback' = [callback EXCEPT ![p] = r] /\ callback'[p] = r  BY <1>1, <1>4 DEF Receive, AuthTypes
  <2>3. callback' \in [Procs -> CallbackRequests \cup {None}]  BY <1>1, <2>2 DEF AuthTypes
  <2>4. Untouched(p)  BY <1>1, <1>4, <2>1, <2>2 DEF Untouched, AuthTypes, Receive
  <2>5. ProcInv(p)'
    BY <1>1, <1>4, <2>1, <2>2 DEF ProcInv, InStep, Working, Answer, OwnCode, Receive
  <2> QED  BY <1>1, <1>4, <2>1, <2>3, <2>4, <2>5, StepKeeps DEF AuthTypes, Receive
<1>5. CASE /\ pc[p] = "callback" /\ Keep /\ ParseCallback(p, callback[p]) = "ok"
           /\ Goto(p, "send") /\ UNCHANGED <<op, cred, answer, hops, callback, deadline, result>>
  <2>1. pc' = [pc EXCEPT ![p] = "send"] /\ pc'[p] = "send" /\ "send" \in Places
    BY <1>1, <1>5 DEF Goto, AuthTypes, Places
  <2>2. callback[p] \in CallbackRequests  BY <1>1, <1>5 DEF ProcInv, InStep
  <2>3. callback[p].state = p /\ callback[p].host = p
    <3>1. callback[p].framed  BY <1>5 DEF ParseCallback
    <3>2. callback[p].host = p  BY <1>5, <3>1 DEF ParseCallback
    <3>3. callback[p].query  BY <1>5, <3>1, <3>2 DEF ParseCallback
    <3> QED  BY <1>5, <3>1, <3>2, <3>3 DEF ParseCallback
  <2>4. Untouched(p)  BY <1>1, <1>5, <2>1 DEF Untouched, AuthTypes
  <2>5. ProcInv(p)'  BY <1>1, <1>5, <2>1, <2>3 DEF ProcInv, InStep, Working, Answer, OwnCode
  <2> QED  BY <1>1, <1>5, <2>1, <2>4, <2>5, StepKeeps DEF AuthTypes
<1> QED  BY <1>2, <1>3, <1>4, <1>5 DEF OpenBrowser, ReceiveFails, CheckCallback

(* Loads of the entry.                                                     *)
LEMMA LoadedKeeps ==
  ASSUME NEW p \in Procs, NEW place \in {"refresh", "send"}
  PROVE  /\ AuthInv /\ Keep /\ LoadedTo(p, place) /\ keychain # None
         /\ op[p] \in {"token", "logout"} /\ (place = "refresh" => op[p] = "token")
         => AuthInv'
<1> SUFFICES ASSUME AuthInv, Keep, LoadedTo(p, place), keychain # None,
                    op[p] \in {"token", "logout"}, place = "refresh" => op[p] = "token"
             PROVE  AuthInv'
  OBVIOUS
<1>1. AuthTypes /\ ProcInv(p) /\ keychain \in saved  BY DEF AuthInv, SavedInv
<1>2. pc' = [pc EXCEPT ![p] = place] /\ pc'[p] = place /\ place \in Places
  BY <1>1 DEF LoadedTo, Goto, AuthTypes, Places
<1>3. cred' = [cred EXCEPT ![p] = keychain] /\ cred'[p] = keychain  BY <1>1 DEF LoadedTo, AuthTypes
<1>4. cred' \in [Procs -> Credential \cup {None}]  BY <1>1, <1>3 DEF AuthTypes
<1>5. Untouched(p)  BY <1>1, <1>2, <1>3 DEF Untouched, AuthTypes, LoadedTo
<1>6. ProcInv(p)'
  BY <1>1, <1>2, <1>3 DEF ProcInv, InStep, Working, Answer, OwnCode, LoadedTo, Keep
<1> QED  BY <1>1, <1>2, <1>4, <1>5, <1>6, StepKeeps DEF AuthTypes, LoadedTo

(* Every load of the keychain's entry keeps the invariant.                 *)
LEMMA LoadKeeps ==
  ASSUME NEW p \in Procs
  PROVE  AuthInv /\ (LoadNothing(p) \/ LoadAnswers(p) \/ LoadFails(p) \/ LoadToRefresh(p)) => AuthInv'
<1> SUFFICES ASSUME AuthInv, LoadNothing(p) \/ LoadAnswers(p) \/ LoadFails(p) \/ LoadToRefresh(p) PROVE AuthInv'
  OBVIOUS
<1>1. AuthTypes /\ ProcInv(p)  BY DEF AuthInv
<1>2. pc[p] = "load" => op[p] \in {"token", "status", "logout"}  BY <1>1 DEF ProcInv, InStep
<1>3. pc[p] = "refresh" => op[p] = "token"  BY <1>1 DEF ProcInv, InStep
<1>4. {"public", "signed_out", "ok", "expired", "signed_in", "token"} \subseteq Codes /\ "nothing" \in Told
  BY DEF Codes, Told
<1>5. CASE \E what \in {"public", "signed_out", "ok", "expired", "signed_in", "token"} : Return(p, what) /\ Keep
  BY <1>4, <1>5, RespondKeeps
<1>6. CASE \E kind \in {"CredentialStoreFailed", "NotAuthenticated"} : Return(p, CommandAuthError(kind)) /\ Keep
  BY <1>6, RejectKeeps
<1>7. CASE LoadNothing(p)
  <2>1. op[p] = "token" \/ op[p] = "status" \/ op[p] = "logout"  BY <1>2, <1>7 DEF LoadNothing
  <2>2. Return(p, "public") \/ Return(p, "signed_out") \/ Return(p, "ok")  BY <1>7, <2>1 DEF LoadNothing
  <2> QED  BY <1>5, <1>7, <2>2 DEF LoadNothing
<1>8. CASE LoadAnswers(p)
  <2>1. CASE op[p] = "status" /\ Return(p, IF keychain.expires <= now THEN "expired" ELSE "signed_in")
    BY <1>5, <1>8, <2>1 DEF LoadAnswers
  <2>2. CASE op[p] = "token" /\ Return(p, "token")  BY <1>5, <1>8, <2>2 DEF LoadAnswers
  <2>3. CASE op[p] = "token" /\ LoadedTo(p, "refresh")  BY <1>8, <2>3, LoadedKeeps DEF LoadAnswers
  <2>4. CASE op[p] = "logout" /\ LoadedTo(p, "send")  BY <1>8, <2>4, LoadedKeeps DEF LoadAnswers
  <2> QED  BY <1>8, <2>1, <2>2, <2>3, <2>4 DEF LoadAnswers
<1>9. CASE LoadFails(p)  BY <1>5, <1>6, <1>9 DEF LoadFails
<1>10. CASE LoadToRefresh(p)
  <2>1. CASE keychain # None /\ LoadedTo(p, "send")  BY <1>3, <1>10, <2>1, LoadedKeeps DEF LoadToRefresh
  <2>2. CASE Return(p, CommandAuthError("NotAuthenticated")) \/ Return(p, CommandAuthError("CredentialStoreFailed"))
    BY <1>6, <1>10, <2>2 DEF LoadToRefresh
  <2> QED  BY <1>10, <2>1, <2>2 DEF LoadToRefresh
<1> QED  BY <1>7, <1>8, <1>9, <1>10

(* What the client does with an answer.                                    *)
LEMMA AnswerKeeps ==
  ASSUME NEW p \in Procs
  PROVE  /\ AuthInv
         /\ \/ Lost(p) \/ FollowRedirect(p) \/ RejectRedirect(p) \/ RejectStatus(p)
            \/ RejectCredential(p) \/ TakeRevocation(p) \/ SaveFails(p)
         => AuthInv'
<1> SUFFICES ASSUME AuthInv,
                    \/ Lost(p) \/ FollowRedirect(p) \/ RejectRedirect(p) \/ RejectStatus(p)
                    \/ RejectCredential(p) \/ TakeRevocation(p) \/ SaveFails(p)
             PROVE  AuthInv'
  OBVIOUS
<1>1. AuthTypes /\ ProcInv(p)  BY DEF AuthInv
<1>2. CASE Lost(p)  BY <1>2, RequestFailsKeeps DEF Lost
<1>3. CASE FollowRedirect(p)
  <2>1. pc' = [pc EXCEPT ![p] = "send"] /\ pc'[p] = "send" /\ "send" \in Places
    BY <1>1, <1>3 DEF FollowRedirect, Goto, AuthTypes, Places
  <2>2. hops[p] + 1 \in 0..MaxRedirects
    BY <1>1, <1>3, Bounds DEF AuthAssumption, AuthTypes, FollowRedirect
  <2>3. hops' \in [Procs -> 0..MaxRedirects]  BY <1>1, <1>3, <2>2 DEF AuthTypes, FollowRedirect
  <2>4. answer' \in [Procs -> [kind: AnswerKinds, cred: Credential \cup {None}]]
    BY <1>1, <1>3 DEF FollowRedirect, AuthTypes, NoAnswer, AnswerKinds
  <2>5. AuthTypes'  BY <1>1, <1>3, <2>1, <2>3, <2>4 DEF AuthTypes, FollowRedirect, Keep
  <2>6. Untouched(p)  BY <1>1, <1>3, <2>1 DEF Untouched, AuthTypes, FollowRedirect
  <2>7. ProcInv(p)'
    BY <1>1, <1>3, <2>1 DEF ProcInv, InStep, Working, Answer, OwnCode, FollowRedirect, Keep
  <2>8. \A c \in Credential : Issued(p, c)' => Issued(p, c)  BY <2>1 DEF Issued
  <2> QED  BY <1>3, <2>5, <2>6, <2>7, <2>8, MoveKeeps DEF FollowRedirect, Keep
<1>4. CASE RejectRedirect(p)  BY <1>4, RequestFailsKeeps DEF RejectRedirect
<1>5. CASE RejectStatus(p)
  <2>1. pc[p] \in {"send", "answered", "save"} /\ Keep  BY <1>5 DEF RejectStatus
  <2>2. CASE RequestFails(p, IF op[p] = "token" THEN "RefreshRejected" ELSE "ExpiredAuthorizationCode")
    BY <2>1, <2>2, RequestFailsKeeps
  <2>3. CASE RequestFails(p, "HttpFailed")  BY <2>1, <2>3, RequestFailsKeeps
  <2> QED  BY <1>5, <2>2, <2>3 DEF RejectStatus
<1>6. CASE RejectCredential(p)
  <2>1. pc[p] \in {"send", "answered", "save"} /\ Keep  BY <1>6 DEF RejectCredential
  <2>2. RequestFails(p, IF answer[p].cred.expires <= now THEN "ExpiredToken" ELSE "InvalidResponse")
    BY <1>6 DEF RejectCredential
  <2> QED  BY <2>1, <2>2, RequestFailsKeeps
<1>7. CASE TakeRevocation(p)
  <2>1. pc' = [pc EXCEPT ![p] = "delete"] /\ pc'[p] = "delete" /\ "delete" \in Places
    BY <1>1, <1>7 DEF TakeRevocation, Goto, AuthTypes, Places
  <2>2. Untouched(p)  BY <1>1, <1>7, <2>1 DEF Untouched, AuthTypes, TakeRevocation
  <2>3. op[p] = "logout"  BY <1>1, <1>7 DEF ProcInv, Answer, TakeRevocation
  <2>4. ProcInv(p)'
    BY <1>1, <1>7, <2>1, <2>3 DEF ProcInv, InStep, Working, Answer, OwnCode, TakeRevocation, Keep
  <2> QED  BY <1>1, <1>7, <2>1, <2>2, <2>4, StepKeeps DEF AuthTypes, TakeRevocation
<1>8. CASE SaveFails(p)  BY <1>8, RequestFailsKeeps DEF SaveFails
<1> QED  BY <1>2, <1>3, <1>4, <1>5, <1>6, <1>7, <1>8

(* A credential that is accepted is of the session it was asked for.       *)
LEMMA TakeCredentialKeeps ==
  ASSUME NEW p \in Procs
  PROVE  AuthInv /\ TakeCredential(p) => AuthInv'
<1> SUFFICES ASSUME AuthInv, TakeCredential(p) PROVE AuthInv'  OBVIOUS
<1> DEFINE c == answer[p].cred
<1>1. AuthTypes /\ ProcInv(p) /\ SavedInv  BY DEF AuthInv
<1>2. /\ pc[p] = "answered" /\ answer[p].kind = "credential" /\ c \in Credential
      /\ op[p] \in {"login", "token"} /\ c.session \in 1..Len(sessions)
      /\ c.gen <= sessions[c.session].gen
  BY <1>1 DEF TakeCredential, ProcInv, Answer
<1>3. pc' = [pc EXCEPT ![p] = "save"] /\ pc'[p] = "save" /\ "save" \in Places
  BY <1>1 DEF TakeCredential, Goto, AuthTypes, Places
<1>4. cred' = [cred EXCEPT ![p] = c] /\ cred'[p] = c  BY <1>1 DEF TakeCredential, AuthTypes
<1>5. OfItsSession(c)
  <2>1. CASE op[p] = "login"  BY <1>1, <1>2, <2>1 DEF ProcInv, Answer, OfItsSession
  <2>2. CASE op[p] = "token"
    <3>1. c.account = cred[p].account /\ c.session = cred[p].session
      BY <1>1, <1>2, <2>2 DEF TakeCredential, Acceptable, ProcInv, Answer
    <3>2. OfItsSession(cred[p])  BY <1>1, <1>2, <2>2 DEF ProcInv, Working, SavedInv
    <3> QED  BY <1>2, <3>1, <3>2 DEF OfItsSession
  <2> QED  BY <1>2, <2>1, <2>2
<1>6. answer' \in [Procs -> [kind: AnswerKinds, cred: Credential \cup {None}]]
  BY <1>1 DEF TakeCredential, AuthTypes, NoAnswer, AnswerKinds
<1>7. AuthTypes'  BY <1>1, <1>2, <1>3, <1>4, <1>6 DEF AuthTypes, TakeCredential, Keep
<1>8. Untouched(p)  BY <1>1, <1>3, <1>4 DEF Untouched, AuthTypes, TakeCredential
<1>9. ProcInv(p)'
  BY <1>1, <1>2, <1>3, <1>4, <1>5
  DEF ProcInv, InStep, Working, Answer, OwnCode, OfItsSession, TakeCredential, Keep
<1>10. \A d \in Credential : Issued(p, d)' => Issued(p, d)
  BY <1>2, <1>3, <1>4 DEF Issued, TakeCredential, Acceptable
<1> QED  BY <1>7, <1>8, <1>9, <1>10, MoveKeeps DEF TakeCredential, Keep

(* What is saved was the newest of its session; other processes have       *)
(* credentials of other sessions.                                          *)
LEMMA SaveKeeps ==
  ASSUME NEW p \in Procs
  PROVE  AuthInv /\ Save(p) => AuthInv'
<1> SUFFICES ASSUME AuthInv, Save(p) PROVE AuthInv'  OBVIOUS
<1> DEFINE place == IF op[p] = "login" THEN "respond" ELSE "reload"
<1>1. AuthTypes /\ ProcInv(p) /\ SavedInv  BY DEF AuthInv
<1>2. pc[p] = "save" /\ cred[p] \in Credential /\ OfItsSession(cred[p]) /\ op[p] \in {"login", "token"}
  BY <1>1 DEF Save, ProcInv, Working, InStep
<1>3. pc' = [pc EXCEPT ![p] = place] /\ pc'[p] = place /\ place \in Places
  BY <1>1 DEF Save, Goto, AuthTypes, Places
<1>4. AuthTypes'  BY <1>1, <1>2, <1>3 DEF AuthTypes, Save, Others
<1>5. Untouched(p)  BY <1>1, <1>3 DEF Untouched, AuthTypes, Save
<1>6. SavedInv'  BY <1>1, <1>2 DEF SavedInv, OfItsSession, Save, Others
<1>7. ASSUME NEW q \in Procs PROVE ProcInv(q)'
  <2>1. CASE q = p
    BY <1>1, <1>2, <1>3, <2>1 DEF ProcInv, InStep, Working, Answer, OwnCode, Save
  <2>2. CASE q # p
    <3>1. ProcInv(q)  BY DEF AuthInv
    <3> QED
      BY <1>5, <2>2, <3>1
      DEF Untouched, ProcInv, InStep, Working, Answer, OwnCode, OfItsSession, Save, Others
  <2> QED  BY <2>1, <2>2
<1>8. ASSUME NEW q \in Procs, NEW c \in Credential, Issued(q, c)' PROVE Issued(q, c) /\ q # p
  BY <1>3, <1>5, <1>8 DEF Untouched, Issued, Save
<1>9. OneIssued'  BY <1>8 DEF AuthInv, OneIssued
<1>10. ASSUME NEW q \in Procs, NEW c \in Credential, Issued(q, c)'
       PROVE  c.gen = sessions'[c.session].gen /\ \A old \in saved' : old.session = c.session => old.gen < c.gen
  <2>1. Issued(q, c) /\ q # p /\ Issued(p, cred[p])  BY <1>2, <1>8, <1>10 DEF Issued
  <2>2. c.session # cred[p].session  BY <1>2, <2>1 DEF AuthInv, OneIssued
  <2>3. c.gen = sessions[c.session].gen /\ \A old \in saved : old.session = c.session => old.gen < c.gen
    BY <2>1 DEF AuthInv, NewestIssued
  <2> QED  BY <2>2, <2>3 DEF Save, Others
<1>11. NewestIssued'  BY <1>10 DEF NewestIssued
<1> QED  BY <1>4, <1>6, <1>7, <1>9, <1>11 DEF AuthInv

(* The last steps of a command.                                            *)
LEMMA EndKeeps ==
  ASSUME NEW p \in Procs
  PROVE  AuthInv /\ (Accept(p) \/ Reload(p) \/ CheckDelete(p) \/ Delete(p) \/ Crash(p)) => AuthInv'
<1> SUFFICES ASSUME AuthInv, Accept(p) \/ Reload(p) \/ CheckDelete(p) \/ Delete(p) \/ Crash(p) PROVE AuthInv'
  OBVIOUS
<1>1. AuthTypes /\ ProcInv(p)  BY DEF AuthInv
<1>2. {"public", "token", "ok", "crashed", "SERVICE_UNAVAILABLE"} \subseteq Codes /\ {"nothing", "accepted"} \subseteq Told
  BY DEF Codes, Told, Errors
<1>3. CASE Accept(p)  BY <1>2, <1>3, RespondKeeps DEF Accept
<1>4. CASE Reload(p)
  <2>1. Keep /\ \E what \in {"public", "token", "SERVICE_UNAVAILABLE"} : Return(p, what)  BY <1>4 DEF Reload
  <2> QED  BY <1>2, <2>1, RespondKeeps
<1>5. CASE CheckDelete(p)
  <2>1. CASE Return(p, CommandAuthError("CredentialStoreFailed")) /\ Keep  BY <2>1, RejectKeeps
  <2>2. CASE /\ pc[p] = "delete" /\ Keep /\ Goto(p, "remove")
             /\ UNCHANGED <<op, cred, answer, hops, callback, deadline, result>>
    <3>1. pc' = [pc EXCEPT ![p] = "remove"] /\ pc'[p] = "remove" /\ "remove" \in Places
      BY <1>1, <2>2 DEF Goto, AuthTypes, Places
    <3>2. Untouched(p)  BY <1>1, <2>2, <3>1 DEF Untouched, AuthTypes
    <3>3. ProcInv(p)'
      BY <1>1, <2>2, <3>1 DEF ProcInv, InStep, Working, Answer, OwnCode, Keep
    <3> QED  BY <1>1, <2>2, <3>1, <3>2, <3>3, StepKeeps DEF AuthTypes
  <2> QED  BY <1>5, <2>1, <2>2 DEF CheckDelete
<1>6. CASE Delete(p)
  <2>1. CommandAuthError("LogoutFailed") \in Codes /\ CommandAuthError("CredentialStoreFailed") \in Codes
    BY ErrorNames DEF Codes
  <2>2. PICK what \in Codes : Return(p, what) /\ (keychain' = None \/ keychain' = keychain)
    BY <1>2, <1>6, <2>1 DEF Delete
  <2>3. ReturnAnd(p, what, "nothing") /\ crashes' \in 0..MaxCrashes
    BY <1>1, <1>6, <2>2 DEF Return, Delete, Others, AuthTypes
  <2> QED  BY <1>2, <1>6, <2>2, <2>3, ReturnKeeps DEF Delete, Others
<1>7. CASE Crash(p)
  <2>1. crashes' \in 0..MaxCrashes  BY <1>1, <1>7, Bounds DEF AuthAssumption, AuthTypes, Crash
  <2> QED  BY <1>2, <1>7, <2>1, ReturnKeeps DEF Crash, Return
<1> QED  BY <1>3, <1>4, <1>5, <1>6, <1>7

-----------------------------------------------------------------------------
(* The service gives sessions more and takes nothing back.                 *)
SessionsGrow ==
  /\ sessions' \in Seq(SessionRecord) /\ Len(sessions) <= Len(sessions')
  /\ \A s \in 1..Len(sessions) :
       /\ sessions'[s].account = sessions[s].account /\ sessions[s].gen <= sessions'[s].gen
       /\ sessions[s].revoked => sessions'[s].revoked

(* ... so a generation that was given stays given.                         *)
LEMMA GenGrows ==
  ASSUME NEW d \in Credential
  PROVE  /\ AuthTypes /\ SessionsGrow
         /\ d.session \in 1..Len(sessions) /\ d.gen <= sessions[d.session].gen
         => d.session \in 1..Len(sessions') /\ d.gen <= sessions'[d.session].gen
<1> SUFFICES ASSUME AuthTypes, SessionsGrow,
                    d.session \in 1..Len(sessions), d.gen <= sessions[d.session].gen
             PROVE  d.session \in 1..Len(sessions') /\ d.gen <= sessions'[d.session].gen
  OBVIOUS
<1>1. d.session \in 1..Len(sessions') /\ d.gen \in Int
  BY Bounds DEF AuthTypes, SessionsGrow, Credential, AuthAssumption
<1>2. sessions[d.session] \in SessionRecord /\ sessions'[d.session] \in SessionRecord
  BY <1>1 DEF AuthTypes, SessionsGrow
<1>3. sessions[d.session].gen \in Int /\ sessions'[d.session].gen \in Int
  BY <1>2, Bounds DEF SessionRecord, AuthAssumption
<1> QED  BY <1>1, <1>3 DEF SessionsGrow

(* What an answer has to be so that the invariant stays.                   *)
FreshAnswer(p) ==
  /\ Answer(p)'
  /\ \A q \in Procs \ {p} : \A d \in Credential :
       Issued(q, d) => sessions'[d.session].gen = sessions[d.session].gen
  /\ \A c \in Credential : Issued(p, c)' =>
       /\ c.gen = sessions'[c.session].gen
       /\ \A old \in saved : old.session = c.session => old.gen < c.gen
       /\ \A q \in Procs \ {p} : \A d \in Credential : Issued(q, d) => d.session # c.session

(* The service answers: the sessions grow, and what it grants is fresh.    *)
LEMMA ServeKeeps ==
  ASSUME NEW p \in Procs, NEW kind \in AnswerKinds, NEW c \in Credential \cup {None}
  PROVE  /\ AuthInv /\ pc[p] = "send" /\ Serve(p, kind, c) /\ SessionsGrow /\ FreshAnswer(p)
         => AuthInv'
<1> SUFFICES ASSUME AuthInv, pc[p] = "send", Serve(p, kind, c), SessionsGrow, FreshAnswer(p) PROVE AuthInv'
  OBVIOUS
<1>1. AuthTypes /\ ProcInv(p) /\ SavedInv  BY DEF AuthInv
<1>2. pc' = [pc EXCEPT ![p] = "answered"] /\ pc'[p] = "answered" /\ "answered" \in Places
  BY <1>1 DEF Serve, Goto, AuthTypes, Places
<1>3. answer' = [answer EXCEPT ![p] = [kind |-> kind, cred |-> c]]  BY DEF Serve
<1>4. AuthTypes'  BY <1>1, <1>2, <1>3 DEF AuthTypes, Serve, SessionsGrow
<1>5. Untouched(p)  BY <1>1, <1>2, <1>3 DEF Untouched, AuthTypes, Serve
<1>6. ASSUME NEW d \in Credential, OfItsSession(d) PROVE OfItsSession(d)'
  <2>1. /\ d.session \in 1..Len(sessions) /\ d.session \in 1..Len(sessions')
        /\ d.gen <= sessions'[d.session].gen
    BY <1>1, <1>6, GenGrows DEF OfItsSession
  <2> QED  BY <1>6, <2>1 DEF OfItsSession, SessionsGrow
<1>7. SavedInv'  BY <1>1, <1>6 DEF SavedInv, Serve, AuthTypes
<1>8. ASSUME NEW q \in Procs PROVE ProcInv(q)'
  <2>1. CASE q = p
    <3>1. InStep(p)'  BY <1>1, <1>2 DEF ProcInv, InStep, Serve
    <3>2. Working(p)'  BY <1>1, <1>2 DEF ProcInv, Working, Serve
    <3>3. OwnCode(p)'  BY <1>1, <1>2 DEF ProcInv, OwnCode, Serve
    <3> QED  BY <2>1, <3>1, <3>2, <3>3 DEF ProcInv, FreshAnswer
  <2>2. CASE q # p
    <3>1. ProcInv(q) /\ pc'[q] = pc[q] /\ op'[q] = op[q] /\ cred'[q] = cred[q] /\ answer'[q] = answer[q]
          /\ callback'[q] = callback[q] /\ result'[q] = result[q]
      BY <1>5, <2>2 DEF AuthInv, Untouched
    <3>2. InStep(q)' /\ OwnCode(q)'  BY <3>1 DEF ProcInv, InStep, OwnCode
    <3>3. Working(q)'  BY <1>6, <3>1 DEF ProcInv, Working, Serve
    <3>4. Answer(q)'
      <4>1. ASSUME pc[q] = "answered", answer[q].kind = "credential"
            PROVE  /\ answer[q].cred.session \in 1..Len(sessions')
                   /\ answer[q].cred.gen <= sessions'[answer[q].cred.session].gen
                   /\ op[q] = "login" => answer[q].cred.account = sessions'[answer[q].cred.session].account
        <5> DEFINE d == answer[q].cred
        <5>1. d \in Credential /\ d.session \in 1..Len(sessions) /\ d.gen <= sessions[d.session].gen
          BY <3>1, <4>1 DEF ProcInv, Answer
        <5>2. d.session \in 1..Len(sessions') /\ d.gen <= sessions'[d.session].gen
          <6> HIDE DEF d
          <6> QED  BY <1>1, <5>1, GenGrows
        <5> QED  BY <3>1, <4>1, <5>1, <5>2 DEF ProcInv, Answer, SessionsGrow
      <4>2. ASSUME op[q] = "logout", pc[q] \in {"answered", "delete", "remove"}, answer[q].kind = "done"
            PROVE  sessions'[cred[q].session].revoked
        <5>1. sessions[cred[q].session].revoked  BY <3>1, <4>2 DEF ProcInv, Answer
        <5>2. cred[q] \in saved  BY <3>1, <4>2 DEF ProcInv, Working
        <5> QED  BY <1>1, <5>1, <5>2 DEF SavedInv, OfItsSession, SessionsGrow
      <4> QED  BY <3>1, <4>1, <4>2 DEF ProcInv, Answer
    <3> QED  BY <3>2, <3>3, <3>4 DEF ProcInv
  <2> QED  BY <2>1, <2>2
<1>9. ASSUME NEW q \in Procs, q # p, NEW d \in Credential PROVE Issued(q, d)' <=> Issued(q, d)
  BY <1>5, <1>9 DEF Untouched, Issued
<1>10. NewestIssued'
  BY <1>9 DEF NewestIssued, AuthInv, FreshAnswer, Serve
<1>11. OneIssued'
  BY <1>9 DEF OneIssued, AuthInv, FreshAnswer
<1> QED  BY <1>4, <1>7, <1>8, <1>10, <1>11 DEF AuthInv

(* Sessions that do not change have grown by nothing.                      *)
LEMMA NothingGrows == AuthTypes /\ sessions' = sessions => SessionsGrow
<1> SUFFICES ASSUME AuthTypes, sessions' = sessions PROVE SessionsGrow  OBVIOUS
<1>1. ASSUME NEW s \in 1..Len(sessions) PROVE sessions[s].gen \in Int
  <2>1. sessions[s] \in SessionRecord  BY DEF AuthTypes
  <2> QED  BY <2>1, Bounds DEF SessionRecord, AuthAssumption
<1> QED  BY <1>1 DEF SessionsGrow, AuthTypes

(* ... as when the record of one session is replaced by a later one.       *)
LEMMA ReplaceGrows ==
  ASSUME NEW s \in 1..Len(sessions), NEW r \in SessionRecord
  PROVE  /\ AuthTypes /\ sessions' = [sessions EXCEPT ![s] = r]
         /\ r.account = sessions[s].account /\ sessions[s].gen <= r.gen /\ (sessions[s].revoked => r.revoked)
         => /\ SessionsGrow /\ Len(sessions') = Len(sessions) /\ sessions'[s] = r
            /\ \A t \in 1..Len(sessions) : t # s => sessions'[t] = sessions[t]
<1> SUFFICES ASSUME AuthTypes, sessions' = [sessions EXCEPT ![s] = r],
                    r.account = sessions[s].account, sessions[s].gen <= r.gen, sessions[s].revoked => r.revoked
             PROVE  /\ SessionsGrow /\ Len(sessions') = Len(sessions) /\ sessions'[s] = r
                    /\ \A t \in 1..Len(sessions) : t # s => sessions'[t] = sessions[t]
  OBVIOUS
<1>1. sessions \in Seq(SessionRecord)  BY DEF AuthTypes
<1>2. sessions' \in Seq(SessionRecord) /\ Len(sessions') = Len(sessions)  BY <1>1, ExceptSeq
<1>3. sessions'[s] = r /\ \A t \in 1..Len(sessions) : t # s => sessions'[t] = sessions[t]  BY <1>1
<1>4. ASSUME NEW t \in 1..Len(sessions) PROVE sessions[t].gen \in Int
  <2>1. sessions[t] \in SessionRecord  BY <1>1
  <2> QED  BY <2>1, Bounds DEF SessionRecord, AuthAssumption
<1>5. Len(sessions) \in Nat  BY <1>1
<1>6. ASSUME NEW t \in 1..Len(sessions)
      PROVE  /\ sessions'[t].account = sessions[t].account /\ sessions[t].gen <= sessions'[t].gen
             /\ sessions[t].revoked => sessions'[t].revoked
  <2>1. CASE t = s  BY <1>3, <2>1
  <2>2. CASE t # s  BY <1>3, <1>4, <2>2
  <2> QED  BY <2>1, <2>2
<1> QED  BY <1>2, <1>3, <1>5, <1>6 DEF SessionsGrow

(* What was issued is of a session that was granted.                       *)
LEMMA IssuedIsGranted ==
  ASSUME NEW q \in Procs, NEW d \in Credential
  PROVE  AuthInv /\ Issued(q, d) => d.session \in 1..Len(sessions)
<1> SUFFICES ASSUME AuthInv, Issued(q, d) PROVE d.session \in 1..Len(sessions)  OBVIOUS
<1> QED  BY DEF AuthInv, Issued, ProcInv, Working, Answer, OfItsSession

(* An answer that grants nothing.                                          *)
LEMMA RefuseKeeps ==
  ASSUME NEW p \in Procs
  PROVE  AuthInv /\ Refuse(p) => AuthInv'
<1> SUFFICES ASSUME AuthInv, Refuse(p) PROVE AuthInv'  OBVIOUS
<1>1. AuthTypes /\ ProcInv(p)  BY DEF AuthInv
<1>2. PICK kind \in {"unauthorised", "failed", "redirect", "away"} : Serve(p, kind, None)  BY DEF Refuse
<1>3. answer'[p].kind = kind /\ pc'[p] = "answered"  BY <1>1, <1>2 DEF Serve, Goto, AuthTypes
<1>4. sessions' = sessions  BY DEF Refuse
<1>5. FreshAnswer(p)  BY <1>2, <1>3, <1>4 DEF FreshAnswer, Answer, Issued
<1>6. kind \in AnswerKinds  BY DEF AnswerKinds
<1> QED  BY <1>1, <1>2, <1>4, <1>5, <1>6, ServeKeeps, NothingGrows DEF Refuse

(* A login gets a session that nobody has a credential of.                 *)
LEMMA GrantLoginKeeps ==
  ASSUME NEW p \in Procs
  PROVE  AuthInv /\ GrantLogin(p) => AuthInv'
<1> SUFFICES ASSUME AuthInv, GrantLogin(p) PROVE AuthInv'  OBVIOUS
<1>1. AuthTypes /\ ProcInv(p) /\ SavedInv  BY DEF AuthInv
<1>2. PICK a \in Accounts, e \in now..(now + Lifetime) :
        /\ sessions' = Append(sessions, [account |-> a, gen |-> 0, revoked |-> FALSE])
        /\ Serve(p, "credential", [session |-> Len(sessions) + 1, gen |-> 0, account |-> a, expires |-> e])
  BY DEF GrantLogin
<1> DEFINE new == [account |-> a, gen |-> 0, revoked |-> FALSE]
           c == [session |-> Len(sessions) + 1, gen |-> 0, account |-> a, expires |-> e]
<1>3. new \in SessionRecord  BY <1>1, Bounds DEF SessionRecord, AuthAssumption
<1>4. /\ sessions' \in Seq(SessionRecord) /\ Len(sessions') = Len(sessions) + 1
      /\ \A s \in 1..Len(sessions) : sessions'[s] = sessions[s]
      /\ sessions'[Len(sessions) + 1] = new
  BY <1>1, <1>2, <1>3 DEF AuthTypes
<1>5. SessionsGrow
  <2>1. ASSUME NEW s \in 1..Len(sessions) PROVE sessions[s].gen \in Int
    <3>1. sessions[s] \in SessionRecord  BY <1>1 DEF AuthTypes
    <3> QED  BY <3>1, <1>1, Bounds DEF SessionRecord, AuthAssumption
  <2>2. Len(sessions) \in Nat  BY <1>1 DEF AuthTypes
  <2> QED  BY <1>4, <2>1, <2>2 DEF SessionsGrow
<1>6. c \in Credential
  <2>1. Len(sessions) \in Nat /\ Len(sessions) < MaxSessions /\ now \in 0..MaxNow
    BY <1>1 DEF GrantLogin, AuthTypes
  <2>2. Len(sessions) + 1 \in 1..MaxSessions /\ 0 \in 0..MaxGen  BY <2>1, <1>1, Bounds DEF AuthTypes, AuthAssumption
  <2>3. e \in 0..(MaxNow + Lifetime)  BY <2>1, <1>1, Bounds DEF AuthTypes, AuthAssumption
  <2> QED  BY <2>2, <2>3 DEF Credential
<1>7. answer'[p] = [kind |-> "credential", cred |-> c] /\ pc'[p] = "answered" /\ op'[p] = "login"
  BY <1>1, <1>2 DEF Serve, Goto, AuthTypes, GrantLogin
<1>8. Len(sessions) + 1 \notin 1..Len(sessions) /\ Len(sessions) + 1 \in 1..Len(sessions')
  BY <1>1, <1>4 DEF AuthTypes
<1>9. Answer(p)'
  <2>1. c.session = Len(sessions) + 1 /\ c.gen = 0 /\ c.account = a  OBVIOUS
  <2> QED  BY <1>4, <1>6, <1>7, <1>8, <2>1 DEF Answer
<1>10. ASSUME NEW q \in Procs \ {p}, NEW d \in Credential, Issued(q, d)
       PROVE  d.session # c.session /\ sessions'[d.session].gen = sessions[d.session].gen
  BY <1>4, <1>8, <1>10, IssuedIsGranted
<1>11. ASSUME NEW d \in Credential, Issued(p, d)'
       PROVE  d = c
  BY <1>7, <1>11 DEF Issued
<1>12. \A old \in saved : old.session # c.session  BY <1>1, <1>8 DEF SavedInv, OfItsSession
<1>13. c.gen = sessions'[c.session].gen  BY <1>4
<1>14. FreshAnswer(p)
  <2> HIDE DEF c
  <2> QED  BY <1>9, <1>10, <1>11, <1>12, <1>13 DEF FreshAnswer
<1>15. "credential" \in AnswerKinds  BY DEF AnswerKinds
<1>16. Serve(p, "credential", c)  BY <1>2
<1> HIDE DEF c
<1> QED  BY <1>5, <1>6, <1>14, <1>15, <1>16, ServeKeeps DEF GrantLogin

(* A rotation gives a session whose newest credential was saved a newer    *)
(* one: nobody else has one of it that is not saved.                       *)
LEMMA RotateKeeps ==
  ASSUME NEW p \in Procs
  PROVE  AuthInv /\ Rotate(p) => AuthInv'
<1> SUFFICES ASSUME AuthInv, Rotate(p) PROVE AuthInv'  OBVIOUS
<1> DEFINE s == cred[p].session
<1>1. AuthTypes /\ ProcInv(p) /\ SavedInv  BY DEF AuthInv
<1>2. cred[p] \in saved /\ cred[p] \in Credential /\ OfItsSession(cred[p])
  BY <1>1 DEF Rotate, ProcInv, Working, SavedInv, AuthTypes
<1>3. PICK a \in Accounts, e \in now..(now + Lifetime) :
        Serve(p, "credential", [session |-> s, gen |-> cred[p].gen + 1, account |-> a, expires |-> e])
  BY DEF Rotate
<1> DEFINE c == [session |-> s, gen |-> cred[p].gen + 1, account |-> a, expires |-> e]
<1> DEFINE new == [sessions[s] EXCEPT !.gen = cred[p].gen + 1]
<1>4. /\ s \in 1..Len(sessions) /\ sessions[s] \in SessionRecord /\ sessions[s].gen = cred[p].gen
      /\ cred[p].gen \in 0..MaxGen /\ cred[p].gen < MaxGen /\ cred[p].gen + 1 \in 0..MaxGen
  <2>1. s \in 1..Len(sessions) /\ sessions[s].gen = cred[p].gen /\ cred[p].gen < MaxGen
    BY <1>2 DEF OfItsSession, Rotate
  <2>2. cred[p].gen \in 0..MaxGen  BY <1>2 DEF Credential
  <2>3. cred[p].gen + 1 \in 0..MaxGen  BY <2>1, <2>2, <1>1, Bounds DEF AuthTypes, AuthAssumption
  <2>4. sessions[s] \in SessionRecord  BY <1>1, <2>1 DEF AuthTypes
  <2> QED  BY <2>1, <2>2, <2>3, <2>4
<1>5. sessions' = [sessions EXCEPT ![s] = new]  BY <1>4 DEF Rotate
<1>6. /\ new \in SessionRecord /\ new.gen = cred[p].gen + 1
      /\ new.account = sessions[s].account /\ new.revoked = sessions[s].revoked
  BY <1>4 DEF SessionRecord
<1>7. /\ SessionsGrow /\ Len(sessions') = Len(sessions) /\ sessions'[s] = new
      /\ \A t \in 1..Len(sessions) : t # s => sessions'[t] = sessions[t]
  <2>1. sessions[s].gen <= new.gen  BY <1>4, <1>6
  <2> HIDE DEF new, s
  <2> QED  BY <1>1, <1>4, <1>5, <1>6, <2>1, ReplaceGrows
<1>8. c \in Credential
  <2>1. now \in 0..MaxNow  BY <1>1 DEF AuthTypes
  <2>2. e \in 0..(MaxNow + Lifetime)  BY <2>1, <1>1, Bounds DEF AuthTypes, AuthAssumption
  <2> QED  BY <1>2, <1>4, <2>2 DEF Credential
<1>9. /\ answer'[p] = [kind |-> "credential", cred |-> c] /\ pc'[p] = "answered" /\ op'[p] = "token"
      /\ cred'[p] = cred[p]
  BY <1>1, <1>3 DEF Serve, Goto, AuthTypes, Rotate
<1>10. sessions'[s].gen = cred[p].gen + 1  BY <1>6, <1>7
<1>11. Answer(p)'
  <2>1. c.session = s /\ c.gen = cred[p].gen + 1  OBVIOUS
  <2>2. c.gen <= sessions'[c.session].gen  BY <1>4, <1>10, <2>1
  <2> QED  BY <1>4, <1>7, <1>8, <1>9, <2>1, <2>2 DEF Answer
<1>12. ASSUME NEW q \in Procs \ {p}, NEW d \in Credential, Issued(q, d)
       PROVE  d.session # s /\ sessions'[d.session].gen = sessions[d.session].gen
  <2>1. d.gen = sessions[d.session].gen /\ \A old \in saved : old.session = d.session => old.gen < d.gen
    BY <1>12 DEF AuthInv, NewestIssued
  <2>2. d.session # s  BY <1>2, <1>4, <2>1
  <2> QED  BY <1>7, <1>12, <2>2, IssuedIsGranted
<1>13. ASSUME NEW d \in Credential, Issued(p, d)' PROVE d = c  BY <1>9, <1>13 DEF Issued
<1>14. \A old \in saved : old.session = s => old.gen < cred[p].gen + 1
  <2>1. ASSUME NEW old \in saved, old.session = s PROVE old.gen < cred[p].gen + 1
    <3>1. MaxGen \in Nat  BY <1>1, Bounds DEF AuthAssumption
    <3>2. old.gen <= cred[p].gen /\ old.gen \in Int
      BY <1>1, <1>4, <2>1, <3>1 DEF SavedInv, OfItsSession, AuthTypes, Credential
    <3> QED  BY <1>4, <3>2
  <2> QED  BY <2>1
<1>15. FreshAnswer(p)
  <2>1. c.session = s /\ c.gen = cred[p].gen + 1  OBVIOUS
  <2> HIDE DEF c, s
  <2> QED  BY <1>10, <1>11, <1>12, <1>13, <1>14, <2>1 DEF FreshAnswer
<1>16. "credential" \in AnswerKinds /\ Serve(p, "credential", c) /\ pc[p] = "send"
  BY <1>3 DEF AnswerKinds, Rotate
<1> HIDE DEF c, s
<1> QED  BY <1>7, <1>8, <1>15, <1>16, ServeKeeps

(* A credential that is answered again is not a new one.                   *)
LEMMA ReplayKeeps ==
  ASSUME NEW p \in Procs
  PROVE  AuthInv /\ Replay(p) => AuthInv'
<1> SUFFICES ASSUME AuthInv, Replay(p) PROVE AuthInv'  OBVIOUS
<1> DEFINE c == [cred[p] EXCEPT !.expires = now + Lifetime]
<1>1. AuthTypes /\ ProcInv(p) /\ SavedInv  BY DEF AuthInv
<1>2. cred[p] \in saved /\ cred[p] \in Credential /\ OfItsSession(cred[p])
  BY <1>1 DEF Replay, ProcInv, Working, SavedInv, AuthTypes
<1>3. now + Lifetime \in 0..(MaxNow + Lifetime)  BY <1>1, Bounds DEF AuthTypes, AuthAssumption
<1>4. c \in Credential /\ c.session = cred[p].session /\ c.gen = cred[p].gen
  BY <1>2, <1>3 DEF Credential
<1>5. /\ answer'[p] = [kind |-> "credential", cred |-> c] /\ pc'[p] = "answered" /\ op'[p] = "token"
      /\ cred'[p] = cred[p] /\ sessions' = sessions
  BY <1>1 DEF Serve, Goto, AuthTypes, Replay
<1>6. Serve(p, "credential", c) /\ pc[p] = "send" /\ "credential" \in AnswerKinds  BY DEF Replay, AnswerKinds
<1> HIDE DEF c
<1>7. Answer(p)'  BY <1>2, <1>4, <1>5 DEF Answer, OfItsSession
<1>8. \A d \in Credential : ~Issued(p, d)'  BY <1>4, <1>5 DEF Issued
<1>9. FreshAnswer(p)  BY <1>5, <1>7, <1>8 DEF FreshAnswer
<1> QED  BY <1>1, <1>4, <1>5, <1>6, <1>9, ServeKeeps, NothingGrows

(* A session is revoked; its account and generation stay.                  *)
LEMMA RevokeKeeps ==
  ASSUME NEW p \in Procs
  PROVE  AuthInv /\ Revoke(p) => AuthInv'
<1> SUFFICES ASSUME AuthInv, Revoke(p) PROVE AuthInv'  OBVIOUS
<1> DEFINE s == cred[p].session
<1>1. AuthTypes /\ ProcInv(p) /\ SavedInv  BY DEF AuthInv
<1>2. cred[p] \in saved /\ s \in 1..Len(sessions)
  BY <1>1 DEF Revoke, ProcInv, Working, SavedInv, OfItsSession
<1> DEFINE new == [sessions[s] EXCEPT !.revoked = TRUE]
<1>3. sessions[s] \in SessionRecord  BY <1>1, <1>2 DEF AuthTypes
<1>4. sessions' = [sessions EXCEPT ![s] = new]  BY <1>2 DEF Revoke
<1>5. new \in SessionRecord /\ new.account = sessions[s].account /\ new.gen = sessions[s].gen /\ new.revoked
  BY <1>3 DEF SessionRecord
<1>6. sessions[s].gen <= new.gen  BY <1>3, <1>5, Bounds DEF SessionRecord, AuthAssumption
<1>7. /\ SessionsGrow /\ sessions'[s] = new
      /\ \A t \in 1..Len(sessions) : t # s => sessions'[t] = sessions[t]
  <2> HIDE DEF new, s
  <2> QED  BY <1>1, <1>2, <1>4, <1>5, <1>6, ReplaceGrows
<1>8. /\ answer'[p].kind = "done" /\ pc'[p] = "answered" /\ op'[p] = "logout" /\ cred'[p] = cred[p]
  BY <1>1 DEF Serve, Goto, AuthTypes, Revoke
<1>9. Answer(p)'  BY <1>5, <1>7, <1>8 DEF Answer
<1>10. \A d \in Credential : ~Issued(p, d)'  BY <1>8 DEF Issued
<1>11. ASSUME NEW q \in Procs, NEW d \in Credential, Issued(q, d)
       PROVE  sessions'[d.session].gen = sessions[d.session].gen
  BY <1>5, <1>7, <1>11, IssuedIsGranted
<1>12. FreshAnswer(p)  BY <1>9, <1>10, <1>11 DEF FreshAnswer
<1>13. "done" \in AnswerKinds  BY DEF AnswerKinds
<1> QED  BY <1>7, <1>12, <1>13, ServeKeeps DEF Revoke

-----------------------------------------------------------------------------
(* All that one process does, and what the service does for it.            *)
StepOf(p) ==
  \/ \E c \in Commands : Start(p, c)
  \/ \E r \in CallbackRequests : Receive(p, r)
  \/ Service(p) \/ Client(p) \/ Crash(p)

(* Whatever a process does next, and whatever it is answered.              *)
LEMMA StepOfKeeps ==
  ASSUME NEW p \in Procs
  PROVE  AuthInv /\ StepOf(p) => AuthInv'
<1> SUFFICES ASSUME AuthInv, StepOf(p) PROVE AuthInv'  OBVIOUS
<1>1. CASE \E c \in Commands : Start(p, c)  BY <1>1, StartKeeps
<1>2. CASE \E r \in CallbackRequests : Receive(p, r)  BY <1>2, ListenerKeeps
<1>3. CASE Service(p)
  BY <1>3, RefuseKeeps, GrantLoginKeeps, RotateKeeps, ReplayKeeps, RevokeKeeps DEF Service
<1>4. CASE Client(p)
  BY <1>4, ListenerKeeps, LoadKeeps, AnswerKeeps, TakeCredentialKeeps, SaveKeeps, EndKeeps DEF Client
<1>5. CASE Crash(p)  BY <1>5, EndKeeps
<1> QED  BY <1>1, <1>2, <1>3, <1>4, <1>5 DEF StepOf

(* The invariant is inductive: time moves nobody.                          *)
LEMMA AuthStep == AuthInv /\ Next => AuthInv'
<1> SUFFICES ASSUME AuthInv, Next PROVE AuthInv'  OBVIOUS
<1>1. CASE Tick
  <2>1. now' \in 0..MaxNow  BY <1>1, Bounds DEF AuthInv, AuthTypes, Tick, AuthAssumption
  <2> QED
    BY <1>1, <2>1
    DEF AuthInv, AuthTypes, SavedInv, ProcInv, InStep, Working, Answer, OwnCode, OfItsSession, NewestIssued,
        OneIssued, Issued, Tick, local
<1>2. CASE \E p \in Procs : StepOf(p)  BY <1>2, StepOfKeeps
<1> QED  BY <1>1, <1>2 DEF Next, StepOf

(* A step of another part of the program changes nothing here.             *)
LEMMA AuthStutters == AuthInv /\ UNCHANGED vars => AuthInv'
BY DEF AuthInv, AuthTypes, SavedInv, ProcInv, InStep, Working, Answer, OwnCode, OfItsSession, NewestIssued,
       OneIssued, Issued, vars, local

-----------------------------------------------------------------------------
(* What the invariant says of a state.                                     *)
LEMMA AuthTyped == AuthInv => TypeOK
<1> SUFFICES ASSUME AuthInv PROVE TypeOK  OBVIOUS
<1>1. AuthTypes /\ SavedInv /\ \A p \in Procs : ProcInv(p)  BY DEF AuthInv
<1>2. ASSUME NEW p \in Procs
      PROVE  /\ answer[p].kind \in AnswerKinds /\ answer[p].cred \in Credential \cup {None}
             /\ pc[p] \in {"save", "respond", "delete", "remove"} => cred[p] # None
             /\ pc[p] \in {"send", "answered"} /\ op[p] # "login" => cred[p] # None
  <2>1. answer[p].kind \in AnswerKinds /\ answer[p].cred \in Credential \cup {None}  BY <1>1 DEF AuthTypes
  <2>2. None \notin saved  BY <1>1, Bounds DEF AuthTypes, AuthAssumption
  <2> QED  BY <1>1, <2>1, <2>2, Bounds DEF ProcInv, Working, AuthAssumption
<1> QED  BY <1>1, <1>2 DEF TypeOK, AuthTypes, SessionRecord

(* The entry of the keychain is of a session, with that one's account.     *)
LEMMA EntryNamesItsSession == AuthInv => EntryOfItsSession
BY DEF AuthInv, SavedInv, OfItsSession, EntryOfItsSession

(* A code that is being exchanged came to the login that waited for it.    *)
LEMMA CodesAreOwn == AuthInv => ExchangesOwnCode
BY DEF AuthInv, ProcInv, OwnCode, ExchangesOwnCode

-----------------------------------------------------------------------------
(* What a command reports when it returns, and from where.                 *)
Reports(p, what, told) ==
  /\ ReturnAnd(p, what, told)
  /\ told \in Told /\ (told = "accepted" => pc[p] = "respond")
  /\ told = "rejected" => op[p] = "login" /\ pc[p] \in {"callback", "send", "answered", "save"}
  /\ what = "ok" =>
       \/ pc[p] = "load" /\ keychain = None /\ keychain' = None
       \/ pc[p] = "remove" /\ keychain' = None /\ answer[p].kind = "done"
       \/ pc[p] = "respond"
  /\ what = "public" => pc[p] = "load" \/ keychain = None

(* A command that ends in an error reports an error.                       *)
LEMMA ErrorReports ==
  ASSUME NEW p \in Procs, NEW kind
  PROVE  /\ Return(p, CommandAuthError(kind)) => \E what, told : Reports(p, what, told)
         /\ /\ Reject(p, CommandAuthError(kind)) /\ op[p] = "login"
            /\ pc[p] \in {"callback", "send", "answered", "save"}
            => \E what, told : Reports(p, what, told)
<1>1. CommandAuthError(kind) \notin {"ok", "public"}  BY ErrorNames DEF Errors
<1> QED  BY <1>1 DEF Reports, Return, Reject, Respond, Told

(* So does a request that fails; a logout goes on instead.                 *)
LEMMA FailureReports ==
  ASSUME NEW p \in Procs, NEW kind
  PROVE  /\ RequestFails(p, kind) /\ pc[p] \in {"send", "answered", "save"}
         => result' = result \/ \E what, told : Reports(p, what, told)
BY ErrorReports DEF RequestFails

(* Every step of a running command reports nothing, or ends it.            *)
LEMMA StepReports ==
  ASSUME NEW p \in Procs
  PROVE  AuthInv /\ StepOf(p) /\ pc[p] # "idle" =>
           result' = result \/ \E what, told : Reports(p, what, told)
<1> SUFFICES ASSUME AuthInv, StepOf(p), pc[p] # "idle"
             PROVE  result' = result \/ \E what, told : Reports(p, what, told)
  OBVIOUS
<1>1. InStep(p)  BY DEF AuthInv, ProcInv
<1>2. CASE Service(p)  BY <1>2 DEF Service, Refuse, GrantLogin, Rotate, Replay, Revoke, Serve
<1>3. CASE (\E c \in Commands : Start(p, c)) \/ \E r \in CallbackRequests : Receive(p, r)
  BY <1>3 DEF Start, Receive
<1>4. CASE Crash(p)  BY <1>4 DEF Crash, Reports, Return, Told
<1>5. CASE OpenBrowser(p) \/ ReceiveFails(p)  BY <1>5, ErrorReports DEF OpenBrowser, ReceiveFails
<1>6. CASE CheckCallback(p)  BY <1>1, <1>6, ErrorReports DEF CheckCallback, InStep
<1>7. CASE LoadNothing(p)
  <2>1. PICK what : Return(p, what)  BY <1>7 DEF LoadNothing
  <2>2. pc[p] = "load" /\ keychain = None /\ keychain' = None  BY <1>7 DEF LoadNothing, Keep
  <2> QED  BY <2>1, <2>2 DEF Reports, Return, Told
<1>8. CASE LoadAnswers(p)
  <2>1. CASE \E what \in {"expired", "signed_in", "token"} : Return(p, what)
    BY <2>1 DEF Reports, Return, Told
  <2>2. CASE result' = result  BY <2>2
  <2> QED  BY <1>8, <2>1, <2>2 DEF LoadAnswers, LoadedTo
<1>9. CASE LoadFails(p)
  <2>1. CASE Return(p, "public")  BY <1>9, <2>1 DEF LoadFails, Reports, Return, Told
  <2>2. CASE Return(p, CommandAuthError("CredentialStoreFailed"))  BY <2>2, ErrorReports
  <2> QED  BY <1>9, <2>1, <2>2 DEF LoadFails
<1>10. CASE LoadToRefresh(p)  BY <1>10, ErrorReports DEF LoadToRefresh, LoadedTo
<1>11. CASE Lost(p)  BY <1>11, FailureReports DEF Lost
<1>12. CASE FollowRedirect(p) \/ TakeCredential(p) \/ TakeRevocation(p) \/ Save(p)
  BY <1>12 DEF FollowRedirect, TakeCredential, TakeRevocation, Save
<1>13. CASE RejectRedirect(p) \/ RejectStatus(p) \/ RejectCredential(p) \/ SaveFails(p)
  <2>1. pc[p] \in {"send", "answered", "save"}  BY <1>13 DEF RejectRedirect, RejectStatus, RejectCredential, SaveFails
  <2>2. \E kind : RequestFails(p, kind)  BY <1>13 DEF RejectRedirect, RejectStatus, RejectCredential, SaveFails
  <2> QED  BY <2>1, <2>2, FailureReports
<1>14. CASE Accept(p)
  <2>1. PICK heard \in {"accepted", "nothing"} : ReturnAnd(p, "ok", heard)  BY <1>14 DEF Accept, Respond
  <2> QED  BY <1>14, <2>1 DEF Accept, Reports, Told
<1>15. CASE Reload(p)
  <2>1. CASE Return(p, IF keychain = None THEN "public" ELSE "token")  BY <2>1 DEF Reports, Return, Told
  <2>2. CASE Return(p, "SERVICE_UNAVAILABLE")  BY <2>2 DEF Reports, Return, Told
  <2> QED  BY <1>15, <2>1, <2>2 DEF Reload
<1>16. CASE CheckDelete(p)  BY <1>16, ErrorReports DEF CheckDelete
<1>17. CASE Delete(p)
  <2>1. CASE keychain' = None /\ Return(p, "ok") /\ answer[p].kind = "done"
    BY <1>17, <2>1 DEF Delete, Reports, Return, Told
  <2>2. CASE \E kind : Return(p, CommandAuthError(kind))  BY <2>2, ErrorReports
  <2> QED  BY <1>17, <2>1, <2>2 DEF Delete
<1> QED
  BY <1>2, <1>3, <1>4, <1>5, <1>6, <1>7, <1>8, <1>9, <1>10, <1>11, <1>12, <1>13, <1>14, <1>15, <1>16, <1>17
  DEF StepOf, Client

(* Nobody moves or reports for another process.                            *)
Own(p) ==
  /\ pc' = pc \/ \E place : pc' = [pc EXCEPT ![p] = place]
  /\ result' = result \/ \E r : result' = [result EXCEPT ![p] = r]

(* A command that returns changes the report of its own process only.      *)
LEMMA RespondIsOwn ==
  ASSUME NEW p \in Procs, NEW what, NEW told
  PROVE  Return(p, what) \/ Respond(p, what, told) \/ Reject(p, what) => Own(p)
BY DEF Own, Return, Respond, Reject, ReturnAnd

(* So does a request that fails.                                           *)
LEMMA FailureIsOwn ==
  ASSUME NEW p \in Procs, NEW kind
  PROVE  RequestFails(p, kind) => Own(p)
<1>1. Reject(p, CommandAuthError(kind)) \/ Return(p, CommandAuthError(kind)) => Own(p)  BY RespondIsOwn
<1> QED  BY <1>1 DEF RequestFails, Own, Goto

(* And so does every step.                                                 *)
LEMMA StepIsOwn ==
  ASSUME NEW p \in Procs
  PROVE  StepOf(p) => Own(p)
<1> SUFFICES ASSUME StepOf(p) PROVE Own(p)  OBVIOUS
<1>1. CASE Service(p)  BY <1>1 DEF Service, Refuse, GrantLogin, Rotate, Replay, Revoke, Serve, Goto, Own
<1>2. CASE (\E c \in Commands : Start(p, c)) \/ \E r \in CallbackRequests : Receive(p, r)
  BY <1>2 DEF Start, Receive, Goto, Own
<1>3. CASE OpenBrowser(p) \/ ReceiveFails(p) \/ CheckCallback(p)
  <2>1. CASE \E what : Return(p, what) \/ Reject(p, what)  BY <2>1, RespondIsOwn
  <2> QED  BY <1>3, <2>1 DEF OpenBrowser, ReceiveFails, CheckCallback, Goto, Own
<1>4. CASE LoadNothing(p) \/ LoadAnswers(p) \/ LoadFails(p) \/ LoadToRefresh(p)
  <2>1. CASE \E what : Return(p, what)  BY <2>1, RespondIsOwn
  <2> QED  BY <1>4, <2>1 DEF LoadNothing, LoadAnswers, LoadFails, LoadToRefresh, LoadedTo, Goto, Own
<1>5. CASE Lost(p) \/ RejectRedirect(p) \/ RejectStatus(p) \/ RejectCredential(p) \/ SaveFails(p)
  <2>1. \E kind : RequestFails(p, kind)  BY <1>5 DEF Lost, RejectRedirect, RejectStatus, RejectCredential, SaveFails
  <2> QED  BY <2>1, FailureIsOwn
<1>6. CASE FollowRedirect(p) \/ TakeCredential(p) \/ TakeRevocation(p) \/ Save(p)
  BY <1>6 DEF FollowRedirect, TakeCredential, TakeRevocation, Save, Goto, Own
<1>7. CASE Accept(p) \/ Reload(p) \/ CheckDelete(p) \/ Delete(p) \/ Crash(p)
  <2>1. CASE \E what, told : Return(p, what) \/ Respond(p, what, told)  BY <2>1, RespondIsOwn
  <2> QED  BY <1>7, <2>1 DEF Accept, Reload, CheckDelete, Delete, Crash, Goto, Own
<1> QED  BY <1>1, <1>2, <1>3, <1>4, <1>5, <1>6, <1>7 DEF StepOf, Client

(* ... so who returns or reports something new has made the step, from     *)
(* where it stood.                                                         *)
LEMMA WhoReports ==
  ASSUME NEW p \in Procs
  PROVE  AuthInv /\ Next /\ pc[p] # "idle" =>
           \/ result'[p] = NoResult
           \/ /\ result'[p] \in [code: Codes, browser: Told]
              /\ \E what, told : Reports(p, what, told) /\ result'[p] = [code |-> what, browser |-> told]
<1> SUFFICES ASSUME AuthInv, Next, pc[p] # "idle"
             PROVE  \/ result'[p] = NoResult
                    \/ /\ result'[p] \in [code: Codes, browser: Told]
                       /\ \E what, told : Reports(p, what, told) /\ result'[p] = [code |-> what, browser |-> told]
  OBVIOUS
<1>1. AuthTypes /\ AuthTypes' /\ result[p] = NoResult  BY AuthStep DEF AuthInv, ProcInv, InStep
<1>2. CASE Tick  BY <1>1, <1>2 DEF Tick, local
<1>3. ASSUME NEW q \in Procs \ {p}, StepOf(q) PROVE result'[p] = NoResult
  <2>1. Own(q)  BY <1>3, StepIsOwn
  <2> QED  BY <1>1, <1>3, <2>1 DEF Own, AuthTypes
<1>4. CASE StepOf(p)
  <2>1. CASE result' = result  BY <1>1, <2>1
  <2>2. CASE \E what, told : Reports(p, what, told)
    <3>1. PICK what, told : Reports(p, what, told)  BY <2>2
    <3>2. result'[p] = [code |-> what, browser |-> told]  BY <1>1, <3>1 DEF Reports, ReturnAnd, AuthTypes
    <3>3. result'[p] \in [code: Codes, browser: Told]  BY <1>1 DEF AuthTypes
    <3> QED  BY <3>1, <3>2, <3>3
  <2> QED  BY <1>4, <2>1, <2>2, StepReports
<1> QED  BY <1>2, <1>3, <1>4 DEF Next, StepOf

-----------------------------------------------------------------------------
(* The properties of a step.                                               *)
LEMMA RepliesAreTrue == AuthInv /\ Next => RepliesTrue
<1> SUFFICES ASSUME AuthInv, Next, NEW p \in Procs, op[p] = "login", pc[p] # "idle", pc'[p] = "idle"
             PROVE  /\ result'[p].browser = "accepted" => cred[p] \in saved
                    /\ result'[p].browser = "rejected" => cred[p] \notin saved
  BY DEF RepliesTrue
<1>1. ProcInv(p) /\ None \notin saved  BY Bounds DEF AuthInv, AuthTypes, AuthAssumption
<1>2. CASE result'[p] = NoResult  BY <1>2 DEF NoResult
<1>3. CASE \E what, told : Reports(p, what, told) /\ result'[p] = [code |-> what, browser |-> told]
  <2>1. PICK what, told : Reports(p, what, told) /\ result'[p].browser = told  BY <1>3
  <2>2. CASE told = "accepted"  BY <1>1, <2>1, <2>2 DEF Reports, ProcInv, Working
  <2>3. CASE told = "rejected" /\ pc[p] # "save"  BY <1>1, <2>1, <2>3 DEF Reports, ProcInv, Working
  <2>4. CASE pc[p] = "save"
    <3>1. cred[p] \in Credential /\ Issued(p, cred[p])  BY <1>1, <2>4 DEF ProcInv, Working, Issued
    <3>2. cred[p].gen \in Int  BY <3>1, Bounds DEF Credential, AuthAssumption
    <3>3. cred[p] \notin saved  BY <3>1, <3>2 DEF AuthInv, NewestIssued
    <3> QED  BY <2>1, <2>4, <3>3 DEF Reports
  <2> QED  BY <2>1, <2>2, <2>3, <2>4
<1> QED  BY <1>2, <1>3, WhoReports

(* A logout says ok over an empty keychain, its session revoked.           *)
LEMMA LogoutsAreTrue == AuthInv /\ Next => LogoutTrue
<1> SUFFICES ASSUME AuthInv, Next, NEW p \in Procs, op[p] = "logout", pc[p] # "idle", result'[p].code = "ok"
             PROVE  keychain' = None /\ (cred[p] # None => sessions[cred[p].session].revoked)
  BY DEF LogoutTrue
<1>1. ProcInv(p)  BY DEF AuthInv
<1>2. result'[p] # NoResult  BY DEF NoResult
<1>3. PICK what, told : Reports(p, what, told) /\ result'[p] = [code |-> what, browser |-> told]
  BY <1>2, WhoReports
<1>4. \/ pc[p] = "load" /\ keychain' = None
      \/ pc[p] = "remove" /\ keychain' = None /\ answer[p].kind = "done"
  BY <1>1, <1>3 DEF Reports, ProcInv, InStep
<1> QED  BY <1>1, <1>4 DEF ProcInv, Working, Answer

(* After a refresh has begun, public access means an empty keychain.       *)
LEMMA FailuresAreShown == AuthInv /\ Next => RefreshFailureShown
<1> SUFFICES ASSUME AuthInv, Next, NEW p \in Procs,
                    op[p] = "token", pc[p] \notin {"idle", "load"}, result'[p].code = "public"
             PROVE  keychain = None
  BY DEF RefreshFailureShown
<1>1. result'[p] # NoResult  BY DEF NoResult
<1>2. PICK what, told : Reports(p, what, told) /\ result'[p] = [code |-> what, browser |-> told]
  BY <1>1, WhoReports
<1> QED  BY <1>2 DEF Reports

(* The keychain changes by a save or a delete only.                        *)
LEMMA KeychainChanges ==
  AuthInv /\ Next =>
    keychain' = keychain \/ keychain' = None \/ \E p \in Procs : Save(p)
<1> SUFFICES ASSUME AuthInv, Next, ~\E p \in Procs : Save(p) PROVE keychain' = keychain \/ keychain' = None
  OBVIOUS
<1> USE DEF Keep
<1>1. CASE Tick  BY <1>1 DEF Tick
<1>2. ASSUME NEW p \in Procs, StepOf(p) PROVE keychain' = keychain \/ keychain' = None
  <2>1. CASE Service(p)  BY <2>1 DEF Service, Refuse, GrantLogin, Rotate, Replay, Revoke, Serve
  <2>2. CASE (\E c \in Commands : Start(p, c)) \/ \E r \in CallbackRequests : Receive(p, r)
    BY <2>2 DEF Start, Receive
  <2>3. CASE OpenBrowser(p) \/ ReceiveFails(p) \/ CheckCallback(p) \/ LoadNothing(p) \/ LoadAnswers(p)
               \/ LoadFails(p) \/ LoadToRefresh(p)
    BY <2>3
    DEF OpenBrowser, ReceiveFails, CheckCallback, LoadNothing, LoadAnswers, LoadFails, LoadToRefresh
  <2>4. CASE Lost(p) \/ FollowRedirect(p) \/ RejectRedirect(p) \/ RejectStatus(p) \/ TakeCredential(p)
               \/ RejectCredential(p) \/ TakeRevocation(p) \/ SaveFails(p)
    BY <2>4
    DEF Lost, FollowRedirect, RejectRedirect, RejectStatus, TakeCredential, RejectCredential, TakeRevocation,
        SaveFails
  <2>5. CASE Accept(p) \/ Reload(p) \/ CheckDelete(p) \/ Delete(p) \/ Crash(p)
    BY <2>5 DEF Accept, Reload, CheckDelete, Delete, Crash
  <2> QED  BY <1>2, <2>1, <2>2, <2>3, <2>4, <2>5 DEF StepOf, Client
<1> QED  BY <1>1, <1>2 DEF Next, StepOf

(* What is saved is newer than all of its session that was.                *)
LEMMA RotationsStand == AuthInv /\ Next => RotationNeverUndone
<1> SUFFICES ASSUME AuthInv, Next, keychain' # keychain, keychain' # None,
                    NEW old \in saved, old.session = keychain'.session
             PROVE  old.gen < keychain'.gen
  BY DEF RotationNeverUndone
<1>1. PICK p \in Procs : Save(p)  BY KeychainChanges
<1>2. cred[p] \in Credential /\ Issued(p, cred[p]) /\ keychain' = cred[p]
  BY <1>1 DEF AuthInv, ProcInv, Working, Issued, Save
<1> QED  BY <1>2 DEF AuthInv, NewestIssued

-----------------------------------------------------------------------------
(* The keychain's entry names the account of its session, and a code is    *)
(* exchanged by the login it was meant for.                                *)
THEOREM AuthSafety ==
  ASSUME AuthAssumption
  PROVE  Spec => [](TypeOK /\ EntryOfItsSession /\ ExchangesOwnCode)
<1>1. Init => AuthInv  BY AuthInit
<1>2. AuthInv /\ [Next]_vars => AuthInv'  BY AuthStep, AuthStutters
<1>3. AuthInv => TypeOK /\ EntryOfItsSession /\ ExchangesOwnCode
  BY AuthTyped, EntryNamesItsSession, CodesAreOwn
<1> QED  BY <1>1, <1>2, <1>3, PTL DEF Spec
=============================================================================
