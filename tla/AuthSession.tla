----------------------------- MODULE AuthSession -----------------------------
(***************************************************************************)
(* Account sign-in (crates/skilld-auth, skilld-native/src/native_auth.rs): *)
(* several CLI processes log in, refresh, log out and ask for tokens over  *)
(* one keychain entry and one account service that rotates refresh tokens. *)
(*                                                                         *)
(* The service is external: it gives each login a session, each credential *)
(* of a session the next generation, and accepts only the newest one.  It  *)
(* may also answer what the client has to refuse.  Every credential the    *)
(* client saves has a refresh token (parse_token_response requires it), so *)
(* MissingRefreshToken does not occur.                                     *)
(***************************************************************************)
EXTENDS Naturals, Sequences

CONSTANTS
  Procs,            \* CLI processes; also the port and state of their logins
  Accounts,
  Commands,         \* what they run, of "login", "token", "status", "logout"
  CallbackTimeout,  \* ticks a login waits for the browser
  Lifetime,         \* bound: ticks a credential lives
  MaxRedirects,     \* MAX_REDIRECTS
  MaxNow,           \* bound: ticks of the clock
  MaxSessions,      \* bound: logins the service grants
  MaxGen,           \* bound: rotations of one session
  MaxCrashes,       \* bound: processes that die
  None

Credential ==
  [session: 1..MaxSessions, gen: 0..MaxGen, account: Accounts, expires: 0..(MaxNow + Lifetime)]

AuthAssumption ==
  /\ {CallbackTimeout, Lifetime, MaxRedirects, MaxNow} \subseteq Nat
  /\ {MaxSessions, MaxGen, MaxCrashes} \subseteq Nat
  /\ Commands \subseteq {"login", "token", "status", "logout"}
  /\ None \notin Credential

(* What a browser can send to the listener of a login.  A code belongs to  *)
(* the login whose state comes with it; ports are reused, so a late answer *)
(* to another login may carry the right host.                              *)
CallbackRequests ==
  [framed: BOOLEAN, host: Procs, query: BOOLEAN, state: Procs]

(* Faulty variant: the state is not compared. *)
ParseAnyState(p, r) ==
  IF ~r.framed THEN "CallbackInjection"
  ELSE IF r.host # p THEN "CallbackPortMismatch"
  ELSE IF ~r.query THEN "CallbackInjection" ELSE "ok"

(* parse_callback_request: the first check that fails names the error.     *)
ParseCallback(p, r) ==
  IF ~r.framed THEN "CallbackInjection"
  ELSE IF r.host # p THEN "CallbackPortMismatch"
  ELSE IF ~r.query THEN "CallbackInjection"
  ELSE IF r.state # p THEN "StateMismatch" ELSE "ok"

VARIABLES
  keychain,   \* the entry of the origin: a credential or None
  sessions,   \* service: per session its account, newest generation, revocation
  now, crashes,
  pc, op,     \* per process: where it stands, and its command
  cred,       \* ... the credential it works with
  answer,     \* ... what the service answered
  hops,       \* ... redirects followed in this request
  callback,   \* ... the request at its listener
  deadline,   \* ... when it stops to wait
  result,     \* ... what the last command reported, and told the browser
  saved       \* history: the credentials the keychain has held

local == <<pc, op, cred, answer, hops, callback, deadline, result>>
vars == <<keychain, sessions, now, crashes, local, saved>>

NoResult == [code |-> "none", browser |-> "nothing"]
NoAnswer == [kind |-> "none", cred |-> None]
AnswerKinds == {"none", "credential", "unauthorised", "failed", "done", "redirect", "away"}

Init ==
  /\ keychain = None /\ sessions = <<>> /\ now = 0 /\ crashes = 0
  /\ pc = [p \in Procs |-> "idle"]
  /\ op = [p \in Procs |-> "none"]
  /\ cred = [p \in Procs |-> None]
  /\ answer = [p \in Procs |-> NoAnswer]
  /\ hops = [p \in Procs |-> 0]
  /\ callback = [p \in Procs |-> None]
  /\ deadline = [p \in Procs |-> 0]
  /\ result = [p \in Procs |-> NoResult]
  /\ saved = {}

Goto(p, where) == pc' = [pc EXCEPT ![p] = where]

(* The command returns; its browser connection is closed with it. *)
ReturnAnd(p, what, told) ==
  /\ pc' = [pc EXCEPT ![p] = "idle"]
  /\ op' = [op EXCEPT ![p] = "none"]
  /\ cred' = [cred EXCEPT ![p] = None]
  /\ answer' = [answer EXCEPT ![p] = NoAnswer]
  /\ hops' = [hops EXCEPT ![p] = 0]
  /\ callback' = [callback EXCEPT ![p] = None]
  /\ deadline' = [deadline EXCEPT ![p] = 0]
  /\ result' = [result EXCEPT ![p] = [code |-> what, browser |-> told]]

Return(p, what) == ReturnAnd(p, what, "nothing")

(* callback.respond: the browser may be gone, and nobody minds. *)
Respond(p, what, told) == \E heard \in {told, "nothing"} : ReturnAnd(p, what, heard)

Reject(p, why) == Respond(p, why, "rejected")

(* command_auth_error *)
CommandAuthError(kind) ==
  CASE kind \in {"NotAuthenticated", "ExpiredToken", "RefreshRejected"} -> "AUTH_REQUIRED"
    [] kind = "UnsupportedCapability" -> "UNSUPPORTED_HOST"
    [] OTHER -> "SERVICE_UNAVAILABLE"

Keep == UNCHANGED <<keychain, sessions, now, crashes, saved>>

-----------------------------------------------------------------------------
Start(p, c) ==
  /\ pc[p] = "idle"
  /\ c = "login" => now + CallbackTimeout <= MaxNow
  /\ op' = [op EXCEPT ![p] = c]
  /\ Goto(p, IF c = "login" THEN "bind" ELSE "load")
  /\ result' = [result EXCEPT ![p] = NoResult]
  /\ Keep /\ UNCHANGED <<cred, answer, hops, callback, deadline>>

(* login: verifier, state, listener and browser, then the wait begins. *)
OpenBrowser(p) ==
  /\ pc[p] = "bind" /\ Keep
  /\ \/ /\ Goto(p, "wait")
        /\ deadline' = [deadline EXCEPT ![p] = now + CallbackTimeout]
        /\ UNCHANGED <<op, cred, answer, hops, callback, result>>
     \/ \E kind \in {"CallbackFailed", "BrowserFailed", "UnsupportedCapability"} :
          Return(p, CommandAuthError(kind))

(* receive and read_request: one connection, read to its blank line. *)
Receive(p, r) ==
  /\ pc[p] = "wait" /\ now < deadline[p]
  /\ callback' = [callback EXCEPT ![p] = r]
  /\ Goto(p, "callback")
  /\ Keep /\ UNCHANGED <<op, cred, answer, hops, deadline, result>>

(* The deadline passes, or the listener or the connection fails. *)
ReceiveFails(p) == pc[p] = "wait" /\ Return(p, CommandAuthError("Timeout")) /\ Keep

CheckCallback(p) ==
  /\ pc[p] = "callback" /\ Keep
  /\ \/ /\ ParseCallback(p, callback[p]) = "ok" /\ now < deadline[p]
        /\ Goto(p, "send")
        /\ UNCHANGED <<op, cred, answer, hops, callback, deadline, result>>
     \/ /\ ParseCallback(p, callback[p]) = "ok" => now >= deadline[p]
        /\ Reject(p, CommandAuthError("ExpiredAuthorizationCode"))

-----------------------------------------------------------------------------
LoadedTo(p, where) ==
  /\ cred' = [cred EXCEPT ![p] = keychain]
  /\ Goto(p, where)
  /\ UNCHANGED <<op, answer, hops, callback, deadline, result>>

(* Every command but login starts with a load of the keychain entry. *)
LoadNothing(p) ==
  /\ pc[p] = "load" /\ keychain = None /\ Keep
  /\ Return(p, CASE op[p] = "token"  -> "public"
                 [] op[p] = "status" -> "signed_out"
                 [] op[p] = "logout" -> "ok")

LoadAnswers(p) ==
  /\ pc[p] = "load" /\ keychain # None /\ Keep
  /\ \/ op[p] = "status" /\ Return(p, IF keychain.expires <= now THEN "expired" ELSE "signed_in")
     \/ op[p] = "token" /\ keychain.expires > now /\ Return(p, "token")
     \/ op[p] = "token" /\ keychain.expires <= now /\ LoadedTo(p, "refresh")
     \/ op[p] = "logout" /\ LoadedTo(p, "send")

(* current_token goes on without an account; the others report it. *)
LoadFails(p) ==
  /\ pc[p] = "load" /\ Keep
  /\ Return(p, IF op[p] = "token" THEN "public" ELSE CommandAuthError("CredentialStoreFailed"))

(* Faulty variant: refresh trusts that the entry is still there. *)
LoadBlindly(p) ==
  /\ pc[p] = "refresh" /\ Keep
  /\ LoadedTo(p, "send")

(* refresh loads the entry again: another process may have changed it. *)
LoadToRefresh(p) ==
  /\ pc[p] = "refresh" /\ Keep
  /\ \/ keychain # None /\ LoadedTo(p, "send")
     \/ keychain = None /\ Return(p, CommandAuthError("NotAuthenticated"))
     \/ Return(p, CommandAuthError("CredentialStoreFailed"))

-----------------------------------------------------------------------------
(* The service handles a request of send_json; p still has to read it. *)
Serve(p, kind, c) ==
  /\ answer' = [answer EXCEPT ![p] = [kind |-> kind, cred |-> c]]
  /\ Goto(p, "answered")
  /\ UNCHANGED <<keychain, now, crashes, saved, op, cred, hops, callback, deadline, result>>

Refuse(p) ==
  /\ pc[p] = "send" /\ UNCHANGED sessions
  /\ \E kind \in {"unauthorised", "failed", "redirect", "away"} : Serve(p, kind, None)

GrantLogin(p) ==
  /\ pc[p] = "send" /\ op[p] = "login" /\ Len(sessions) < MaxSessions
  /\ \E a \in Accounts, e \in now..(now + Lifetime) :
       /\ sessions' = Append(sessions, [account |-> a, gen |-> 0, revoked |-> FALSE])
       /\ Serve(p, "credential",
            [session |-> Len(sessions) + 1, gen |-> 0, account |-> a, expires |-> e])

(* A refresh token works once.  The answer may name another account. *)
Rotate(p) ==
  /\ pc[p] = "send" /\ op[p] = "token"
  /\ LET s == cred[p].session IN
       /\ ~sessions[s].revoked /\ sessions[s].gen = cred[p].gen /\ cred[p].gen < MaxGen
       /\ sessions' = [sessions EXCEPT ![s].gen = @ + 1]
       /\ \E a \in Accounts, e \in now..(now + Lifetime) :
            Serve(p, "credential",
              [session |-> s, gen |-> cred[p].gen + 1, account |-> a, expires |-> e])

(* A service that does not rotate answers the token it was given. *)
Replay(p) ==
  /\ pc[p] = "send" /\ op[p] = "token" /\ UNCHANGED sessions
  /\ Serve(p, "credential", [cred[p] EXCEPT !.expires = now + Lifetime])

Revoke(p) ==
  /\ pc[p] = "send" /\ op[p] = "logout"
  /\ ~sessions[cred[p].session].revoked
  /\ sessions' = [sessions EXCEPT ![cred[p].session].revoked = TRUE]
  /\ Serve(p, "done", None)

-----------------------------------------------------------------------------
(* The request ends in error for the client.  A logout deletes all the same. *)
RequestFails(p, kind) ==
  \/ op[p] = "login" /\ Reject(p, CommandAuthError(kind))
  \/ op[p] = "token" /\ Return(p, CommandAuthError(kind))
  \/ /\ op[p] = "logout" /\ Goto(p, "delete")
     /\ answer' = [answer EXCEPT ![p] = [kind |-> "failed", cred |-> None]]
     /\ UNCHANGED <<op, cred, hops, callback, deadline, result>>

(* No answer in time: the service may or may not have handled the request. *)
Lost(p) == pc[p] \in {"send", "answered"} /\ RequestFails(p, "HttpFailed") /\ Keep

(* send_json: 307 and 308 within the origin, MAX_REDIRECTS times. *)
FollowRedirect(p) ==
  /\ pc[p] = "answered" /\ answer[p].kind = "redirect" /\ hops[p] < MaxRedirects
  /\ hops' = [hops EXCEPT ![p] = @ + 1]
  /\ answer' = [answer EXCEPT ![p] = NoAnswer]
  /\ Goto(p, "send")
  /\ Keep /\ UNCHANGED <<op, cred, callback, deadline, result>>

RejectRedirect(p) ==
  /\ pc[p] = "answered" /\ Keep
  /\ \/ answer[p].kind = "away"
     \/ answer[p].kind = "redirect" /\ hops[p] = MaxRedirects
  /\ RequestFails(p, "RedirectRejected")

RejectStatus(p) ==
  /\ pc[p] = "answered" /\ Keep
  /\ \/ /\ answer[p].kind = "unauthorised"
        /\ RequestFails(p, IF op[p] = "token" THEN "RefreshRejected"
                           ELSE "ExpiredAuthorizationCode")
     \/ answer[p].kind = "failed" /\ RequestFails(p, "HttpFailed")

(* Faulty variant: a refresh token that was not rotated is accepted. *)
AcceptReplay(p, c) ==
  /\ c.expires > now
  /\ op[p] = "token" => c.account = cred[p].account

(* parse_token_response and, for a refresh, the checks after it. *)
Acceptable(p, c) ==
  /\ c.expires > now
  /\ op[p] = "token" => c.account = cred[p].account /\ c.gen # cred[p].gen

TakeCredential(p) ==
  /\ pc[p] = "answered" /\ answer[p].kind = "credential"
  /\ Acceptable(p, answer[p].cred)
  /\ cred' = [cred EXCEPT ![p] = answer[p].cred]
  /\ answer' = [answer EXCEPT ![p] = NoAnswer]
  /\ Goto(p, "save")
  /\ Keep /\ UNCHANGED <<op, hops, callback, deadline, result>>

RejectCredential(p) ==
  /\ pc[p] = "answered" /\ answer[p].kind = "credential" /\ Keep
  /\ ~Acceptable(p, answer[p].cred)
  /\ RequestFails(p, IF answer[p].cred.expires <= now THEN "ExpiredToken" ELSE "InvalidResponse")

TakeRevocation(p) ==
  /\ pc[p] = "answered" /\ answer[p].kind = "done"
  /\ Goto(p, "delete")
  /\ Keep /\ UNCHANGED <<op, cred, answer, hops, callback, deadline, result>>

-----------------------------------------------------------------------------
Others == UNCHANGED <<sessions, now, crashes>>

(* Faulty variant: a sign-in goes on although the keychain refused it. *)
SaveIgnored(p) ==
  /\ pc[p] = "save" /\ Others /\ UNCHANGED <<keychain, saved>>
  /\ Goto(p, IF op[p] = "login" THEN "respond" ELSE "reload")
  /\ UNCHANGED <<op, cred, answer, hops, callback, deadline, result>>

Save(p) ==
  /\ pc[p] = "save" /\ Others
  /\ keychain' = cred[p] /\ saved' = saved \cup {cred[p]}
  /\ Goto(p, IF op[p] = "login" THEN "respond" ELSE "reload")
  /\ UNCHANGED <<op, cred, answer, hops, callback, deadline, result>>

SaveFails(p) ==
  /\ pc[p] = "save" /\ Keep
  /\ RequestFails(p, "CredentialStoreFailed")

Accept(p) == pc[p] = "respond" /\ Respond(p, "ok", "accepted") /\ Keep

(* current_token reads the entry once more for the token it returns. *)
Reload(p) ==
  /\ pc[p] = "reload" /\ Keep
  /\ \/ Return(p, IF keychain = None THEN "public" ELSE "token")
     \/ Return(p, "SERVICE_UNAVAILABLE")

(* delete: compare the account of the entry, then remove the entry. *)
OtherAccount(p) == keychain # None /\ keychain.account # cred[p].account

CheckDelete(p) ==
  /\ pc[p] = "delete" /\ Keep
  /\ \/ /\ ~OtherAccount(p) /\ Goto(p, "remove")
        /\ UNCHANGED <<op, cred, answer, hops, callback, deadline, result>>
     \/ Return(p, CommandAuthError("CredentialStoreFailed"))

Delete(p) ==
  /\ pc[p] = "remove" /\ Others /\ UNCHANGED saved
  /\ \/ /\ keychain' = None
        /\ Return(p, IF answer[p].kind = "done" THEN "ok" ELSE CommandAuthError("LogoutFailed"))
     \/ Return(p, CommandAuthError("CredentialStoreFailed")) /\ UNCHANGED keychain

-----------------------------------------------------------------------------
Tick ==
  /\ now < MaxNow /\ now' = now + 1
  /\ UNCHANGED <<keychain, sessions, crashes, local, saved>>

Crash(p) ==
  /\ pc[p] # "idle" /\ crashes < MaxCrashes
  /\ crashes' = crashes + 1 /\ Return(p, "crashed")
  /\ UNCHANGED <<keychain, sessions, now, saved>>

Service(p) == Refuse(p) \/ GrantLogin(p) \/ Rotate(p) \/ Replay(p) \/ Revoke(p)

(* What the process itself does next. *)
Client(p) ==
  \/ OpenBrowser(p) \/ ReceiveFails(p) \/ CheckCallback(p)
  \/ LoadNothing(p) \/ LoadAnswers(p) \/ LoadFails(p) \/ LoadToRefresh(p)
  \/ Lost(p) \/ FollowRedirect(p) \/ RejectRedirect(p) \/ RejectStatus(p)
  \/ TakeCredential(p) \/ RejectCredential(p) \/ TakeRevocation(p)
  \/ Save(p) \/ SaveFails(p) \/ Accept(p) \/ Reload(p) \/ CheckDelete(p) \/ Delete(p)

Next ==
  \/ Tick
  \/ \E p \in Procs :
       \/ \E c \in Commands : Start(p, c)
       \/ \E r \in CallbackRequests : Receive(p, r)
       \/ Service(p) \/ Client(p) \/ Crash(p)

Spec == Init /\ [][Next]_vars

-----------------------------------------------------------------------------
TypeOK ==
  /\ keychain \in Credential \cup {None} /\ saved \subseteq Credential
  /\ sessions \in Seq([account: Accounts, gen: 0..MaxGen, revoked: BOOLEAN])
  /\ now \in 0..MaxNow /\ crashes \in 0..MaxCrashes
  /\ cred \in [Procs -> Credential \cup {None}]
  /\ hops \in [Procs -> 0..MaxRedirects]
  /\ \A p \in Procs :
       /\ answer[p].kind \in AnswerKinds /\ answer[p].cred \in Credential \cup {None}
       /\ pc[p] \in {"save", "respond", "delete", "remove"} => cred[p] # None
       /\ pc[p] \in {"send", "answered"} /\ op[p] # "login" => cred[p] # None

(* A browser is told "signed in" only after the credential of its own      *)
(* login has been saved, and "rejected" only if it never was (login        *)
(* answers after save, flow.rs:130-140).                                   *)
RepliesTrue ==
  \A p \in Procs : op[p] = "login" /\ pc[p] # "idle" /\ pc'[p] = "idle" =>
     /\ result'[p].browser = "accepted" => cred[p] \in saved
     /\ result'[p].browser = "rejected" => cred[p] \notin saved

(* Whatever the service answers and however refreshes, logins and logouts  *)
(* of several processes interleave, the entry names the account that its   *)
(* session belongs to.                                                     *)
EntryOfItsSession ==
  keychain # None => keychain.account = sessions[keychain.session].account

(* A code is exchanged only if it came with this login's own state, to its *)
(* own port.                                                               *)
ExchangesOwnCode ==
  \A p \in Procs : op[p] = "login" /\ pc[p] \in {"send", "answered", "save", "respond"} =>
    callback[p].state = p /\ callback[p].host = p

(* A logout that reports success has revoked the session it loaded at the  *)
(* service, and has left the keychain empty.                               *)
LogoutTrue ==
  \A p \in Procs : op[p] = "logout" /\ pc[p] # "idle" /\ result'[p].code = "ok" =>
     /\ keychain' = None
     /\ cred[p] # None => sessions[cred[p].session].revoked

(* A refresh token of a session that was in the keychain and has been      *)
(* replaced never comes back: no process undoes another's rotation of it.  *)
(* (The credential of another session may be written over.)                *)
RotationNeverUndone ==
  keychain' # keychain /\ keychain' # None =>
     \A old \in saved :
       old.session = keychain'.session => old.gen < keychain'.gen

(* Public access follows from an empty or unreadable keychain only; once a *)
(* refresh is under way its failure is never hidden (native_auth.rs:178).  *)
RefreshFailureShown ==
  \A p \in Procs :
     op[p] = "token" /\ pc[p] \notin {"idle", "load"} /\ result'[p].code = "public"
       => keychain = None
=============================================================================
