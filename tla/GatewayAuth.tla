---------------------------- MODULE GatewayAuth ----------------------------
(***************************************************************************)
(* The authenticated client of the gateway's local API                     *)
(* (internal/powerwall/baseapi.go): concurrent callers share one login     *)
(* token, retry a refused request a bounded number of times, and renew the *)
(* token under a semaphore they only ever try to take.                     *)
(*                                                                         *)
(* Requesters run MakeAPIRequest (the collectors, a forced collection, the *)
(* status page), proxies run GetAuthHeaders (the reverse proxy).  The      *)
(* gateway itself is not part of the repository: it grants, loses and      *)
(* refuses tokens as it likes, within the bounds named below.              *)
(***************************************************************************)
EXTENDS Naturals, Sequences

CONSTANTS
  Requesters,   \* goroutines that call MakeAPIRequest
  Proxies,      \* goroutines that call GetAuthHeaders
  NoCaller,     \* the semaphore's holder when it is free
  Attempts,     \* retry(5, ...)
  Honours,      \* which AuthCookie of a request the gateway reads: "first" or "last"
  MaxTokens,    \* bound: logins the gateway grants
  MaxFaults     \* bound: faults of the gateway and the network

Callers == Requesters \cup Proxies

ASSUME AuthAssumption ==
  /\ Requesters \cap Proxies = {}
  /\ NoCaller \notin Callers
  /\ Attempts \in Nat \ {0}
  /\ Honours \in {"first", "last"}
  /\ MaxTokens \in Nat
  /\ MaxFaults \in Nat

Empty == 0                      \* the empty string as a token
Tokens == 0 .. MaxTokens        \* the others are numbered as they are issued

VARIABLES
  authToken,   \* PowerwallGateway.authToken
  sem,         \* PowerwallGateway.authSem: its holder
  pc,          \* where each caller stands
  call,        \* the local variables of each caller's call
  result,      \* how each caller's last call ended
  minted,      \* gateway: logins granted so far
  valid,       \* gateway: the tokens it accepts
  faults,      \* faults of the gateway and the network so far
  newest       \* history: the last token kept that was not empty

vars == <<authToken, sem, pc, call, result, minted, valid, faults, newest>>

Steps == {"idle", "check", "cookie", "wait", "acquire", "login", "store",
          "renewed", "refused"}

(* How a call of MakeAPIRequest ended; GetAuthHeaders reports nothing. *)
Results == {"none", "ok", "stopped", "exhausted"}

(* The locals of a call: attempts left, the AuthCookies on its http.Request, *)
(* the token of the login answer it has read, and (history) the number of    *)
(* faults there had been when it began.                                      *)
Frames == [attempts : 0 .. Attempts, cookies : Seq(Tokens), reply : Tokens,
           since : 0 .. MaxFaults]
Frame(n, f) == [attempts |-> n, cookies |-> <<>>, reply |-> Empty, since |-> f]
NoFrame == Frame(0, 0)

Init ==
  /\ authToken = Empty
  /\ sem = NoCaller
  /\ pc = [c \in Callers |-> "idle"]
  /\ call = [c \in Callers |-> NoFrame]
  /\ result = [c \in Callers |-> "none"]
  /\ minted = 0
  /\ valid = {}
  /\ faults = 0
  /\ newest = Empty

Goto(c, step) == pc' = [pc EXCEPT ![c] = step]

(* The call of c returns. *)
Return(c, how) ==
  /\ Goto(c, "idle")
  /\ call' = [call EXCEPT ![c] = NoFrame]
  /\ result' = [result EXCEPT ![c] = how]

(* The gateway or the network fails a caller. *)
Fault == faults < MaxFaults /\ faults' = faults + 1

-----------------------------------------------------------------------------
(* MakeAPIRequest and retry *)

(* A call starts: one http.Request for all its attempts. *)
Request(c) ==
  /\ c \in Requesters /\ pc[c] = "idle"
  /\ Goto(c, "check")
  /\ call' = [call EXCEPT ![c] = Frame(Attempts, faults)]
  /\ result' = [result EXCEPT ![c] = "none"]
  /\ UNCHANGED <<authToken, sem, minted, valid, faults, newest>>

(* An attempt begins by looking whether there is a token. *)
CheckToken(c) ==
  /\ pc[c] = "check"
  /\ Goto(c, IF authToken # Empty THEN "cookie" ELSE "acquire")
  /\ UNCHANGED <<authToken, sem, call, result, minted, valid, faults, newest>>

(* req.AddCookie puts the token, read again, behind the ones of earlier      *)
(* attempts, and the request goes out.                                       *)
SendRequest(c) ==
  /\ pc[c] = "cookie"
  /\ call' = [call EXCEPT ![c].cookies = Append(@, authToken)]
  /\ Goto(c, "wait")
  /\ UNCHANGED <<authToken, sem, result, minted, valid, faults, newest>>

(* Retry without its count. *)
RetryUncounted(c) ==
  /\ call' = [call EXCEPT ![c].attempts = @ - 1]
  /\ Goto(c, "check")
  /\ UNCHANGED result

(* An attempt failed with an error that is not a stop. *)
Retry(c) ==
  IF call[c].attempts > 1
    THEN /\ call' = [call EXCEPT ![c].attempts = @ - 1]
         /\ Goto(c, "check")
         /\ UNCHANGED result
    ELSE Return(c, "exhausted")

(* The gateway reads one of the AuthCookies of a request. *)
Authorised(c) ==
  LET cs == call[c].cookies
  IN  cs # <<>> /\ (IF Honours = "last" THEN cs[Len(cs)] ELSE cs[1]) \in valid

(* The gateway serves the request: any status but 401 and 403. *)
Served(c) ==
  /\ pc[c] = "wait"
  /\ Authorised(c)
  /\ Return(c, "ok")
  /\ UNCHANGED <<authToken, sem, minted, valid, faults, newest>>

(* As Unauthorised, without renewing the token before the next attempt. *)
UnauthorisedNotRenewed(c) ==
  /\ pc[c] = "wait"
  /\ ~Authorised(c)
  /\ Retry(c)
  /\ UNCHANGED <<authToken, sem, minted, valid, faults, newest>>

(* 401 or 403.  A gateway that says so to a token it accepts is at fault. *)
Unauthorised(c) ==
  /\ pc[c] = "wait"
  /\ IF Authorised(c) THEN Fault ELSE UNCHANGED faults
  /\ Goto(c, "acquire")
  /\ UNCHANGED <<authToken, sem, call, result, minted, valid, newest>>

(* httpClient.Do fails. *)
TransportError(c) ==
  /\ pc[c] = "wait"
  /\ Fault
  /\ Retry(c)
  /\ UNCHANGED <<authToken, sem, minted, valid, newest>>

-----------------------------------------------------------------------------
(* refreshAuthToken *)

(* The semaphore is this caller's, whoever held it before. *)
Acquire(c) ==
  /\ pc[c] = "acquire"
  /\ sem' = c
  /\ Goto(c, "login")
  /\ UNCHANGED <<authToken, call, result, minted, valid, faults, newest>>

(* A semaphore that waits for its holder. *)
AcquireWaiting(c) == sem = NoCaller /\ Acquire(c)

(* authSem.TryAcquire: a caller that finds a login under way gives up. *)
TryAcquire(c) ==
  \/ sem = NoCaller /\ Acquire(c)
  \/ /\ pc[c] = "acquire"
     /\ sem # NoCaller
     /\ Goto(c, "refused")
     /\ UNCHANGED <<authToken, sem, call, result, minted, valid, faults, newest>>

(* The caller has read the answer to its login. *)
LoginAnswer(c, token) ==
  /\ pc[c] = "login"
  /\ call' = [call EXCEPT ![c].reply = token]
  /\ Goto(c, "store")
  /\ UNCHANGED <<authToken, sem, result, newest>>

LoginGranted(c) ==
  /\ minted < MaxTokens
  /\ minted' = minted + 1
  /\ valid' = valid \cup {minted + 1}
  /\ LoginAnswer(c, minted + 1)
  /\ UNCHANGED faults

(* JSON without a token, such as the answer to a wrong password: it parses. *)
LoginWithoutToken(c) ==
  /\ Fault
  /\ LoginAnswer(c, Empty)
  /\ UNCHANGED <<minted, valid>>

(* No answer, 429, or a body that is not JSON: refreshAuthToken returns the  *)
(* error, the deferred Release runs and the token stays as it was.           *)
LoginFailed(c) ==
  /\ pc[c] = "login"
  /\ sem' = NoCaller
  /\ Goto(c, "refused")
  /\ UNCHANGED <<authToken, call, result, minted, valid, faults, newest>>

(* p.authToken = loginResp.Token, the empty token of a refusal included. *)
StoreToken(c) ==
  /\ pc[c] = "store"
  /\ authToken' = call[c].reply
  /\ newest' = IF call[c].reply = Empty THEN newest ELSE call[c].reply
  /\ Goto(c, "renewed")
  /\ UNCHANGED <<sem, call, result, minted, valid, faults>>

(* The deferred Release, then the caller goes on: a requester starts its     *)
(* next attempt, a proxy hands out the headers.                              *)
Release(c) ==
  /\ pc[c] = "renewed"
  /\ sem' = NoCaller
  /\ IF c \in Requesters THEN Retry(c) ELSE Return(c, "none")
  /\ UNCHANGED <<authToken, minted, valid, faults, newest>>

(* refreshAuthToken returned an error: retry stops at once, GetAuthHeaders   *)
(* ignores it and hands out whatever token there is.                         *)
Refused(c) ==
  /\ pc[c] = "refused"
  /\ Return(c, IF c \in Requesters THEN "stopped" ELSE "none")
  /\ UNCHANGED <<authToken, sem, minted, valid, faults, newest>>

-----------------------------------------------------------------------------
(* GetAuthHeaders logs in only when there is no token at all. *)
GetAuthHeaders(c) ==
  /\ c \in Proxies /\ pc[c] = "idle"
  /\ IF authToken = Empty
       THEN Goto(c, "acquire") /\ UNCHANGED <<call, result>>
       ELSE Return(c, "none")
  /\ UNCHANGED <<authToken, sem, minted, valid, faults, newest>>

(* The gateway forgets the tokens it issued (a reboot, an expired session). *)
Revoke ==
  /\ valid # {}
  /\ Fault
  /\ valid' = {}
  /\ UNCHANGED <<authToken, sem, pc, call, result, minted, newest>>

(* What a caller's own goroutine does without waiting for the network. *)
Local(c) ==
  \/ c \in Requesters /\ (CheckToken(c) \/ SendRequest(c))
  \/ TryAcquire(c) \/ StoreToken(c) \/ Release(c) \/ Refused(c)

(* What it does when the gateway has answered, or the connection broke. *)
Answered(c) ==
  \/ c \in Requesters /\ (Served(c) \/ Unauthorised(c) \/ TransportError(c))
  \/ LoginGranted(c) \/ LoginWithoutToken(c) \/ LoginFailed(c)

Next ==
  \/ Revoke
  \/ \E c \in Callers : Request(c) \/ GetAuthHeaders(c) \/ Local(c) \/ Answered(c)

(* The Go scheduler runs every runnable goroutine.  Nothing is assumed of    *)
(* the gateway, which may never answer (the http.Client has no timeout), nor *)
(* of the users who start calls.                                             *)
Spec == Init /\ [][Next]_vars
FairSpec == Spec /\ \A c \in Callers : WF_vars(Local(c))

-----------------------------------------------------------------------------
TypeOK ==
  /\ authToken \in Tokens
  /\ sem \in Callers \cup {NoCaller}
  /\ pc \in [Callers -> Steps]
  /\ call \in [Callers -> Frames]
  /\ result \in [Callers -> Results]
  /\ minted \in Tokens
  /\ valid \in SUBSET Tokens
  /\ faults \in 0 .. MaxFaults
  /\ newest \in Tokens
  /\ \A c \in Requesters : pc[c] # "idle" <=> call[c].attempts > 0

(* The token kept only ever moves to a later login's token, or to none: no   *)
(* answer of an older login overwrites a newer token (refreshAuthToken).     *)
Session == INSTANCE GatewaySession WITH authToken <- authToken, newest <- newest
TokenNeverGoesBack == Session!Spec

(* The retries are worth having: as long as the gateway reads the newest     *)
(* AuthCookie, MakeAPIRequest runs out of attempts only if all of them but   *)
(* one met a fault of their own.  A stale token, a missing token and the     *)
(* renewals of other callers cost one attempt in all.                        *)
ExhaustedOnlyByFaults ==
  [][\A c \in Requesters :
       /\ Honours = "last"
       /\ pc[c] # "idle" /\ result'[c] = "exhausted"
       => faults' - call[c].since >= Attempts - 1]_vars

(* A caller that never comes back is waiting for the gateway, never for      *)
(* another caller: a login that hangs leaves everyone else able to return    *)
(* (the TryAcquire of refreshAuthToken).                                     *)
OnlyTheGatewayBlocks ==
  \A c \in Callers : []<>(pc[c] = "idle") \/ <>[](pc[c] \in {"wait", "login"})
=============================================================================
