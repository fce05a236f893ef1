------------------------ MODULE GatewayAuth_proofs ------------------------
(***************************************************************************)
(* Theorems about GatewayAuth for any set of callers, any number of        *)
(* attempts and any bounds: its type invariant, the exclusion of logins,   *)
(* that its token behaves as GatewaySession says, and that a request gives *)
(* up only for faults.                                                     *)
(***************************************************************************)
EXTENDS GatewayAuth, Integers, TLAPS

(* A call with one attempt less, an answer or a cookie more is a call.       *)
LEMMA FrameUpdates ==
  ASSUME NEW f \in Frames
  PROVE  /\ f.attempts > 1 => [f EXCEPT !.attempts = @ - 1] \in Frames
         /\ \A t \in Tokens : /\ [f EXCEPT !.reply = t] \in Frames
                              /\ [f EXCEPT !.cookies = Append(@, t)] \in Frames
  <1>1. f.attempts > 1 => [f EXCEPT !.attempts = @ - 1] \in Frames
    BY AuthAssumption DEF Frames
  <1>2. ASSUME NEW t \in Tokens
        PROVE  /\ [f EXCEPT !.reply = t] \in Frames
               /\ [f EXCEPT !.cookies = Append(@, t)] \in Frames
    BY DEF Frames
  <1>3. QED
    BY <1>1, <1>2

LEMMA NewFrames ==
  ASSUME NEW n \in 0 .. Attempts, NEW f \in 0 .. MaxFaults
  PROVE  Frame(n, f) \in Frames /\ Frame(n, f).attempts = n
  BY AuthAssumption DEF Frame, Frames, Tokens, Empty

(* What every step must keep of the callers: the types, and an attempt left  *)
(* to every request under way.                                               *)
CallersOK ==
  /\ pc \in [Callers -> Steps]
  /\ call \in [Callers -> Frames]
  /\ \A d \in Requesters : pc[d] # "idle" <=> call[d].attempts > 0

(* A call moves on with its attempts as they were. *)
LEMMA MovingOn ==
  ASSUME CallersOK, NEW c \in Callers, c \in Requesters => pc[c] # "idle",
         NEW step \in Steps \ {"idle"}, Goto(c, step),
         NEW f \in Frames, f.attempts = call[c].attempts,
         call' = [call EXCEPT ![c] = f]
  PROVE  CallersOK'
  <1>1. pc' \in [Callers -> Steps] /\ call' \in [Callers -> Frames]
    BY DEF CallersOK, Goto
  <1>2. ASSUME NEW d \in Requesters
        PROVE  pc'[d] # "idle" <=> call'[d].attempts > 0
    <2>1. d \in Callers
      BY DEF Callers
    <2>2. CASE d = c
      BY <2>1, <2>2 DEF CallersOK, Goto
    <2>3. CASE d # c
      BY <2>1, <2>3 DEF CallersOK, Goto
    <2>4. QED
      BY <2>2, <2>3
  <1>3. QED
    BY <1>1, <1>2 DEF CallersOK

(* The login answer is read into the locals. *)
LEMMA Answering ==
  ASSUME CallersOK, NEW c \in Callers, NEW t \in Tokens, LoginAnswer(c, t)
  PROVE  CallersOK'
  <1> DEFINE f == [call[c] EXCEPT !.reply = t]
  <1>1. call[c] \in Frames
    BY DEF CallersOK
  <1>2. f \in Frames /\ f.attempts = call[c].attempts
    BY <1>1, FrameUpdates DEF Frames
  <1>3. call' = [call EXCEPT ![c] = f] /\ Goto(c, "store") /\ pc[c] # "idle"
    BY DEF LoginAnswer
  <1> HIDE DEF f
  <1>4. "store" \in Steps \ {"idle"}
    BY DEF Steps
  <1>5. QED
    BY <1>2, <1>3, <1>4, MovingOn

LEMMA Standing ==
  ASSUME CallersOK, NEW c \in Callers, c \in Requesters => pc[c] # "idle",
         NEW step \in Steps \ {"idle"}, Goto(c, step), call' = call
  PROVE  CallersOK'
  <1>1. call[c] \in Frames /\ call' = [call EXCEPT ![c] = call[c]]
    BY DEF CallersOK
  <1>2. QED
    BY <1>1, MovingOn

LEMMA Returning ==
  ASSUME CallersOK, NEW c \in Callers, NEW how, Return(c, how)
  PROVE  CallersOK'
  <1>1. NoFrame \in Frames /\ NoFrame.attempts = 0
    BY AuthAssumption, NewFrames DEF NoFrame
  <1>2. "idle" \in Steps
    BY DEF Steps
  <1>3. pc' \in [Callers -> Steps] /\ call' \in [Callers -> Frames]
    BY <1>1, <1>2 DEF CallersOK, Return, Goto
  <1>4. ASSUME NEW d \in Requesters
        PROVE  pc'[d] # "idle" <=> call'[d].attempts > 0
    <2>1. d \in Callers
      BY DEF Callers
    <2>2. CASE d = c
      BY <1>1, <2>1, <2>2 DEF CallersOK, Return, Goto
    <2>3. CASE d # c
      BY <2>1, <2>3 DEF CallersOK, Return, Goto
    <2>4. QED
      BY <2>2, <2>3
  <1>5. QED
    BY <1>3, <1>4 DEF CallersOK

(* Retry goes on only with an attempt left. *)
LEMMA Retrying ==
  ASSUME CallersOK, result \in [Callers -> Results],
         NEW c \in Requesters, pc[c] # "idle", Retry(c)
  PROVE  CallersOK' /\ result' \in [Callers -> Results]
  <1>1. c \in Callers /\ call[c] \in Frames
    BY DEF CallersOK, Callers
  <1>2. CASE call[c].attempts > 1
    <2> DEFINE f == [call[c] EXCEPT !.attempts = @ - 1]
    <2>1. f \in Frames /\ f.attempts > 0
      BY <1>1, <1>2, FrameUpdates DEF Frames
    <2>2. call' = [call EXCEPT ![c] = f] /\ Goto(c, "check") /\ UNCHANGED result
      BY <1>2 DEF Retry
    <2> HIDE DEF f
    <2>3. pc' \in [Callers -> Steps] /\ call' \in [Callers -> Frames]
      BY <2>1, <2>2 DEF CallersOK, Goto, Steps
    <2>4. ASSUME NEW d \in Requesters
          PROVE  pc'[d] # "idle" <=> call'[d].attempts > 0
      <3>1. d \in Callers
        BY DEF Callers
      <3>2. CASE d = c
        BY <2>1, <2>2, <3>1, <3>2 DEF CallersOK, Goto
      <3>3. CASE d # c
        BY <2>2, <3>1, <3>3 DEF CallersOK, Goto
      <3>4. QED
        BY <3>2, <3>3
    <2>5. QED
      BY <2>2, <2>3, <2>4 DEF CallersOK
  <1>3. CASE ~(call[c].attempts > 1)
    <2>1. Return(c, "exhausted")
      BY <1>3 DEF Retry
    <2>2. result' \in [Callers -> Results]
      BY <2>1 DEF Return, Results
    <2>3. QED
      BY <1>1, <2>1, <2>2, Returning
  <1>4. QED
    BY <1>2, <1>3

(* The types of GatewayAuth, for every value of its constants. *)
THEOREM TypeCorrect == Spec => []TypeOK
<1>1. Init => TypeOK
  <2>1. NoFrame \in Frames /\ NoFrame.attempts = 0
    BY AuthAssumption, NewFrames DEF NoFrame
  <2> HIDE DEF NoFrame
  <2>2. QED
    BY <2>1, AuthAssumption
    DEF Init, TypeOK, Steps, Results, Tokens, Empty, Callers
<1>2. TypeOK /\ [Next]_vars => TypeOK'
  <2> SUFFICES ASSUME TypeOK, [Next]_vars PROVE TypeOK'
    OBVIOUS
  <2> USE AuthAssumption DEF Tokens, Empty
  <2>0. CallersOK /\ (CallersOK' => TypeOK' \/ ~(/\ authToken' \in Tokens
             /\ sem' \in Callers \cup {NoCaller} /\ result' \in [Callers -> Results]
             /\ minted' \in Tokens /\ valid' \in SUBSET Tokens
             /\ faults' \in 0 .. MaxFaults /\ newest' \in Tokens))
    BY DEF TypeOK, CallersOK
  <2>1. CASE Revoke
    BY <2>1 DEF Revoke, Fault, TypeOK
  <2>2. ASSUME NEW c \in Callers, Request(c) PROVE TypeOK'
    <3> DEFINE f == Frame(Attempts, faults)
    <3>1. f \in Frames /\ f.attempts > 0
      BY NewFrames DEF TypeOK
    <3> HIDE DEF f
    <3>2. pc' \in [Callers -> Steps] /\ call' \in [Callers -> Frames]
      BY <2>2, <3>1 DEF Request, Goto, TypeOK, Steps, f
    <3>3. ASSUME NEW d \in Requesters
          PROVE  pc'[d] # "idle" <=> call'[d].attempts > 0
      <4>1. d \in Callers /\ call' = [call EXCEPT ![c] = f]
        BY <2>2 DEF Callers, Request, f
      <4>2. CASE d = c
        BY <2>2, <3>1, <4>1, <4>2 DEF Request, Goto, TypeOK
      <4>3. CASE d # c
        BY <2>2, <4>1, <4>3 DEF Request, Goto, TypeOK
      <4>4. QED
        BY <4>2, <4>3
    <3>4. CallersOK'
      BY <3>2, <3>3 DEF CallersOK
    <3>5. QED
      BY <2>0, <2>2, <3>4 DEF Request, TypeOK, Results
  <2>3. ASSUME NEW c \in Callers, GetAuthHeaders(c) PROVE TypeOK'
    <3>1. c \notin Requesters
      BY <2>3 DEF GetAuthHeaders
    <3>2. CASE authToken = Empty
      <4>1. CallersOK'
        BY <2>0, <2>3, <3>1, <3>2, Standing DEF GetAuthHeaders, Steps
      <4>2. QED
        BY <2>0, <2>3, <3>2, <4>1 DEF GetAuthHeaders, TypeOK
    <3>3. CASE authToken # Empty
      <4>1. CallersOK'
        BY <2>0, <2>3, <3>3, Returning DEF GetAuthHeaders
      <4>2. QED
        BY <2>0, <2>3, <3>3, <4>1 DEF GetAuthHeaders, Return, TypeOK, Results
    <3>4. QED
      BY <3>2, <3>3
  <2>4. ASSUME NEW c \in Callers, Local(c) PROVE TypeOK'
    <3>1. CASE CheckToken(c)
      <4>1. CallersOK'
        BY <2>0, <3>1, Standing DEF CheckToken, Steps
      <4>2. QED
        BY <2>0, <3>1, <4>1 DEF CheckToken, TypeOK
    <3>2. CASE SendRequest(c)
      <4>1. [call[c] EXCEPT !.cookies = Append(@, authToken)] \in Frames
        BY FrameUpdates DEF TypeOK
      <4>2. CallersOK'
        BY <2>0, <3>2, <4>1, MovingOn DEF SendRequest, Steps, Frames, CallersOK
      <4>3. QED
        BY <2>0, <3>2, <4>2 DEF SendRequest, TypeOK
    <3>3. CASE TryAcquire(c)
      <4>1. CallersOK'
        BY <2>0, <3>3, Standing DEF TryAcquire, Acquire, Steps
      <4>2. QED
        BY <2>0, <3>3, <4>1 DEF TryAcquire, Acquire, TypeOK
    <3>4. CASE StoreToken(c)
      <4>1. CallersOK'
        BY <2>0, <3>4, Standing DEF StoreToken, Steps
      <4>2. QED
        BY <2>0, <3>4, <4>1 DEF StoreToken, TypeOK, Frames
    <3>5. CASE Release(c)
      <4>1. CASE c \in Requesters
        <5>1. CallersOK' /\ result' \in [Callers -> Results]
          BY <2>0, <3>5, <4>1, Retrying DEF Release, TypeOK
        <5>2. QED
          BY <2>0, <3>5, <5>1 DEF Release, TypeOK
      <4>2. CASE c \notin Requesters
        <5>1. CallersOK'
          BY <2>0, <3>5, <4>2, Returning DEF Release
        <5>2. QED
          BY <2>0, <3>5, <4>2, <5>1 DEF Release, Return, TypeOK, Results
      <4>3. QED
        BY <4>1, <4>2
    <3>6. CASE Refused(c)
      <4>1. CallersOK'
        BY <2>0, <3>6, Returning DEF Refused
      <4>2. QED
        BY <2>0, <3>6, <4>1 DEF Refused, Return, TypeOK, Results
    <3>7. QED
      BY <2>4, <3>1, <3>2, <3>3, <3>4, <3>5, <3>6 DEF Local
  <2>5. ASSUME NEW c \in Callers, Answered(c) PROVE TypeOK'
    <3>1. CASE Served(c)
      <4>1. CallersOK'
        BY <2>0, <3>1, Returning DEF Served
      <4>2. QED
        BY <2>0, <3>1, <4>1 DEF Served, Return, TypeOK, Results
    <3>2. CASE Unauthorised(c)
      <4>1. CallersOK'
        BY <2>0, <3>2, Standing DEF Unauthorised, Steps
      <4>2. QED
        BY <2>0, <3>2, <4>1 DEF Unauthorised, Fault, TypeOK
    <3>3. CASE c \in Requesters /\ TransportError(c)
      <4>1. CallersOK' /\ result' \in [Callers -> Results]
        BY <2>0, <3>3, Retrying DEF TransportError, TypeOK
      <4>2. QED
        BY <2>0, <3>3, <4>1 DEF TransportError, Fault, TypeOK
    <3>4. CASE LoginGranted(c)
      <4>1. minted + 1 \in Tokens
        BY <3>4 DEF LoginGranted, TypeOK
      <4>2. CallersOK'
        BY <2>0, <3>4, <4>1, Answering DEF LoginGranted
      <4>3. QED
        BY <2>0, <3>4, <4>1, <4>2 DEF LoginGranted, LoginAnswer, TypeOK
    <3>5. CASE LoginWithoutToken(c)
      <4>1. CallersOK'
        BY <2>0, <3>5, Answering DEF LoginWithoutToken
      <4>2. QED
        BY <2>0, <3>5, <4>1 DEF LoginWithoutToken, LoginAnswer, Fault, TypeOK
    <3>6. CASE LoginFailed(c)
      <4>1. CallersOK'
        BY <2>0, <3>6, Standing DEF LoginFailed, Steps
      <4>2. QED
        BY <2>0, <3>6, <4>1 DEF LoginFailed, TypeOK
    <3>7. QED
      BY <2>5, <3>1, <3>2, <3>3, <3>4, <3>5, <3>6 DEF Answered
  <2>6. CASE UNCHANGED vars
    BY <2>6 DEF vars, TypeOK
  <2>7. QED
    BY <2>1, <2>2, <2>3, <2>4, <2>5, <2>6 DEF Next
<1>3. QED
  BY <1>1, <1>2, PTL DEF Spec

-----------------------------------------------------------------------------
(* The callers between TryAcquire and Release. *)
InLogin(c) == pc[c] \in {"login", "store", "renewed"}

(* At most one login is under way: its caller holds the semaphore. *)
OneLogin == \A c \in Callers : InLogin(c) <=> sem = c

(* What that is good for: a login's token is newer than every token kept. *)
TokensInOrder ==
  /\ newest <= minted
  /\ \A c \in Callers :
       pc[c] = "store" => call[c].reply = Empty \/ newest < call[c].reply
  /\ \A c \in Callers : call[c].reply <= minted

(* Logins of one PowerwallGateway never overlap, whoever starts them. *)
THEOREM LoginsExclude == Spec => []OneLogin
<1>1. Init => OneLogin
  BY AuthAssumption DEF Init, OneLogin, InLogin
<1>2. TypeOK /\ OneLogin /\ [Next]_vars => OneLogin'
  <2> SUFFICES ASSUME TypeOK, OneLogin, [Next]_vars PROVE OneLogin'
    OBVIOUS
  <2> USE AuthAssumption DEF OneLogin, InLogin, Goto, Return
  <2>1. CASE Revoke
    BY <2>1 DEF Revoke
  <2>2. ASSUME NEW c \in Callers, Request(c) PROVE OneLogin'
    BY <2>2 DEF Request, TypeOK
  <2>3. ASSUME NEW c \in Callers, GetAuthHeaders(c) PROVE OneLogin'
    BY <2>3 DEF GetAuthHeaders, TypeOK
  <2>4. ASSUME NEW c \in Callers, Local(c) PROVE OneLogin'
    <3>1. CASE CheckToken(c)
      BY <3>1 DEF CheckToken, TypeOK
    <3>2. CASE SendRequest(c)
      BY <3>2 DEF SendRequest, TypeOK
    <3>3. CASE TryAcquire(c)
      BY <3>3 DEF TryAcquire, Acquire, TypeOK
    <3>4. CASE StoreToken(c)
      BY <3>4 DEF StoreToken, TypeOK
    <3>5. CASE Release(c)
      BY <3>5 DEF Release, Retry, TypeOK
    <3>6. CASE Refused(c)
      BY <3>6 DEF Refused, TypeOK
    <3>7. QED
      BY <2>4, <3>1, <3>2, <3>3, <3>4, <3>5, <3>6 DEF Local
  <2>5. ASSUME NEW c \in Callers, Answered(c) PROVE OneLogin'
    <3>1. CASE Served(c)
      BY <3>1 DEF Served, TypeOK
    <3>2. CASE Unauthorised(c)
      BY <3>2 DEF Unauthorised, TypeOK
    <3>3. CASE TransportError(c)
      BY <3>3 DEF TransportError, Retry, TypeOK
    <3>4. CASE LoginGranted(c)
      BY <3>4 DEF LoginGranted, LoginAnswer, TypeOK
    <3>5. CASE LoginWithoutToken(c)
      BY <3>5 DEF LoginWithoutToken, LoginAnswer, TypeOK
    <3>6. CASE LoginFailed(c)
      BY <3>6 DEF LoginFailed, TypeOK
    <3>7. QED
      BY <2>5, <3>1, <3>2, <3>3, <3>4, <3>5, <3>6 DEF Answered
  <2>6. CASE UNCHANGED vars
    BY <2>6 DEF vars
  <2>7. QED
    BY <2>1, <2>2, <2>3, <2>4, <2>5, <2>6 DEF Next
<1>3. QED
  BY <1>1, <1>2, TypeCorrect, PTL DEF Spec

(* And the tokens stay in their order while logins exclude each other. *)
LEMMA TokensStayInOrder == Spec => []TokensInOrder
<1>1. Init => TokensInOrder
  BY DEF Init, TokensInOrder, NoFrame, Frame, Empty
<1>2. TypeOK /\ OneLogin /\ TokensInOrder /\ [Next]_vars => TokensInOrder'
  <2> SUFFICES ASSUME TypeOK, OneLogin, TokensInOrder, [Next]_vars
               PROVE  TokensInOrder'
    OBVIOUS
  <2> USE AuthAssumption DEF Goto, Empty, Tokens
  <2>0. /\ minted \in Nat /\ newest \in Nat
        /\ \A c \in Callers : call[c] \in Frames /\ call[c].reply \in Nat
    BY DEF TypeOK, Frames
  (* A step that leaves the tokens alone, moves one call on, and keeps or    *)
  (* clears its locals.                                                      *)
  <2>1. ASSUME NEW c \in Callers, UNCHANGED <<minted, newest>>,
               \A d \in Callers : pc'[d] = "store" => pc[d] = "store",
               \A d \in Callers : \/ call'[d].reply = call[d].reply
                                  \/ call'[d].reply = Empty
        PROVE  TokensInOrder'
    BY <2>0, <2>1 DEF TokensInOrder
  <2>2. CASE Revoke
    BY <2>2 DEF Revoke, TokensInOrder
  <2>3. ASSUME NEW c \in Callers, NEW how, Return(c, how)
        PROVE  /\ \A d \in Callers : pc'[d] = "store" => pc[d] = "store"
               /\ \A d \in Callers : \/ call'[d].reply = call[d].reply
                                     \/ call'[d].reply = Empty
    BY <2>3 DEF Return, NoFrame, Frame, TypeOK
  <2>4. ASSUME NEW c \in Callers, Retry(c)
        PROVE  /\ \A d \in Callers : pc'[d] = "store" => pc[d] = "store"
               /\ \A d \in Callers : \/ call'[d].reply = call[d].reply
                                     \/ call'[d].reply = Empty
    <3>1. CASE call[c].attempts > 1
      <4>1. pc' = [pc EXCEPT ![c] = "check"]
        BY <2>4, <3>1 DEF Retry
      <4>2. \A d \in Callers : call'[d].reply = call[d].reply
        <5> DEFINE f == [call[c] EXCEPT !.attempts = @ - 1]
        <5>1. call' = [call EXCEPT ![c] = f]
          BY <2>4, <3>1 DEF Retry
        <5>2. f.reply = call[c].reply
          BY <2>0 DEF Frames
        <5> HIDE DEF f
        <5>3. QED
          BY <5>1, <5>2 DEF TypeOK
      <4>3. QED
        BY <4>1, <4>2 DEF TypeOK
    <3>2. CASE ~(call[c].attempts > 1)
      BY <2>3, <2>4, <3>2 DEF Retry
    <3>3. QED
      BY <3>1, <3>2
  <2>5. ASSUME NEW c \in Callers, Request(c) PROVE TokensInOrder'
    BY <2>1, <2>5 DEF Request, Frame, TypeOK
  <2>6. ASSUME NEW c \in Callers, GetAuthHeaders(c) PROVE TokensInOrder'
    BY <2>1, <2>3, <2>6 DEF GetAuthHeaders, TypeOK
  <2>7. ASSUME NEW c \in Callers, Local(c) PROVE TokensInOrder'
    <3>1. CASE CheckToken(c)
      BY <2>1, <3>1 DEF CheckToken, TypeOK
    <3>2. CASE SendRequest(c)
      BY <2>1, <3>2 DEF SendRequest, TypeOK, Frames
    <3>3. CASE TryAcquire(c)
      BY <2>1, <3>3 DEF TryAcquire, Acquire, TypeOK
    <3>4. CASE StoreToken(c)
      <4>1. \A d \in Callers : pc[d] = "store" => d = c
        BY <3>4 DEF StoreToken, OneLogin, InLogin
      <4>2. \A d \in Callers : pc'[d] # "store"
        BY <3>4, <4>1 DEF StoreToken, TypeOK
      <4>3. newest' <= minted'
        BY <2>0, <3>4 DEF StoreToken, TokensInOrder
      <4>4. QED
        BY <2>0, <3>4, <4>2, <4>3 DEF StoreToken, TokensInOrder
    <3>5. CASE Release(c)
      BY <2>1, <2>3, <2>4, <3>5 DEF Release
    <3>6. CASE Refused(c)
      BY <2>1, <2>3, <3>6 DEF Refused
    <3>7. QED
      BY <2>7, <3>1, <3>2, <3>3, <3>4, <3>5, <3>6 DEF Local
  <2>8. ASSUME NEW c \in Callers, Answered(c) PROVE TokensInOrder'
    <3>1. CASE Served(c)
      BY <2>1, <2>3, <3>1 DEF Served
    <3>2. CASE Unauthorised(c)
      BY <2>1, <3>2 DEF Unauthorised, TypeOK
    <3>3. CASE TransportError(c)
      BY <2>1, <2>4, <3>3 DEF TransportError
    <3>4. CASE LoginGranted(c)
      <4>1. \A d \in Callers : call'[d].reply = IF d = c THEN minted + 1
                                               ELSE call[d].reply
        BY <3>4 DEF LoginGranted, LoginAnswer, TypeOK, Frames
      <4>2. \A d \in Callers : pc'[d] = "store" => d = c \/ pc[d] = "store"
        BY <3>4 DEF LoginGranted, LoginAnswer, TypeOK
      <4>3. minted' = minted + 1 /\ newest' = newest
        BY <3>4 DEF LoginGranted, LoginAnswer
      <4>4. QED
        BY <2>0, <4>1, <4>2, <4>3 DEF TokensInOrder
    <3>5. CASE LoginWithoutToken(c)
      <4>1. \A d \in Callers : call'[d].reply = IF d = c THEN Empty
                                               ELSE call[d].reply
        BY <3>5 DEF LoginWithoutToken, LoginAnswer, TypeOK, Frames
      <4>2. \A d \in Callers : pc'[d] = "store" => d = c \/ pc[d] = "store"
        BY <3>5 DEF LoginWithoutToken, LoginAnswer, TypeOK
      <4>3. minted' = minted /\ newest' = newest
        BY <3>5 DEF LoginWithoutToken, LoginAnswer
      <4>4. QED
        BY <2>0, <4>1, <4>2, <4>3 DEF TokensInOrder
    <3>6. CASE LoginFailed(c)
      BY <2>1, <3>6 DEF LoginFailed, TypeOK
    <3>7. QED
      BY <2>8, <3>1, <3>2, <3>3, <3>4, <3>5, <3>6 DEF Answered
  <2>9. CASE UNCHANGED vars
    BY <2>9 DEF vars, TokensInOrder
  <2>10. QED
    BY <2>2, <2>5, <2>6, <2>7, <2>8, <2>9 DEF Next
<1>3. QED
  BY <1>1, <1>2, TypeCorrect, LoginsExclude, PTL DEF Spec

(* GatewayAuth implements GatewaySession: whatever the callers and the       *)
(* gateway do, no login's answer overwrites the token of a later login.      *)
THEOREM SessionImplemented == Spec => TokenNeverGoesBack
<1>1. Init => Session!Init
  BY DEF Init, Session!Init, Empty
<1>2. TypeOK /\ TokensInOrder /\ [Next]_vars => [Session!Next]_<<authToken, newest>>
  <2> SUFFICES ASSUME TypeOK, TokensInOrder, [Next]_vars,
                      ~UNCHANGED <<authToken, newest>>
               PROVE  Session!Next
    OBVIOUS
  <2>1. PICK c \in Callers : StoreToken(c)
    BY DEF Next, vars, Revoke, Request, GetAuthHeaders, Local, Answered, CheckToken,
           SendRequest, TryAcquire, Acquire, Release, Refused, Served, Unauthorised,
           TransportError, LoginGranted, LoginWithoutToken, LoginFailed, LoginAnswer
  <2>2. call[c].reply \in Nat
    BY AuthAssumption DEF TypeOK, Frames, Tokens
  <2>3. CASE call[c].reply = Empty
    BY <2>1, <2>3 DEF StoreToken, Session!Next, Session!Drop, Empty
  <2>4. CASE call[c].reply # Empty
    <3>1. call[c].reply > newest
      BY <2>1, <2>2, <2>4, AuthAssumption DEF StoreToken, TokensInOrder, TypeOK, Tokens
    <3>2. QED
      BY <2>1, <2>2, <2>4, <3>1 DEF StoreToken, Session!Next, Session!Renew
  <2>5. QED
    BY <2>3, <2>4
<1>3. QED
  BY <1>1, <1>2, TypeCorrect, TokensStayInOrder, PTL
  DEF Spec, TokenNeverGoesBack, Session!Spec, Session!sessionVars

-----------------------------------------------------------------------------
(* Why retries are enough.  The token is good while the gateway accepts it,  *)
(* and any that is about to be stored.                                       *)
Good ==
  /\ authToken \in valid
  /\ \A d \in Callers : pc[d] = "store" => call[d].reply \in valid

Lost(c) == Attempts - call[c].attempts   \* attempts of the call so far
Met(c) == faults - call[c].since         \* faults since it began

One(condition) == IF condition THEN 1 ELSE 0

(* How many more attempts than it met faults a call may have lost: one, once *)
(* nothing but a fault can cost it the next; none, while it may lose one to  *)
(* a stale token, and while it renews the token; and after a renewal, which  *)
(* costs an attempt, one less if what it has got is not good.                *)
Spare(c) ==
  CASE pc[c] \in {"check", "cookie"} -> One(Good)
    [] pc[c] = "wait"    -> One(Good /\ Authorised(c))
    [] pc[c] = "store"   -> One(call[c].reply \in valid) - 1
    [] pc[c] = "renewed" -> One(Good) - 1
    [] OTHER -> 0

Covered(c) == pc[c] # "idle" => Lost(c) <= Met(c) + Spare(c)

UnderWay(c) == pc[c] # "idle" => result[c] # "exhausted"

FaultsCover ==
  /\ valid \subseteq 1 .. minted
  /\ \A c \in Requesters : UnderWay(c)
  /\ Honours = "last" => \A c \in Requesters : Covered(c)

(* A step leaves those it does not move as they are covered if it is a       *)
(* fault, or takes nothing away from the token.                              *)
Sparing == \/ faults' = faults + 1
           \/ faults' = faults /\ (Good => Good') /\ valid \subseteq valid'

LEMMA CountsTyped ==
  ASSUME TypeOK, NEW c \in Requesters
  PROVE  /\ c \in Callers /\ call[c] \in Frames
         /\ call[c].attempts \in Nat /\ call[c].since \in Nat
         /\ faults \in Nat /\ Attempts \in Nat
         /\ call[c].cookies \in Seq(Tokens)
  BY AuthAssumption DEF TypeOK, Callers, Frames

LEMMA OthersCovered ==
  ASSUME TypeOK, NEW d \in Requesters, Covered(d), Sparing,
         pc'[d] = pc[d], call'[d] = call[d]
  PROVE  Covered(d)'
<1>1. Lost(d) \in Int /\ Met(d) \in Int
  BY CountsTyped DEF Lost, Met
<1>2. CASE faults' = faults + 1
  <2>1. Lost(d)' = Lost(d) /\ Met(d)' = Met(d) + 1
    BY <1>2, CountsTyped DEF Lost, Met
  <2>2. Spare(d)' >= Spare(d) - 1 /\ Spare(d) \in Int /\ Spare(d)' \in Int
    BY DEF Spare, One
  <2>3. pc[d] # "idle" => Lost(d) <= Met(d) + Spare(d) BY DEF Covered
  <2>4. pc[d] # "idle" => Lost(d)' <= Met(d)' + Spare(d)'
    BY <1>1, <2>1, <2>2, <2>3
  <2>. QED BY <2>4 DEF Covered
<1>3. CASE faults' = faults /\ (Good => Good') /\ valid \subseteq valid'
  <2>1. Lost(d)' = Lost(d) /\ Met(d)' = Met(d)
    BY <1>3 DEF Lost, Met
  <2>2. Authorised(d) => Authorised(d)'
    BY <1>3 DEF Authorised
  <2>3. Spare(d)' >= Spare(d) /\ Spare(d) \in Int /\ Spare(d)' \in Int
    BY <1>3, <2>2 DEF Spare, One
  <2>. QED BY <1>1, <2>1, <2>3 DEF Covered
<1>. QED BY <1>2, <1>3 DEF Sparing

(* The token stays good where it stays and no other is about to be stored.   *)
LEMMA GoodStays ==
  ASSUME authToken' = authToken, valid \subseteq valid', Good,
         \A d \in Callers : pc'[d] = "store" => pc[d] = "store" /\ call'[d].reply = call[d].reply
  PROVE  Good'
  BY DEF Good

(* To retry or to return is not to store. *)
LEMMA RetryStoresNothing ==
  ASSUME TypeOK, NEW c \in Callers, Retry(c) \/ \E how : Return(c, how)
  PROVE  \A d \in Callers :
           pc'[d] = "store" => pc[d] = "store" /\ call'[d].reply = call[d].reply
<1>1. \A d \in Callers \ {c} : call'[d] = call[d] /\ pc'[d] = pc[d]
  BY DEF Retry, Return, Goto, TypeOK
<1>2. pc'[c] \in {"check", "idle"}
  BY DEF Retry, Return, Goto, TypeOK
<1>. QED BY <1>1, <1>2

(* Every step is sparing. *)
LEMMA StepsSpare ==
  ASSUME TypeOK, valid \subseteq 1 .. minted, [Next]_vars
  PROVE  Sparing /\ valid' \subseteq 1 .. minted'
<1>0. minted \in Nat
  BY AuthAssumption DEF TypeOK, Tokens
<1>1. CASE Revoke
  BY <1>1 DEF Revoke, Fault, Sparing
<1>2. ASSUME NEW c \in Callers, Request(c) PROVE Sparing /\ valid' \subseteq 1 .. minted'
  BY <1>2, GoodStays DEF Request, Goto, Sparing, TypeOK
<1>3. ASSUME NEW c \in Callers, GetAuthHeaders(c) PROVE Sparing /\ valid' \subseteq 1 .. minted'
  <2>1. UNCHANGED <<authToken, valid, minted, faults>> BY <1>3 DEF GetAuthHeaders
  <2>2. \A d \in Callers : pc'[d] = "store" => pc[d] = "store" /\ call'[d].reply = call[d].reply
    BY <1>3, RetryStoresNothing DEF GetAuthHeaders, Goto, TypeOK
  <2>. QED BY <2>1, <2>2, GoodStays DEF Sparing
<1>4. ASSUME NEW c \in Callers, Local(c) PROVE Sparing /\ valid' \subseteq 1 .. minted'
  <2>1. UNCHANGED <<valid, minted, faults>>
    BY <1>4 DEF Local, CheckToken, SendRequest, TryAcquire, Acquire, StoreToken, Release, Refused
  <2>2. CASE CheckToken(c) \/ SendRequest(c) \/ TryAcquire(c) \/ Release(c) \/ Refused(c)
    <3>1. authToken' = authToken
      BY <2>2 DEF CheckToken, SendRequest, TryAcquire, Acquire, Release, Refused
    <3>2. \A d \in Callers : pc'[d] = "store" => pc[d] = "store" /\ call'[d].reply = call[d].reply
      <4>1. CASE CheckToken(c) BY <4>1 DEF CheckToken, Goto, TypeOK
      <4>2. CASE SendRequest(c) BY <4>2 DEF SendRequest, Goto, TypeOK
      <4>3. CASE TryAcquire(c) BY <4>3 DEF TryAcquire, Acquire, Goto, TypeOK
      <4>4. CASE Release(c) BY <4>4, RetryStoresNothing DEF Release
      <4>5. CASE Refused(c) BY <4>5, RetryStoresNothing DEF Refused
      <4>. QED BY <2>2, <4>1, <4>2, <4>3, <4>4, <4>5
    <3>. QED BY <2>1, <3>1, <3>2, GoodStays DEF Sparing
  <2>3. CASE StoreToken(c)
    <3>1. authToken' = call[c].reply /\ pc[c] = "store" BY <2>3 DEF StoreToken
    <3>2. \A d \in Callers : pc'[d] = "store" => pc[d] = "store" /\ call'[d].reply = call[d].reply
      BY <2>3 DEF StoreToken, Goto, TypeOK
    <3>3. Good => Good' BY <2>1, <3>1, <3>2 DEF Good
    <3>. QED BY <2>1, <3>3 DEF Sparing
  <2>. QED BY <1>4, <2>2, <2>3 DEF Local
<1>5. ASSUME NEW c \in Callers, Answered(c) PROVE Sparing /\ valid' \subseteq 1 .. minted'
  <2>1. CASE Served(c) \/ LoginFailed(c)
    <3>1. UNCHANGED <<authToken, valid, minted, faults>> BY <2>1 DEF Served, LoginFailed
    <3>2. \A d \in Callers : pc'[d] = "store" => pc[d] = "store" /\ call'[d].reply = call[d].reply
      BY <2>1, RetryStoresNothing DEF Served, LoginFailed, Goto, TypeOK
    <3>. QED BY <3>1, <3>2, GoodStays DEF Sparing
  <2>2. CASE Unauthorised(c)
    <3>1. UNCHANGED <<authToken, valid, minted, call>> /\ (faults' = faults + 1 \/ faults' = faults)
      BY <2>2 DEF Unauthorised, Fault
    <3>2. \A d \in Callers : pc'[d] = "store" => pc[d] = "store" /\ call'[d].reply = call[d].reply
      BY <2>2 DEF Unauthorised, Goto, TypeOK
    <3>. QED BY <3>1, <3>2, GoodStays DEF Sparing
  <2>3. CASE TransportError(c) \/ LoginWithoutToken(c)
    BY <2>3 DEF TransportError, LoginWithoutToken, LoginAnswer, Fault, Sparing
  <2>4. CASE LoginGranted(c)
    <3>1. /\ valid' = valid \cup {minted + 1} /\ minted' = minted + 1
          /\ UNCHANGED <<authToken, faults>>
      BY <2>4 DEF LoginGranted, LoginAnswer
    <3>2. call[c] \in Frames /\ call \in [Callers -> Frames] BY DEF TypeOK
    <3>3. \A d \in Callers : pc'[d] = "store" =>
            call'[d].reply = minted + 1 \/ (pc[d] = "store" /\ call'[d].reply = call[d].reply)
      BY <2>4, <3>2 DEF LoginGranted, LoginAnswer, Goto, TypeOK, Frames
    <3>4. Good => Good' BY <3>1, <3>3 DEF Good
    <3>. QED BY <1>0, <3>1, <3>4 DEF Sparing
  <2>. QED BY <1>5, <2>1, <2>2, <2>3, <2>4 DEF Answered
<1>6. CASE UNCHANGED vars
  BY <1>6 DEF vars, Sparing, Good
<1>. QED BY <1>1, <1>2, <1>3, <1>4, <1>5, <1>6 DEF Next

(* An attempt lost is covered by a fault or, once, by the token being good;  *)
(* and the last one, by faults alone.                                        *)
LEMMA RetryCovered ==
  ASSUME TypeOK, NEW c \in Requesters, pc[c] # "idle", Retry(c), faults' \in Nat,
         result[c] # "exhausted",
         Lost(c) + 1 <= faults' - call[c].since + One(Good'),
         Lost(c) <= faults' - call[c].since
  PROVE  /\ Covered(c)' /\ UnderWay(c)'
         /\ result'[c] = "exhausted" => faults' - call[c].since >= Attempts - 1
<1>0. /\ c \in Callers /\ call[c] \in Frames /\ call[c].attempts \in 0 .. Attempts
      /\ call[c].since \in Nat /\ Attempts \in Nat /\ One(Good') \in {0, 1}
  BY CountsTyped DEF TypeOK, Frames, One
<1>1. CASE call[c].attempts > 1
  <2> DEFINE f == [call[c] EXCEPT !.attempts = @ - 1]
  <2>1. call'[c] = f /\ pc'[c] = "check" /\ result' = result
    BY <1>0, <1>1 DEF Retry, Goto, TypeOK
  <2>2. f.attempts = call[c].attempts - 1 /\ f.since = call[c].since
    BY <1>0 DEF Frames
  <2> HIDE DEF f
  <2>3. Lost(c)' = Lost(c) + 1 /\ Met(c)' = faults' - call[c].since /\ Spare(c)' = One(Good')
    BY <1>0, <2>1, <2>2 DEF Lost, Met, Spare, One
  <2>. QED BY <2>1, <2>3 DEF Covered, UnderWay
<1>2. CASE ~(call[c].attempts > 1)
  <2>1. pc'[c] = "idle" BY <1>0, <1>2 DEF Retry, Return, Goto, TypeOK
  <2>2. Lost(c) >= Attempts - 1 /\ Lost(c) \in Int BY <1>0, <1>2 DEF Lost
  <2>3. faults' - call[c].since >= Attempts - 1 BY <1>0, <2>2
  <2>. QED BY <2>1, <2>3 DEF Covered, UnderWay
<1>. QED BY <1>1, <1>2

(* What a caller does keeps its own call covered, and the call gives up only *)
(* after faults.                                                             *)
LEMMA CallerCovered ==
  ASSUME TypeOK, OneLogin, valid \subseteq 1 .. minted, Honours = "last", faults' \in Nat,
         NEW c \in Requesters, Covered(c), UnderWay(c),
         Request(c) \/ Local(c) \/ Answered(c)
  PROVE  /\ Covered(c)' /\ UnderWay(c)'
         /\ pc[c] # "idle" /\ result'[c] = "exhausted"
              => faults' - call[c].since >= Attempts - 1
<1> DEFINE Goal == /\ Covered(c)' /\ UnderWay(c)'
                   /\ pc[c] # "idle" /\ result'[c] = "exhausted"
                        => faults' - call[c].since >= Attempts - 1
<1>0. /\ c \in Callers /\ call[c] \in Frames /\ call[c].cookies \in Seq(Tokens)
      /\ authToken \in Tokens
  BY CountsTyped DEF TypeOK
<1>counts. call[c].attempts \in Nat /\ call[c].since \in Nat /\ Attempts \in Nat /\ faults \in Nat
  BY CountsTyped
<1>1. /\ Lost(c) \in Int /\ Met(c) \in Int /\ Met(c) = faults - call[c].since
      /\ One(Good) \in {0, 1} /\ One(Good') \in {0, 1}
      /\ pc[c] # "idle" => Lost(c) <= Met(c) + Spare(c)
  <2>1. Lost(c) \in Int /\ Met(c) \in Int /\ Met(c) = faults - call[c].since
    BY <1>counts DEF Lost, Met
  <2>2. One(Good) \in {0, 1} /\ One(Good') \in {0, 1}
    BY DEF One
  <2>. QED BY <2>1, <2>2 DEF Covered
(* A step that moves the call on and keeps its attempts. *)
<1>2. ASSUME pc[c] # "idle", call'[c].attempts = call[c].attempts,
             call'[c].since = call[c].since, result' = result,
             Lost(c) <= faults' - call[c].since + Spare(c)'
      PROVE  Goal
  <2>1. Lost(c)' = Lost(c) /\ Met(c)' = faults' - call[c].since
    BY <1>2 DEF Lost, Met
  <2>. QED BY <1>2, <2>1 DEF Covered, UnderWay
(* A step that ends the call, but not for want of attempts. *)
<1>3. ASSUME NEW how, how # "exhausted", Return(c, how) PROVE Goal
  BY <1>0, <1>3 DEF Return, Goto, TypeOK, Covered, UnderWay
<1>4. CASE Request(c)
  <2>1. call'[c] = Frame(Attempts, faults) /\ pc[c] = "idle" /\ pc'[c] = "check"
        /\ result'[c] = "none" /\ faults' = faults
    BY <1>0, <1>4 DEF Request, Goto, TypeOK
  <2>2. Lost(c)' = 0 /\ Met(c)' = 0 /\ Spare(c)' = One(Good')
    BY <1>counts, <2>1 DEF Lost, Met, Spare, Frame, One
  <2>. QED BY <1>1, <2>1, <2>2 DEF Covered, UnderWay
<1>5. CASE CheckToken(c)
  <2>1. /\ pc[c] = "check" /\ call' = call /\ result' = result /\ faults' = faults
        /\ UNCHANGED <<authToken, valid>>
        /\ pc' = [pc EXCEPT ![c] = IF authToken # Empty THEN "cookie" ELSE "acquire"]
    BY <1>5 DEF CheckToken, Goto
  <2>2. Spare(c) = One(Good) BY <2>1 DEF Spare
  <2>3. CASE authToken = Empty
    <3>1. ~Good BY <2>3 DEF Good, Empty
    <3>2. Spare(c)' = 0 BY <1>0, <2>1, <2>3 DEF Spare, TypeOK
    <3>. QED BY <1>1, <1>2, <2>1, <2>2, <3>1, <3>2 DEF One
  <2>4. CASE authToken # Empty
    <3>1. pc'[c] = "cookie" BY <1>0, <2>1, <2>4 DEF TypeOK
    <3>2. \A d \in Callers : pc'[d] = "store" => pc[d] = "store"
      BY <2>1, <2>4 DEF TypeOK
    <3>3. Good => Good' BY <2>1, <3>2, GoodStays
    <3>4. Spare(c)' = One(Good') BY <3>1 DEF Spare
    <3>. QED BY <1>1, <1>2, <2>1, <2>2, <3>3, <3>4 DEF One
  <2>. QED BY <2>3, <2>4
<1>6. CASE SendRequest(c)
  <2> DEFINE f == [call[c] EXCEPT !.cookies = Append(@, authToken)]
  <2>1. /\ pc[c] = "cookie" /\ pc' = [pc EXCEPT ![c] = "wait"] /\ call' = [call EXCEPT ![c] = f]
        /\ result' = result /\ faults' = faults /\ UNCHANGED <<authToken, valid>>
    BY <1>6 DEF SendRequest, Goto
  <2>2. /\ f.attempts = call[c].attempts /\ f.since = call[c].since /\ f.reply = call[c].reply
        /\ f.cookies = Append(call[c].cookies, authToken)
    BY <1>0 DEF Frames
  <2> HIDE DEF f
  <2>3. call'[c] = f /\ pc'[c] = "wait" BY <1>0, <2>1 DEF TypeOK
  <2>4. \A d \in Callers : pc'[d] = "store" => pc[d] = "store" /\ call'[d].reply = call[d].reply
    BY <2>1 DEF TypeOK
  <2>5. Good => Good' BY <2>1, <2>4, GoodStays
  <2>6. LET cs == call'[c].cookies IN cs # <<>> /\ cs[Len(cs)] = authToken
    BY <1>0, <2>2, <2>3
  <2>7. Good => Authorised(c)' BY <2>1, <2>6 DEF Good, Authorised
  <2>8. Spare(c) = One(Good) /\ Spare(c)' = One(Good' /\ Authorised(c)')
    BY <2>1, <2>3 DEF Spare
  <2>. QED BY <1>1, <1>2, <2>1, <2>2, <2>3, <2>5, <2>7, <2>8 DEF One
<1>7. CASE Served(c)
  BY <1>3, <1>7 DEF Served
<1>8. CASE Unauthorised(c)
  <2>1. /\ pc[c] = "wait" /\ pc'[c] = "acquire" /\ call' = call /\ result' = result
    BY <1>0, <1>8 DEF Unauthorised, Goto, TypeOK
  <2>2. Spare(c) = One(Good /\ Authorised(c)) /\ Spare(c)' = 0
    BY <2>1 DEF Spare
  <2>3. CASE Authorised(c)
    <3>1. faults' = faults + 1 BY <1>8, <2>3 DEF Unauthorised, Fault
    <3>2. Spare(c) <= 1 /\ Spare(c) \in Int BY <2>2 DEF One
    <3>3. Lost(c) <= faults' - call[c].since + Spare(c)'
      BY <1>counts, <1>1, <2>1, <2>2, <3>1, <3>2
    <3>. QED BY <1>2, <2>1, <3>3
  <2>4. CASE ~Authorised(c)
    <3>1. faults' = faults BY <1>8, <2>4 DEF Unauthorised
    <3>2. Spare(c) = 0 BY <2>2, <2>4 DEF One
    <3>3. Lost(c) <= faults' - call[c].since + Spare(c)'
      BY <1>counts, <1>1, <2>1, <2>2, <3>1, <3>2
    <3>. QED BY <1>2, <2>1, <3>3
  <2>. QED BY <2>3, <2>4
<1>9. CASE TransportError(c)
  <2>1. /\ pc[c] = "wait" /\ Retry(c) /\ faults' = faults + 1 /\ UNCHANGED <<authToken, valid>>
    BY <1>9 DEF TransportError, Fault
  <2>2. Good => Good' BY <1>0, <2>1, GoodStays, RetryStoresNothing
  <2>3. Spare(c) <= One(Good) /\ Spare(c) \in Int BY <2>1 DEF Spare, One
  <2>5. One(Good) <= One(Good') BY <2>2 DEF One
  <2>4. /\ Lost(c) + 1 <= faults' - call[c].since + One(Good')
        /\ Lost(c) <= faults' - call[c].since
    <3>1. Lost(c) <= faults - call[c].since + Spare(c) BY <1>1, <2>1
    <3>. QED BY <1>counts, <1>1, <2>1, <2>3, <2>5, <3>1
  <2>. QED BY <2>1, <2>4, RetryCovered DEF UnderWay
<1>10. CASE TryAcquire(c)
  <2>1. /\ pc[c] = "acquire" /\ pc'[c] \in {"login", "refused"} /\ call' = call
        /\ result' = result /\ faults' = faults
    BY <1>0, <1>10 DEF TryAcquire, Acquire, Goto, TypeOK
  <2>2. Spare(c) = 0 /\ Spare(c)' = 0 BY <2>1 DEF Spare
  <2>. QED BY <1>1, <1>2, <2>1, <2>2
<1>11. CASE StoreToken(c)
  <2>1. /\ pc[c] = "store" /\ pc'[c] = "renewed" /\ call' = call /\ result' = result
        /\ faults' = faults /\ valid' = valid /\ authToken' = call[c].reply
    BY <1>0, <1>11 DEF StoreToken, Goto, TypeOK
  <2>2. \A d \in Callers : pc'[d] # "store"
    <3>1. pc[c] = "store" /\ sem = c
      BY <1>0, <1>11 DEF StoreToken, OneLogin, InLogin
    <3>2. \A d \in Callers \ {c} : pc[d] # "store"
      BY <3>1 DEF OneLogin, InLogin
    <3>. QED BY <1>11, <2>1, <3>2 DEF StoreToken, Goto, TypeOK
  <2>3. call[c].reply \in valid => Good'
    BY <2>1, <2>2 DEF Good
  <2>4. Spare(c) = One(call[c].reply \in valid) - 1 /\ Spare(c)' = One(Good') - 1
    BY <2>1 DEF Spare
  <2>5. Spare(c) <= Spare(c)' /\ Spare(c) \in Int /\ Spare(c)' \in Int
    BY <2>3, <2>4 DEF One
  <2>6. Lost(c) <= faults' - call[c].since + Spare(c)'
    BY <1>counts, <1>1, <2>1, <2>5
  <2>. QED BY <1>2, <2>1, <2>6
<1>12. CASE Release(c)
  <2>1. /\ pc[c] = "renewed" /\ Retry(c) /\ faults' = faults /\ UNCHANGED <<authToken, valid>>
    BY <1>12 DEF Release
  <2>2. Good => Good' BY <1>0, <2>1, GoodStays, RetryStoresNothing
  <2>3. Spare(c) = One(Good) - 1 BY <2>1 DEF Spare
  <2>5. One(Good) <= One(Good') BY <2>2 DEF One
  <2>4. /\ Lost(c) + 1 <= faults' - call[c].since + One(Good')
        /\ Lost(c) <= faults' - call[c].since
    <3>1. Lost(c) <= faults - call[c].since + Spare(c) BY <1>1, <2>1
    <3>. QED BY <1>counts, <1>1, <2>1, <2>3, <2>5, <3>1
  <2>. QED BY <2>1, <2>4, RetryCovered DEF UnderWay
<1>13. CASE Refused(c)
  BY <1>3, <1>13 DEF Refused
<1>14. CASE LoginFailed(c)
  <2>1. /\ pc[c] = "login" /\ pc'[c] = "refused" /\ call' = call /\ result' = result /\ faults' = faults
    BY <1>0, <1>14 DEF LoginFailed, Goto, TypeOK
  <2>2. Spare(c) = 0 /\ Spare(c)' = 0 BY <2>1 DEF Spare
  <2>. QED BY <1>1, <1>2, <2>1, <2>2
<1>15. ASSUME NEW t, LoginAnswer(c, t)
       PROVE  /\ pc[c] = "login" /\ pc'[c] = "store" /\ result' = result
              /\ call'[c].attempts = call[c].attempts /\ call'[c].since = call[c].since
              /\ call'[c].reply = t /\ Spare(c) = 0
              /\ Spare(c)' = One((t \in valid)') - 1
  <2> DEFINE f == [call[c] EXCEPT !.reply = t]
  <2>1. f.attempts = call[c].attempts /\ f.since = call[c].since /\ f.reply = t
    BY <1>0 DEF Frames
  <2>2. call'[c] = f /\ pc[c] = "login" /\ pc'[c] = "store" /\ result' = result
    BY <1>0, <1>15 DEF LoginAnswer, Goto, TypeOK
  <2>. QED BY <2>1, <2>2 DEF Spare
<1>16. CASE LoginGranted(c)
  <2>1. LoginAnswer(c, minted + 1) /\ faults' = faults /\ minted + 1 \in valid'
    BY <1>16 DEF LoginGranted
  <2>2. Spare(c) = 0 /\ Spare(c)' = 0
    BY <1>15, <2>1 DEF One
  <2>3. Lost(c) <= faults' - call[c].since + Spare(c)'
    BY <1>counts, <1>1, <1>15, <2>1, <2>2
  <2>. QED BY <1>2, <1>15, <2>1, <2>3
<1>17. CASE LoginWithoutToken(c)
  <2>1. LoginAnswer(c, Empty) /\ faults' = faults + 1
    BY <1>17 DEF LoginWithoutToken, Fault
  <2>2. Spare(c) = 0 /\ Spare(c)' \in {0, 0 - 1}
    BY <1>15, <2>1 DEF One
  <2>3. Lost(c) <= faults' - call[c].since + Spare(c)'
    BY <1>counts, <1>1, <1>15, <2>1, <2>2
  <2>. QED BY <1>2, <1>15, <2>1, <2>3
<1>. QED
  BY <1>4, <1>5, <1>6, <1>7, <1>8, <1>9, <1>10, <1>11, <1>12, <1>13, <1>14, <1>16, <1>17
  DEF Local, Answered

(* Every other caller stands as it stood. *)
Alone(c) ==
  \A d \in Callers \ {c} : pc'[d] = pc[d] /\ call'[d] = call[d] /\ result'[d] = result[d]

LEMMA CallersMoveAlone ==
  ASSUME TypeOK, NEW c \in Callers, Request(c) \/ GetAuthHeaders(c) \/ Local(c) \/ Answered(c)
  PROVE  Alone(c)
<1> USE DEF TypeOK, Alone, Goto, Return
<1>1. CASE Request(c) \/ GetAuthHeaders(c)
  BY <1>1 DEF Request, GetAuthHeaders
<1>2. CASE CheckToken(c) \/ SendRequest(c) \/ TryAcquire(c) \/ StoreToken(c) \/ Refused(c)
  BY <1>2 DEF CheckToken, SendRequest, TryAcquire, Acquire, StoreToken, Refused
<1>3. CASE Release(c) \/ TransportError(c)
  BY <1>3 DEF Release, TransportError, Retry
<1>4. CASE Served(c) \/ Unauthorised(c) \/ LoginFailed(c)
  BY <1>4 DEF Served, Unauthorised, LoginFailed
<1>5. CASE LoginGranted(c) \/ LoginWithoutToken(c)
  BY <1>5 DEF LoginGranted, LoginWithoutToken, LoginAnswer
<1>. QED BY <1>1, <1>2, <1>3, <1>4, <1>5 DEF Local, Answered

(* A requester a step leaves alone: covered as before, and no call of its    *)
(* own that has given up.                                                    *)
LEMMA BystanderCovered ==
  ASSUME TypeOK, valid \subseteq 1 .. minted, [Next]_vars, FaultsCover, NEW d \in Requesters,
         pc'[d] = pc[d], call'[d] = call[d], result'[d] = result[d]
  PROVE  /\ UnderWay(d)' /\ (Honours = "last" => Covered(d)')
         /\ pc[d] # "idle" => result'[d] # "exhausted"
<1>1. UnderWay(d) /\ (Honours = "last" => Covered(d)) BY DEF FaultsCover
<1>2. Sparing BY StepsSpare
<1>3. Honours = "last" => Covered(d)' BY <1>1, <1>2, OthersCovered
<1>. QED BY <1>1, <1>3 DEF UnderWay

(* What a step does for one requester. *)
RetriesWorth(c) ==
  Honours = "last" /\ pc[c] # "idle" /\ result'[c] = "exhausted"
    => faults' - call[c].since >= Attempts - 1

(* A call that goes on has not given up, whatever cookie the gateway reads.  *)
LEMMA CallerUnderWay ==
  ASSUME TypeOK, NEW c \in Requesters, UnderWay(c), Request(c) \/ Local(c) \/ Answered(c)
  PROVE  UnderWay(c)'
<1>0. c \in Callers BY DEF Callers
<1> USE <1>0 DEF TypeOK, Goto, Return, UnderWay
<1>1. CASE Request(c)
  BY <1>1 DEF Request
<1>2. CASE CheckToken(c) \/ SendRequest(c) \/ TryAcquire(c) \/ StoreToken(c) \/ Refused(c)
  BY <1>2 DEF CheckToken, SendRequest, TryAcquire, Acquire, StoreToken, Refused
<1>3. CASE Release(c) \/ TransportError(c)
  BY <1>3 DEF Release, TransportError, Retry
<1>4. CASE Served(c) \/ Unauthorised(c) \/ LoginFailed(c)
  BY <1>4 DEF Served, Unauthorised, LoginFailed
<1>5. CASE LoginGranted(c) \/ LoginWithoutToken(c)
  BY <1>5 DEF LoginGranted, LoginWithoutToken, LoginAnswer
<1>. QED BY <1>1, <1>2, <1>3, <1>4, <1>5 DEF Local, Answered

LEMMA StepsCovered ==
  ASSUME TypeOK, OneLogin, TypeOK', FaultsCover, [Next]_vars
  PROVE  FaultsCover' /\ \A c \in Requesters : RetriesWorth(c)
<1>0. /\ valid \subseteq 1 .. minted /\ faults' \in Nat
      /\ Requesters \subseteq Callers
  BY AuthAssumption DEF FaultsCover, TypeOK, Callers
<1>1. valid' \subseteq 1 .. minted' BY <1>0, StepsSpare
<1>2. ASSUME NEW d \in Requesters
      PROVE  UnderWay(d)' /\ (Honours = "last" => Covered(d)') /\ RetriesWorth(d)
  <2>0. UnderWay(d) /\ (Honours = "last" => Covered(d)) BY DEF FaultsCover
  <2>1. CASE pc'[d] = pc[d] /\ call'[d] = call[d] /\ result'[d] = result[d]
    BY <1>0, <2>1, BystanderCovered DEF RetriesWorth
  <2>2. CASE Request(d) \/ Local(d) \/ Answered(d)
    <3>1. UnderWay(d)' BY <2>0, <2>2, CallerUnderWay
    <3>2. CASE Honours = "last"
      <4>1. /\ Covered(d)'
            /\ pc[d] # "idle" /\ result'[d] = "exhausted"
                 => faults' - call[d].since >= Attempts - 1
        BY <1>0, <2>0, <2>2, <3>2, CallerCovered
      <4>. QED BY <3>1, <4>1 DEF RetriesWorth
    <3>. QED BY <3>1, <3>2 DEF RetriesWorth
  <2>3. CASE Revoke \/ UNCHANGED vars
    BY <2>1, <2>3 DEF Revoke, vars
  <2>4. ASSUME NEW c \in Callers, Request(c) \/ GetAuthHeaders(c) \/ Local(c) \/ Answered(c)
        PROVE  \/ pc'[d] = pc[d] /\ call'[d] = call[d] /\ result'[d] = result[d]
               \/ Request(d) \/ Local(d) \/ Answered(d)
    <3>1. Alone(c) BY <2>4, CallersMoveAlone
    <3>2. CASE c = d
      BY <2>4, <3>2, AuthAssumption DEF GetAuthHeaders
    <3>. QED BY <1>0, <3>1, <3>2 DEF Alone
  <2>. QED BY <2>1, <2>2, <2>3, <2>4 DEF Next
<1>. QED BY <1>1, <1>2 DEF FaultsCover

(* For any callers and any bounds: while the gateway reads the newest        *)
(* cookie, a call gives up only when all attempts but one met a fault of     *)
(* their own (retry and MakeAPIRequest).                                     *)
THEOREM RetriesCovered == Spec => ExhaustedOnlyByFaults
<1>1. Init => FaultsCover
  BY DEF Init, FaultsCover, UnderWay, Covered, Callers
<1>2. TypeOK /\ OneLogin /\ TypeOK' /\ FaultsCover /\ [Next]_vars => FaultsCover'
  BY StepsCovered
<1>3. TypeOK /\ OneLogin /\ TypeOK' /\ FaultsCover /\ [Next]_vars
        => [\A c \in Requesters :
              /\ Honours = "last"
              /\ pc[c] # "idle" /\ result'[c] = "exhausted"
              => faults' - call[c].since >= Attempts - 1]_vars
  BY StepsCovered DEF RetriesWorth
<1>. QED
  BY <1>1, <1>2, <1>3, TypeCorrect, LoginsExclude, PTL DEF Spec, ExhaustedOnlyByFaults
=============================================================================
