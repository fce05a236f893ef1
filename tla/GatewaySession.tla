--------------------------- MODULE GatewaySession ---------------------------
(***************************************************************************)
(* What the rest of power-dash may rely on about the login token a         *)
(* PowerwallGateway keeps: the token is either absent or the newest one    *)
(* that was ever kept.  A token is the position, in the gateway's own      *)
(* order, of the login that issued it; 0 stands for the empty string.      *)
(***************************************************************************)
EXTENDS Naturals

VARIABLES
  authToken,  \* the token kept, 0 when there is none
  newest      \* the last token kept that was not empty

sessionVars == <<authToken, newest>>

Init == authToken = 0 /\ newest = 0

(* A login came back with a token issued after every token kept before. *)
Renew ==
  /\ authToken' \in Nat
  /\ authToken' > newest
  /\ newest' = authToken'

(* A login came back without a token. *)
Drop == authToken' = 0 /\ UNCHANGED newest

Next == Renew \/ Drop

Spec == Init /\ [][Next]_sessionVars
=============================================================================
