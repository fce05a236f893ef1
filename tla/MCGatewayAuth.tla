-------------------------- MODULE MCGatewayAuth --------------------------
(* Values of the constants of GatewayAuth for model checking. *)
EXTENDS GatewayAuth
CONSTANTS r1, r2, p1
MCRequesters == {r1, r2}
MCProxies == {p1}
=============================================================================
