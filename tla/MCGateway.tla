------------------------------ MODULE MCGateway ------------------------------
(* Values of the constants of Gateway for TLC.                               *)
EXTENDS Gateway, TLC

CONSTANTS gw1, gw2, tribe1, v1, v2, vs, url1, url2, url3

\* Three manifests of one major version, each with a base URL of its own;
\* the last one is a shared service.
SameMajor == v1 :> 1 @@ v2 :> 1 @@ vs :> 1
Urls == v1 :> url1 @@ v2 :> url2 @@ vs :> url3
Types == v1 :> "tribe" @@ v2 :> "tribe" @@ vs :> "shared"

\* The service may call itself through the gateway.
Everything == [m \in {v1, v2, vs} |-> {tribe1}]
=============================================================================
