--------------------------- MODULE MCModelRouter ---------------------------
(* A small instance of ModelRouter for TLC: a local model that may see        *)
(* sensitive data, and two cloud models on one endpoint.                      *)
EXTENDS ModelRouter, TLC

CONSTANTS n1, n2, h1, s1, small, cheap, large, local, cloud

MCRequests == {n1, n2, h1, s1}
MCModels == {small, cheap, large}
MCKind == n1 :> "nats" @@ n2 :> "nats" @@ h1 :> "http" @@ s1 :> "stream"
MCFits == n1 :> {cheap, large} @@ n2 :> {large} @@ h1 :> MCModels @@ s1 :> MCModels
MCPreferred == n1 :> large @@ n2 :> None @@ h1 :> cheap @@ s1 :> cheap
MCEndpoint == small :> local @@ cheap :> cloud @@ large :> cloud
MCRank == small :> 0 @@ cheap :> 1 @@ large :> 2

=============================================================================
