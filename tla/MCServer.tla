------------------------------ MODULE MCServer ------------------------------
(***************************************************************************)
(* The server with two requests over gRPC and one over HTTP.               *)
(***************************************************************************)
EXTENDS Server, TLC

CONSTANTS r1, r2, h1

MCRequest == {r1, r2, h1}
MCVia     == (r1 :> "grpc") @@ (r2 :> "grpc") @@ (h1 :> "http")
=============================================================================
