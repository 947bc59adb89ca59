---------------------------- MODULE MCRestClient ----------------------------
(* RestClient with two requests for one endpoint. *)
EXTENDS RestClient, TLC

CONSTANTS r1, r2, channel

MCTarget == r1 :> channel @@ r2 :> channel
=============================================================================
