---------------------------- MODULE MCApiProcess ----------------------------
(***************************************************************************)
(* Requests for one place: a second answer queues for it, a search or a   *)
(* manifest holds the lock without a timeout.                              *)
(***************************************************************************)
EXTENDS ApiProcess, TLC

CONSTANTS r1, r2, r3, d1, d2

Ask(k) == [kind |-> k, chunker |-> "fixed"]
AskStructure(k) == [kind |-> k, chunker |-> "structure"]

MCLoads ==
  {r1 :> Ask("answer") @@ r2 :> Ask("answer") @@ r3 :> Ask("search"),
   r1 :> Ask("answer") @@ r2 :> AskStructure("manifest") @@ r3 :> Ask("metrics"),
   r1 :> AskStructure("search") @@ r2 :> AskStructure("manifest") @@ r3 :> Ask("ready")}
=============================================================================
