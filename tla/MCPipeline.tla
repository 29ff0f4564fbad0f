----------------------------- MODULE MCPipeline -----------------------------
(***************************************************************************)
(* Small instances of Pipeline for TLC.  clean1 and clean2 are two bodies  *)
(* with the same observations (a BPS response whose metadata alone moved), *)
(* stray is a third with a row nobody recognises, next is a later clean    *)
(* state of the source, sparse one that misses the coverage minimum,       *)
(* broken one whose metadata does not match the contract, and file a       *)
(* captured response on disk.                                              *)
(***************************************************************************)
EXTENDS Pipeline, TLC

CONSTANTS w1, w2, o1, o2, clean1, clean2, stray, next, sparse, broken, file,
          A, B, C, D, E

MCBatchOf == clean1 :> A @@ clean2 :> A @@ stray :> A
             @@ next :> B @@ sparse :> C @@ broken :> D @@ file :> E

MCBatchFailures == A :> {} @@ B :> {} @@ C :> {"coverage"} @@ D :> {} @@ E :> {}

MCChecks == {QuarantineCheck, "coverage"}

(* Sources that never return to an earlier state. *)
MCForwardFeeds == {<<clean1, sparse, next>>, <<broken, clean1, next>>, <<stray, next>>,
                   <<next, clean1>>}

MCTwoStepFeeds == {<<clean1, next>>, <<clean1, clean2>>, <<stray, clean1>>,
                   <<sparse, broken>>}

MCExceptionFeeds == {<<sparse, next>>, <<clean1, stray>>}

MCRewordedFeeds == {<<clean1, clean2>>}

MCStrayFeeds == {<<clean1, stray>>}
=============================================================================
