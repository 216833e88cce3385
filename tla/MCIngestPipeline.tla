-------------------------- MODULE MCIngestPipeline --------------------------
(***************************************************************************)
(* Model values of the TLC runs about IngestPipeline.                      *)
(***************************************************************************)
EXTENDS IngestPipeline, TLC

CONSTANTS w1, w2, l1, l2

\* One worker and its only loop, one worker whose restart makes a second loop,
\* and two workers with a loop each.
OneLoop == l1 :> w1
Restarted == l1 :> w1 @@ l2 :> w1
TwoWorkers == l1 :> w1 @@ l2 :> w2

Symmetry == Permutations(Events) \cup Permutations(Keys)
=============================================================================
