--------------------------- MODULE MCIngestWorker ---------------------------
(***************************************************************************)
(* Instances of IngestWorker for TLC: names for the workers and the jobs.  *)
(***************************************************************************)
EXTENDS IngestWorker

CONSTANTS w1, w2, w3, j1, j2
=============================================================================
