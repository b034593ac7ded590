------------------------------- MODULE MCJobWatch -------------------------------
(* The instances of MCJobPipeline with a client that waits for a job. *)
EXTENDS JobWatch, MCJobPipeline
=============================================================================
