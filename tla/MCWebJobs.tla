------------------------------ MODULE MCWebJobs ------------------------------
(* Instances of WebJobs for TLC: see the configurations WebJobs_*.cfg.        *)
EXTENDS WebJobs
==============================================================================
