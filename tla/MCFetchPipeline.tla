-------------------------- MODULE MCFetchPipeline --------------------------
(* Instance of FetchPipeline for TLC: two workers and an input list of     *)
(* three descriptors, one of them listed twice (spec 9: each occurrence   *)
(* is fetched on its own).                                                 *)
EXTENDS FetchPipeline, TLC

CONSTANTS u1, u2

MCInput == <<u1, u2, u1>>

=============================================================================
