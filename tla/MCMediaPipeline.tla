-------------------------- MODULE MCMediaPipeline ---------------------------
(***************************************************************************)
(* MediaPipeline for TLC: the configurations differ in properties only.    *)
(***************************************************************************)
EXTENDS MediaPipeline
=============================================================================
