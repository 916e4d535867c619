-------------------------- MODULE MCEngineRebuild --------------------------
(* One rebuild and one recognition result.                                 *)
EXTENDS EngineRebuild
=============================================================================
