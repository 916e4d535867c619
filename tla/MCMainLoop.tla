----------------------------- MODULE MCMainLoop -----------------------------
(* Two worker threads (a web worker and the trigger thread, say) that make *)
(* two calls each of any kind.                                             *)
EXTENDS MainLoop
=============================================================================
