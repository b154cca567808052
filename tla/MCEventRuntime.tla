--------------------------- MODULE MCEventRuntime ---------------------------
(* Small instances of EventRuntime. *)
EXTENDS EventRuntime
=============================================================================
