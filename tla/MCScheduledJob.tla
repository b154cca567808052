--------------------------- MODULE MCScheduledJob ---------------------------
(* Instances of ScheduledJob for TLC. *)
EXTENDS ScheduledJob
=============================================================================
