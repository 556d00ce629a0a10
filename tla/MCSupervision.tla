---------------------------- MODULE MCSupervision ----------------------------
(* The mirror kernel and the state machine. *)
EXTENDS Supervision
=============================================================================
