---------------------------- MODULE MCPlayControl ----------------------------
(* One player, with a server that forbids to submit after a pause. *)
EXTENDS PlayControl
==============================================================================
