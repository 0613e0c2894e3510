------------------------------ MODULE MCOutbox ------------------------------
(* The model-checking instance of Outbox.  It declares no symmetry, since  *)
(* its runs check liveness too.                                            *)
EXTENDS Outbox
=============================================================================
