----------------------------- MODULE MCStreams -----------------------------
(* A turn sent to one provider, by itself. *)
EXTENDS Streams
=============================================================================
