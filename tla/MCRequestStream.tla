-------------------------- MODULE MCRequestStream --------------------------
(* Constants of the model-checking runs of RequestStream. *)
EXTENDS RequestStream
CONSTANTS root, browse
=============================================================================
