----------------------------- MODULE MCRatchet -----------------------------
(* Instances of RatchetChannel. *)
EXTENDS RatchetChannel
=============================================================================
