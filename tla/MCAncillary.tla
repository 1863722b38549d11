---------------------------- MODULE MCAncillary ----------------------------
(* A small instance of Ancillary for TLC: sizes are scaled down. *)
EXTENDS Ancillary
============================================================================
