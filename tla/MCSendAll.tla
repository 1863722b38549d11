----------------------------- MODULE MCSendAll -----------------------------
(* SendAll with one sender and another thread that sets the mode.           *)
EXTENDS SendAll
============================================================================
