---------------------------- MODULE MCSockCall -----------------------------
(* SockCall with one caller, which also sets the mode, and another thread:   *)
(* callers share only the mode, which no call writes, so one caller meets    *)
(* all there is to meet.                                                     *)
EXTENDS SockCall
============================================================================
