-------------------------- MODULE MCSocketObjects --------------------------
(* SocketObjects on a few threads, sockets and descriptors. *)
EXTENDS SocketObjects, TLC

\* Threads, sockets and descriptors are interchangeable.  Used by the runs
\* without liveness properties only.
Symmetry == Permutations(Thread) \cup Permutations(Socket) \cup Permutations(Fd)
=============================================================================
