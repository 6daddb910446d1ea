---------------------------- MODULE MCBufferPool ----------------------------
(***************************************************************************)
(* A small instance of BufferPool for TLC. Two threads and two buffers are *)
(* enough for a head word to come back while the stack under it differs:   *)
(* one thread loads, the other takes both buffers and returns the first.   *)
(***************************************************************************)
EXTENDS BufferPool
=============================================================================
