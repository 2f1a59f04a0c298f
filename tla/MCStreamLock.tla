---------------------------- MODULE MCStreamLock ----------------------------
(* The lock of one stream for TLC, and the ways its code could be wrong.   *)
EXTENDS StreamLock
=============================================================================
