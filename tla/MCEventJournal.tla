--------------------------- MODULE MCEventJournal ---------------------------
(* The journal of one stream for TLC.                                      *)
EXTENDS EventJournal
=============================================================================
