------------------------------ MODULE EventLog ------------------------------
(***************************************************************************)
(* What a stream promises: a log of events that grows one event at a time, *)
(* of which a prefix has been acknowledged to the callers of append.  An   *)
(* event once in the log keeps its place; only events not yet acknowledged *)
(* can be lost, and only when the machine fails.  Damage to the medium     *)
(* takes whatever it hits and everything after it.                         *)
(***************************************************************************)
EXTENDS Naturals, Sequences

CONSTANT Events

VARIABLES
    log,        \* the events an inspection would return
    acked       \* how many of them a caller has been told about

LogInit == log = << >> /\ acked = 0

Extend == \E e \in Events : log' = Append(log, e) /\ UNCHANGED acked

Acknowledge ==
    /\ acked' \in acked .. Len(log)
    /\ UNCHANGED log

\* A power failure before the data was flushed.
Lose ==
    /\ \E n \in acked .. Len(log) : log' = SubSeq(log, 1, n)
    /\ UNCHANGED acked

Spoil ==
    \E n \in 0 .. Len(log) :
        /\ log' = SubSeq(log, 1, n)
        /\ acked' = IF acked < n THEN acked ELSE n

LogNext == Extend \/ Acknowledge \/ Lose \/ Spoil

LogSpec == LogInit /\ [][LogNext]_<<log, acked>>
=============================================================================
