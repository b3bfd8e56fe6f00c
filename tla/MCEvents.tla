----------------------------- MODULE MCEvents -------------------------------
(* A small instance of Events for TLC. *)
EXTENDS Events

CONSTANTS ct1, ct2, daemon, monitor, dump1

\* The daemon relies on redelivery; the monitor has set no option.
MCGroups == [l \in {daemon, monitor} |->
               IF l = daemon THEN {"update", "destroy", "exp_new"} ELSE {"new", "destroy"}]
MCOptions == [l \in {daemon, monitor} |-> IF l = daemon THEN SocketOptions ELSE {}]
\* So that the monitor reads an error and has still a message to read.
MCQueueLen == [l \in {daemon, monitor} |-> IF l = daemon THEN 1 ELSE 2]
MCFamily == [c \in Cts |-> IF c = ct2 THEN 10 ELSE 2]
=============================================================================
