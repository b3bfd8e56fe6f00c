------------------------------- MODULE MCCli --------------------------------
(* A small instance of Cli for TLC. *)
EXTENDS Cli, TLC

Keep == [f \in Flags |-> -1]

\* Tracking and export are enabled together, export is disabled, the zone filter
\* is disabled, and nothing is changed.
MCAsks ==
  {[Keep EXCEPT !["tcp_track"] = 1, !["export_tcp_track"] = 1],
   [Keep EXCEPT !["export_tcp_track"] = 0], [Keep EXCEPT !["zone_filter"] = 0], Keep}

\* Commands are interchangeable.
Symmetry == Permutations(Cmds)
=============================================================================
