---------------------------- MODULE MCTimeTracker ----------------------------
(***************************************************************************)
(* Instances of TimeTracker for TLC.                                       *)
(***************************************************************************)
EXTENDS TimeTracker

\* Uninitialised memory without the magic; the rest is as bad as it can be.
MCGarbage ==
  {[magic |-> FALSE, active_session |-> 0,
    tracking_entries |-> [s \in Sessions |->
      [time |-> 0, tracking_work |-> TRUE, tracking_meetings |-> TRUE,
       medium_threshold_reached |-> TRUE, long_threshold_reached |-> FALSE]],
    medium_threshold |-> 0, long_threshold |-> 0]}
=============================================================================
