-------------------------- MODULE MCBackgroundLanes --------------------------
(* An instance of BackgroundLanes for TLC, and the assumptions about the pace of a lane. *)
EXTENDS BackgroundLanes, MCLanePacing

\* Two documents in one range, none in the other: a partition may be empty.
MCScope == [p \in {1, 2} |-> IF p = 1 THEN {1, 2} ELSE {}]
=============================================================================
