-------------------------- MODULE MCTimelineCheck --------------------------
(***************************************************************************)
(* Manifests of up to eight lines: two durations, one that is truncated to *)
(* nothing and one that is not positive; a name without a file and a name  *)
(* that is a path.  A lap lasts from three to eight units.                 *)
(***************************************************************************)
EXTENDS TimelineCheck

MCValues == {0, 1, 10, 25}
=============================================================================
