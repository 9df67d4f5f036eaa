---------------------------- MODULE MCPowerScreen ----------------------------
(***************************************************************************)
(* Instances of PowerScreen for TLC: a video's lock, one of a notification *)
(* that lights the screen, and one whose release counts as user activity.  *)
(***************************************************************************)
EXTENDS PowerScreen

NormalLock == [level |-> "bright", wakes |-> FALSE, after |-> FALSE]
TwoLocks == {"video", "note"}
TwoFlags ==
  [l \in TwoLocks |-> IF l = "video" THEN NormalLock
                      ELSE [level |-> "dim", wakes |-> TRUE, after |-> TRUE]]
NormalLocks == {"video", "map"}
NormalFlags == [l \in NormalLocks |-> NormalLock]
=============================================================================
