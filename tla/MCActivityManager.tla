------------------------- MODULE MCActivityManager -------------------------
(***************************************************************************)
(* ActivityManager for TLC: enough activities for a full stack, a current  *)
(* activity and one that is to replace it.                                 *)
(***************************************************************************)
EXTENDS ActivityManager

CONSTANTS a1, a2, a3

ThreeActivities == {a1, a2, a3}

=============================================================================
