------------------------- MODULE MCWorkspaceSystem -------------------------
(* WorkspaceSystem for TLC: two participants, two requests at a time, one  *)
(* meeting, one task, three tabs, two exports, two proposals and mockups.  *)
EXTENDS WorkspaceSystem, TLC

CONSTANTS p1, p2, c1, c2, t1, t2, t3

Alike == Permutations(Profiles) \cup Permutations(Slots) \cup Permutations(Tabs)
============================================================================
