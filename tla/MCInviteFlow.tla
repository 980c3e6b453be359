---------------------------- MODULE MCInviteFlow ----------------------------
(* InviteFlow for TLC: some profiles are on the free tier, the others on a *)
(* tier whose invites_per_week axis is -1.                                 *)
EXTENDS InviteFlow, TLC

CONSTANTS PremiumProfiles

MCAxis == [p \in Profiles |-> IF p \in PremiumProfiles THEN -1 ELSE FreeQuota]
InviteSymmetry == Permutations(InviteIds)
=============================================================================
