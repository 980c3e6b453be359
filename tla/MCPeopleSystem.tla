---------------------------- MODULE MCPeopleSystem ----------------------------
(* PeopleSystem for TLC: one user, two addresses, a portfolio of three; one *)
(* viewer and two profiles to show.                                        *)
EXTENDS PeopleSystem

CONSTANTS u1, c1, c2, e1, e2, p1, v1, x1, x2

\* The badge and discovery have events of their own besides; their requests
\* are fewer.
FewRequests == area \in {"badge", "discovery"} => used <= 3
Alike == Permutations(Slots) \cup Permutations(Emails) \cup Permutations(Shown)
===============================================================================
