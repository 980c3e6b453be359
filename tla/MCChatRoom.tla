------------------------------ MODULE MCChatRoom ------------------------------
(* Small instances of ChatRoom for TLC. *)
EXTENDS ChatRoom, TLC

CONSTANTS a, b, c1, c2, p1, p2

\* One connection of each profile, on two pods
TwoPods   == (c1 :> p1) @@ (c2 :> p2)
OneEach   == (c1 :> a) @@ (c2 :> b)

\* Nonces, editors and texts are alike, and so are the two sides of the room.
SwapSides == (a :> b) @@ (b :> a) @@ (c1 :> c2) @@ (c2 :> c1) @@ (p1 :> p2) @@ (p2 :> p1)
Symmetry  == Permutations(Nonces) \cup Permutations(Editors) \cup Permutations(Texts)
             \cup {SwapSides}
=============================================================================
