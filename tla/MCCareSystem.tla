----------------------------- MODULE MCCareSystem -----------------------------
(* CareSystem for TLC: two users, who are the moderators too, one phone,   *)
(* two preferences; for the desk, an invite and a photo.  A tick of the    *)
(* desk's clock is a day, in which a tier 3 deadline passes at once.       *)
EXTENDS CareSystem, TLC

CONSTANTS u1, u2, q1, r1, c1, c2, ph

MCSettings == {<<"collab_nudge", "push">>, <<"marketing", "email">>}
MCDueIn    == [t \in PriorityTiers |-> IF t = "tier_3_1h" THEN 0 ELSE 1]
MCCallerOf == [s \in Subjects |-> CASE s = "message" -> "chat" [] s = "synopsis" -> "invite"
                                    [] s = "photo" -> "image" [] OTHER -> "audio_video"]
MCTextOf   == [s \in Subjects |-> IF s \in {"message", "synopsis"} THEN "words" ELSE s]

Alike == Permutations(Slots) \cup Permutations(Users)
===============================================================================
