----------------------------- MODULE MCAiCredits -----------------------------
(* Small instances of AiCredits for TLC. *)
EXTENDS AiCredits, TLC

MCCost == [c \in AllCommands |-> IF c = "mockup" THEN 2 ELSE 1]

HandlerSymmetry == Permutations(Handlers)
=============================================================================
