---------------------------- MODULE MCCopilotChat -----------------------------
(* Consoles are alike, and so are connections: only their number matters. *)
EXTENDS CopilotChat, TLC

ChatSymmetry == Permutations(Conns) \cup Permutations(Consoles)
=============================================================================
