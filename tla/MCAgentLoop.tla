----------------------------- MODULE MCAgentLoop -----------------------------
(* Constants of AgentLoop that a .cfg cannot write, for TLC. *)
EXTENDS AgentLoop

Sends(p, s, f) ==
  [c \in Channels |-> CASE c = "prompt" -> p [] c = "steering" -> s [] OTHER -> f]

TwoPrompts == Sends(2, 1, 1)
TwoSteering == Sends(1, 2, 1)
NoFollowUp == Sends(1, 1, 0)
=============================================================================
