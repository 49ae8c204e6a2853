------------------------- MODULE MCAgentLoopMailbox --------------------------
(* AgentLoopMailbox for TLC. *)
EXTENDS AgentLoopMailbox, MCAgentLoop

(* Numbers picks out a channel's messages as SelectSeq does. *)
Samples == [role : {"user"}, chan : Queues, n : 1..2] \cup {Assistant(1, "stop", 0)}
ShortLists == UNION {[1..k -> Samples] : k \in 0..4}
ASSUME NumbersSelect ==
  \A ms \in ShortLists, c \in Queues :
    LET of(m) == m.role = "user" /\ m.chan = c
        mine == SelectSeq(ms, of)
    IN  Numbers(ms, c) = [i \in DOMAIN mine |-> mine[i].n]
=============================================================================
