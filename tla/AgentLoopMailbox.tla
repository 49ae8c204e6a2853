-------------------------- MODULE AgentLoopMailbox ---------------------------
(* AgentLoop implements Mailbox: the messages waiting on a channel are the *)
(* ones the loop has drained and not yet emitted, then the queue.          *)
EXTENDS AgentLoop

(* The places of a channel's messages in a list. *)
Places(ms, c) == {i \in DOMAIN ms : ms[i].role = "user" /\ ms[i].chan = c}

(* The place of the k-th of them, first as a set of one place. *)
Nth(ms, c, k) ==
  {i \in Places(ms, c) : Cardinality({j \in Places(ms, c) : j <= i}) = k}
PlaceOf(ms, c, k) == CHOOSE i \in Nth(ms, c, k) : TRUE

(* Their numbers, in the order of the list. *)
Numbers(ms, c) ==
  [k \in 1..Cardinality(Places(ms, c)) |-> ms[PlaceOf(ms, c, k)].n]

Waiting == [c \in Channels |->
  Numbers(pending \o (IF c \in Queues THEN queue[c] ELSE <<>>), c)]

Delivered == [c \in Channels |-> Numbers(log, c)]

Promise == INSTANCE Mailbox
  WITH waiting <- Waiting, delivered <- Delivered, MaxBatch <- MaxPromptBatch

(* Draining, aborting, failing callbacks and new runs lose no message and *)
(* reorder none: only the clear methods take messages away, and only ones *)
(* the loop has not drained.                                              *)
KeepsPromise == Promise!Spec

(* The loop itself loses no message: as long as no listener throws, what was *)
(* sent and is neither waiting nor delivered was taken back by the caller.   *)
Outstanding(c) == Len(Waiting[c]) + Len(Delivered[c])
LosesNothing ==
  [][ \A c \in Channels :
        Outstanding(c)' < Outstanding(c) => UNCHANGED <<pc, pending>> ]_vars
=============================================================================
