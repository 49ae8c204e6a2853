------------------------------- MODULE Mailbox -------------------------------
(***************************************************************************)
(* What the message queues of packages/agent promise to whoever sends a    *)
(* message, without saying how: the messages of a channel are delivered    *)
(* one by one in the order they were sent.  The sender may take messages   *)
(* back as long as the agent did not take them, and takes the newest ones  *)
(* first; a message is never lost otherwise, and none comes out twice.     *)
(***************************************************************************)
EXTENDS Integers, Sequences

CONSTANTS
  Channels,
  MaxBatch  \* messages sent at once, if more than one

VARIABLES
  sent,      \* how many messages were sent on each channel
  waiting,   \* the numbers of those not yet delivered, oldest first
  delivered  \* the numbers of those delivered, in the order of delivery

vars == <<sent, waiting, delivered>>

Init ==
  /\ sent = [c \in Channels |-> 0]
  /\ waiting = [c \in Channels |-> <<>>]
  /\ delivered = [c \in Channels |-> <<>>]

Send(c, k) ==
  /\ sent' = [sent EXCEPT ![c] = @ + k]
  /\ waiting' = [waiting EXCEPT ![c] = @ \o [i \in 1..k |-> sent[c] + i]]
  /\ UNCHANGED delivered

Deliver(c) ==
  /\ waiting[c] # <<>>
  /\ delivered' = [delivered EXCEPT ![c] = Append(@, Head(waiting[c]))]
  /\ waiting' = [waiting EXCEPT ![c] = Tail(@)]
  /\ UNCHANGED sent

(* The sender takes back the newest messages of some channels. *)
Discard ==
  /\ \A c \in Channels : \E k \in 0..Len(waiting[c]) :
       waiting'[c] = SubSeq(waiting[c], 1, k)
  /\ waiting' = [c \in Channels |-> waiting'[c]]
  /\ UNCHANGED <<sent, delivered>>

Next ==
  \/ \E c \in Channels : \E k \in {1} \cup 1..MaxBatch : Send(c, k)
  \/ \E c \in Channels : Deliver(c)
  \/ Discard

Spec == Init /\ [][Next]_vars
=============================================================================
