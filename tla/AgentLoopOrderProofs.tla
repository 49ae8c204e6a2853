------------------------ MODULE AgentLoopOrderProofs -------------------------
(***************************************************************************)
(* Every channel of AgentLoop delivers its messages in the order they were *)
(* sent, each at most once.  The invariant below orders the whole way of a *)
(* message: the log, then what the loop has drained, then the queue, then  *)
(* the numbers not yet given.                                              *)
(***************************************************************************)
EXTENDS AgentLoopProofs

SameChannel(a, b) == a.role = "user" /\ b.role = "user" /\ a.chan = b.chan

Ordered(s) ==
  \A i, j \in DOMAIN s : i < j /\ SameChannel(s[i], s[j]) => s[i].n < s[j].n

Before(s, t) ==
  \A i \in DOMAIN s, j \in DOMAIN t : SameChannel(s[i], t[j]) => s[i].n < t[j].n

Given(s) == \A i \in DOMAIN s : s[i].role = "user" => s[i].n <= sent[s[i].chan]

DrainedOrder == Ordered(log) /\ Ordered(pending) /\ Before(log, pending)
                /\ Given(log) /\ Given(pending)

QueueOrder(c) ==
  /\ Ordered(queue[c]) /\ Before(log, queue[c]) /\ Before(pending, queue[c])
  /\ Given(queue[c])
  /\ \A i \in DOMAIN queue[c] : queue[c][i].chan = c

OrderInv == DrainedOrder /\ \A c \in Queues : QueueOrder(c)

-----------------------------------------------------------------------------
(* A list with one more message at its end. *)
LEMMA Extended ==
  ASSUME NEW S, NEW s \in Seq(S), NEW m \in S
  PROVE  /\ DOMAIN (s \o <<m>>) = 1..(Len(s) + 1) /\ DOMAIN s = 1..Len(s)
         /\ Len(s) \in Nat
         /\ \A i \in 1..Len(s) : (s \o <<m>>)[i] = s[i]
         /\ (s \o <<m>>)[Len(s) + 1] = m
<1>1. <<m>> \in Seq(S) /\ Len(<<m>>) = 1 /\ <<m>>[1] = m
  OBVIOUS
<1>2. Len(s) \in Nat
  BY LenProperties
<1>3. /\ s \o <<m>> \in Seq(S) /\ Len(s \o <<m>>) = Len(s) + 1
      /\ \A i \in 1..(Len(s) + 1) : (s \o <<m>>)[i] =
                    IF i <= Len(s) THEN s[i] ELSE <<m>>[i - Len(s)]
  BY <1>1, ConcatProperties
<1>4. DOMAIN (s \o <<m>>) = 1..(Len(s) + 1) /\ DOMAIN s = 1..Len(s)
  BY <1>3, LenProperties
<1>5. \A i \in 1..Len(s) : (s \o <<m>>)[i] = s[i]
  BY <1>2, <1>3
<1>6. (s \o <<m>>)[Len(s) + 1] = m
  BY <1>1, <1>2, <1>3
<1> QED
  BY <1>2, <1>4, <1>5, <1>6

(* A list without its first message. *)
LEMMA Shortened ==
  ASSUME NEW S, NEW s \in Seq(S), s # <<>>
  PROVE  /\ DOMAIN s = 1..Len(s) /\ Len(s) \in Nat /\ Len(s) > 0
         /\ DOMAIN Tail(s) = 1..(Len(s) - 1) /\ Head(s) = s[1]
         /\ \A i \in 1..(Len(s) - 1) : Tail(s)[i] = s[i + 1]
<1>1. Len(s) \in Nat \ {0} /\ DOMAIN s = 1..Len(s)
  BY EmptySeq, LenProperties
<1>2. /\ Tail(s) \in Seq(S) /\ Len(Tail(s)) = Len(s) - 1
      /\ \A i \in 1..Len(Tail(s)) : Tail(s)[i] = s[i + 1]
  BY HeadTailProperties
<1>3. DOMAIN Tail(s) = 1..(Len(s) - 1)
  BY <1>2, LenProperties
<1> QED
  BY <1>1, <1>2, <1>3

(* A message that goes behind another in one list does so in its tail. *)
LEMMA TailOrder ==
  ASSUME NEW s \in Seq(UserMessages), s # <<>>, Ordered(s)
  PROVE  /\ Ordered(Tail(s))
         /\ Before(<<Head(s)>>, Tail(s))
         /\ \A t : Before(t, s) => Before(t, Tail(s)) /\ Before(t, <<Head(s)>>)
         /\ \A t : Before(s, t) => Before(Tail(s), t) /\ Before(<<Head(s)>>, t)
         /\ Given(s) => Given(Tail(s)) /\ Given(<<Head(s)>>)
<1>0. DOMAIN <<Head(s)>> = {1} /\ <<Head(s)>>[1] = Head(s)
  OBVIOUS
<1> DEFINE n == Len(s)
<1>1. /\ DOMAIN s = 1..n /\ n \in Nat /\ n > 0
      /\ DOMAIN Tail(s) = 1..(n - 1) /\ Head(s) = s[1]
      /\ \A i \in 1..(n - 1) : Tail(s)[i] = s[i + 1]
  BY Shortened
<1> HIDE DEF n
<1>2. Ordered(Tail(s))
  BY <1>1 DEF Ordered
<1>3. Before(<<Head(s)>>, Tail(s))
  BY <1>0, <1>1 DEF Ordered, Before
<1>4. \A t : Before(t, s) => Before(t, Tail(s)) /\ Before(t, <<Head(s)>>)
  BY <1>0, <1>1 DEF Before
<1>5. \A t : Before(s, t) => Before(Tail(s), t) /\ Before(<<Head(s)>>, t)
  BY <1>0, <1>1 DEF Before
<1>6. Given(s) => Given(Tail(s)) /\ Given(<<Head(s)>>)
  BY <1>0, <1>1 DEF Given
<1> QED
  BY <1>2, <1>3, <1>4, <1>5, <1>6

(* A line that nothing waits in. *)
LEMMA EmptyOrder ==
  /\ Ordered(<<>>) /\ Given(<<>>)
  /\ \A t : Before(<<>>, t) /\ Before(t, <<>>)
BY DEF Ordered, Before, Given

(* Adding one message to a list it comes after. *)
LEMMA EmitOrder ==
  ASSUME NEW s \in Seq(Messages), NEW m \in Messages
  PROVE  /\ Ordered(s) /\ Before(s, <<m>>) => Ordered(s \o <<m>>)
         /\ \A t : Before(s, t) /\ Before(<<m>>, t) => Before(s \o <<m>>, t)
         /\ \A t : Before(t, s) /\ Before(t, <<m>>) => Before(t, s \o <<m>>)
         /\ Given(s) /\ Given(<<m>>) => Given(s \o <<m>>)
<1> DEFINE n == Len(s)
           e == s \o <<m>>
<1>1. /\ DOMAIN e = 1..(n + 1) /\ DOMAIN s = 1..n /\ n \in Nat
      /\ \A i \in 1..n : e[i] = s[i]
      /\ e[n + 1] = m
  BY Extended
<1>2. DOMAIN <<m>> = {1} /\ <<m>>[1] = m
  OBVIOUS
<1> HIDE DEF n, e
<1>3. Ordered(s) /\ Before(s, <<m>>) => Ordered(e)
  <2> SUFFICES ASSUME Ordered(s), Before(s, <<m>>),
                      NEW i \in DOMAIN e, NEW j \in DOMAIN e,
                      i < j, SameChannel(e[i], e[j])
               PROVE  e[i].n < e[j].n
    BY DEF Ordered
  <2>1. i \in 1..n
    BY <1>1
  <2>2. CASE j \in 1..n
    BY <1>1, <2>1, <2>2 DEF Ordered
  <2>3. CASE j = n + 1
    BY <1>1, <1>2, <2>1, <2>3 DEF Before
  <2> QED
    BY <1>1, <2>2, <2>3
<1>4. \A t : Before(s, t) /\ Before(<<m>>, t) => Before(e, t)
  BY <1>1, <1>2 DEF Before
<1>5. \A t : Before(t, s) /\ Before(t, <<m>>) => Before(t, e)
  BY <1>1, <1>2 DEF Before
<1>6. Given(s) /\ Given(<<m>>) => Given(e)
  BY <1>1, <1>2 DEF Given
<1> QED
  BY <1>3, <1>4, <1>5, <1>6 DEF e

(* Only user messages are ordered. *)
LEMMA OtherMessages ==
  ASSUME NEW m, m.role # "user"
  PROVE  Given(<<m>>) /\ \A t : Before(<<m>>, t) /\ Before(t, <<m>>)
<1>1. DOMAIN <<m>> = {1} /\ <<m>>[1] = m
  OBVIOUS
<1> QED
  BY <1>1 DEF Before, Given, SameChannel

(* A user message of any list is one that was sent. *)
LEMMA UserOf ==
  ASSUME NEW m \in Messages, m.role = "user"
  PROVE  m \in UserMessages /\ m.n \in Nat /\ m.chan \in Channels
BY DEF Messages, UserMessages, AssistantMessages, ResultMessages

(* The user messages of a state are numbered. *)
LEMMA UsersSent ==
  ASSUME TypeOK
  PROVE  /\ \A i \in DOMAIN log : log[i].role = "user" =>
              log[i].n \in Nat /\ log[i].chan \in Channels
         /\ \A i \in DOMAIN pending : pending[i].n \in Nat /\ pending[i].chan \in Channels
         /\ \A d \in Queues : \A i \in DOMAIN queue[d] :
              queue[d][i].n \in Nat /\ queue[d][i].role = "user"
<1>1. \A i \in DOMAIN log : log[i] \in Messages
  BY LenProperties DEF TypeOK
<1>2. \A i \in DOMAIN pending : pending[i] \in UserMessages
  BY LenProperties DEF TypeOK
<1>3. \A d \in Queues : \A i \in DOMAIN queue[d] : queue[d][i] \in UserMessages
  BY LenProperties DEF TypeOK
<1>4. \A m \in UserMessages : m.n \in Nat /\ m.chan \in Channels /\ m.role = "user"
  BY DEF UserMessages
<1> QED
  BY <1>1, <1>2, <1>3, <1>4, UserOf

-----------------------------------------------------------------------------
(* No message has been sent at first. *)
LEMMA OrderInit == Init => OrderInv
<1> SUFFICES ASSUME Init PROVE OrderInv
  OBVIOUS
<1>1. log = <<>> /\ pending = <<>> /\ \A c \in Queues : queue[c] = <<>>
  BY DEF Init
<1>2. \A c \in Queues : \A i \in DOMAIN queue[c] : queue[c][i].chan = c
  BY <1>1
<1> QED
  BY <1>1, <1>2, EmptyOrder DEF OrderInv, DrainedOrder, QueueOrder

(* Steps that deliver, drain and send nothing. *)
LEMMA OrderFrame ==
  ASSUME OrderInv, UNCHANGED <<log, queue, sent>>, pending' = pending \/ pending' = <<>>
  PROVE  OrderInv'
<1>1. log' = log /\ queue' = queue /\ sent' = sent
  OBVIOUS
<1>2. CASE pending' = pending
  BY <1>1, <1>2 DEF OrderInv, DrainedOrder, QueueOrder, Ordered, Before, Given
<1>3. CASE pending' = <<>>
  <2>1. Ordered(pending)' /\ Given(pending)'
    BY <1>3 DEF Ordered, Given
  <2>2. \A t : Before(t, pending') /\ Before(pending', t)
    BY <1>3, EmptyOrder
  <2>3. DrainedOrder'
    BY <1>1, <2>1, <2>2 DEF OrderInv, DrainedOrder, Ordered, Before, Given
  <2>4. \A c \in Queues : QueueOrder(c)'
    BY <1>1, <2>2 DEF OrderInv, QueueOrder, Ordered, Before, Given
  <2> QED
    BY <2>3, <2>4 DEF OrderInv
<1> QED
  BY <1>2, <1>3

(* Draining moves the head of a queue, or all of it, in front of the rest. *)
LEMMA OrderDrain ==
  ASSUME TypeOK, OrderInv, NEW c \in Queues, Drain(c), UNCHANGED <<log, sent>>
  PROVE  OrderInv'
<1>0. log' = log /\ sent' = sent /\ pending' = Drained(c)
  BY DEF Drain
<1>1. /\ queue'[c] = Left(c)
      /\ \A d \in Queues : d # c => queue'[d] = queue[d]
  BY DEF Drain, TypeOK
<1>2. queue[c] \in Seq(UserMessages)
  BY DEF TypeOK
<1>3. QueueOrder(c) /\ Before(log, queue[c])
  BY DEF OrderInv, QueueOrder
<1>4. /\ Ordered(Drained(c)) /\ Before(log, Drained(c)) /\ Given(Drained(c))
      /\ Ordered(Left(c)) /\ Before(log, Left(c)) /\ Given(Left(c))
      /\ Before(Drained(c), Left(c))
      /\ \A i \in DOMAIN Drained(c) : Drained(c)[i].chan = c
      /\ \A i \in DOMAIN Left(c) : Left(c)[i].chan = c
  <2>1. CASE DrainsAll(c)
    <3>1. Drained(c) = queue[c] /\ Left(c) = <<>>
      BY <2>1 DEF Drained, Left
    <3>2. \A i \in DOMAIN Left(c) : Left(c)[i].chan = c
      BY <3>1
    <3> QED
      BY <1>3, <3>1, <3>2, EmptyOrder DEF QueueOrder
  <2>2. CASE ~DrainsAll(c)
    <3>1. queue[c] # <<>>
      BY <2>2 DEF DrainsAll
    <3>2. Drained(c) = <<Head(queue[c])>> /\ Left(c) = Tail(queue[c])
      BY <2>2 DEF Drained, Left
    <3>3. /\ Ordered(Left(c)) /\ Before(Drained(c), Left(c))
          /\ Before(log, Left(c)) /\ Before(log, Drained(c))
          /\ Given(Left(c)) /\ Given(Drained(c))
      BY <1>2, <1>3, <3>1, <3>2, TailOrder DEF QueueOrder
    <3>4. DOMAIN Drained(c) = {1} /\ Drained(c)[1] = Head(queue[c])
      BY <3>2
    <3>5. Ordered(Drained(c))
      BY <3>4 DEF Ordered
    <3>6. /\ \A i \in DOMAIN Drained(c) : Drained(c)[i].chan = c
          /\ \A i \in DOMAIN Left(c) : Left(c)[i].chan = c
      BY <1>2, <1>3, <3>1, <3>2, <3>4, Shortened DEF QueueOrder
    <3> QED
      BY <3>3, <3>5, <3>6
  <2> QED
    BY <2>1, <2>2
<1>5. \A d \in Queues : d # c => Before(Drained(c), queue[d])
  BY <1>4 DEF OrderInv, QueueOrder, Before, SameChannel
<1>6. DrainedOrder'
  BY <1>0, <1>4 DEF OrderInv, DrainedOrder, Ordered, Before, Given
<1>7. ASSUME NEW d \in Queues
      PROVE  QueueOrder(d)'
  <2>1. CASE d = c
    BY <1>0, <1>1, <1>4, <2>1 DEF QueueOrder, Ordered, Before, Given
  <2>2. CASE d # c
    <3>1. QueueOrder(d) /\ queue'[d] = queue[d] /\ Before(pending', queue[d])
      BY <1>0, <1>1, <1>5, <2>2 DEF OrderInv
    <3> QED
      BY <1>0, <3>1 DEF QueueOrder, Ordered, Before, Given
  <2> QED
    BY <2>1, <2>2
<1> QED
  BY <1>6, <1>7 DEF OrderInv

(* Delivering the first of the drained messages. *)
LEMMA OrderDeliver ==
  ASSUME TypeOK, OrderInv, pending # <<>>, Emit(<<Head(pending)>>),
         pending' = Tail(pending), UNCHANGED <<queue, sent>>
  PROVE  OrderInv'
<1> DEFINE h == Head(pending)
<1>0. /\ log' = log \o <<h>> /\ queue' = queue /\ sent' = sent
      /\ pending \in Seq(UserMessages) /\ log \in Seq(Messages)
  BY DEF Emit, TypeOK
<1>1. h \in Messages
  BY <1>0, HeadTailProperties DEF Messages
<1>2. DrainedOrder /\ Ordered(pending)
  BY DEF OrderInv, DrainedOrder
<1>3. /\ Ordered(Tail(pending)) /\ Given(Tail(pending)) /\ Given(<<h>>)
      /\ Before(log, Tail(pending)) /\ Before(log, <<h>>) /\ Before(<<h>>, Tail(pending))
  BY <1>0, <1>2, TailOrder DEF DrainedOrder
<1>4. \A c \in Queues : Before(<<h>>, queue[c]) /\ Before(Tail(pending), queue[c])
  BY <1>0, <1>2, TailOrder DEF OrderInv, QueueOrder
<1> HIDE DEF h
<1>5. Ordered(log') /\ Before(log', Tail(pending)) /\ Given(log')
  BY <1>0, <1>1, <1>2, <1>3, EmitOrder DEF DrainedOrder
<1>6. \A c \in Queues : Before(log', queue[c])
  BY <1>0, <1>1, <1>4, EmitOrder DEF OrderInv, QueueOrder
<1>7. DrainedOrder'
  BY <1>0, <1>3, <1>5 DEF DrainedOrder, Ordered, Before, Given
<1>8. \A c \in Queues : QueueOrder(c)'
  BY <1>0, <1>4, <1>6 DEF OrderInv, QueueOrder, Ordered, Before, Given
<1> QED
  BY <1>7, <1>8 DEF OrderInv

(* Answers and tool results do not disturb the order of user messages. *)
LEMMA OrderEmitOther ==
  ASSUME TypeOK, OrderInv, NEW m \in Messages, m.role # "user", Emit(<<m>>),
         UNCHANGED <<pending, queue, sent>>
  PROVE  OrderInv'
<1>0. /\ log' = log \o <<m>> /\ pending' = pending /\ queue' = queue /\ sent' = sent
      /\ log \in Seq(Messages)
  BY DEF Emit, TypeOK
<1>1. Given(<<m>>) /\ \A t : Before(<<m>>, t) /\ Before(t, <<m>>)
  BY OtherMessages
<1>2. Ordered(log') /\ Before(log', pending) /\ Given(log')
  BY <1>0, <1>1, EmitOrder DEF OrderInv, DrainedOrder
<1>3. \A c \in Queues : Before(log', queue[c])
  BY <1>0, <1>1, EmitOrder DEF OrderInv, QueueOrder
<1>4. DrainedOrder'
  BY <1>0, <1>2 DEF OrderInv, DrainedOrder, Ordered, Before, Given
<1>5. \A c \in Queues : QueueOrder(c)'
  BY <1>0, <1>3 DEF OrderInv, QueueOrder, Ordered, Before, Given
<1> QED
  BY <1>4, <1>5 DEF OrderInv

(* Callers append to a queue, or empty it. *)
LEMMA OrderCaller ==
  ASSUME TypeOK, OrderInv, Caller
  PROVE  OrderInv'
<1> USE DEF queueVars, copies
<1>1. ASSUME NEW k \in 1..MaxPromptBatch, Prompt(k)
      PROVE  OrderInv'
  <2>0. k \in Nat /\ sent["prompt"] \in Nat /\ "prompt" \in Channels
    BY ConstantsAssumption DEF TypeOK, Channels
  <2>1. /\ pending' = [i \in 1..k |-> User("prompt", sent["prompt"] + i)]
        /\ sent' = [sent EXCEPT !["prompt"] = sent["prompt"] + k]
        /\ log' = log /\ queue' = queue
    BY <1>1 DEF Prompt, BeginRun
  <2>2. /\ DOMAIN pending' = 1..k
        /\ \A i \in 1..k : /\ pending'[i].role = "user" /\ pending'[i].chan = "prompt"
                           /\ pending'[i].n = sent["prompt"] + i
    BY <2>1 DEF User
  <2>3. sent'["prompt"] = sent["prompt"] + k /\ \A c \in Queues : sent'[c] = sent[c]
    BY <2>0, <2>1 DEF TypeOK, Channels, Queues
  <2>4. Ordered(pending)' /\ Given(pending)'
    BY <2>0, <2>2, <2>3 DEF Ordered, Given
  <2>5. \A i \in DOMAIN log : log[i].role = "user" =>
          log[i].n \in Nat /\ log[i].chan \in Channels
    BY UsersSent
  <2>6. Before(log, pending)' /\ Given(log)'
    BY <2>0, <2>1, <2>2, <2>3, <2>5
       DEF OrderInv, DrainedOrder, Before, Given, SameChannel, Channels
  <2>7. DrainedOrder'
    BY <2>1, <2>4, <2>6 DEF OrderInv, DrainedOrder, Ordered
  <2>8. ASSUME NEW c \in Queues
        PROVE  QueueOrder(c)'
    <3>1. Before(pending, queue[c])'
      BY <2>1, <2>2 DEF OrderInv, QueueOrder, Before, SameChannel, Queues
    <3>2. Given(queue[c])'
      BY <2>1, <2>3 DEF OrderInv, QueueOrder, Given, Queues
    <3> QED
      BY <2>1, <3>1, <3>2 DEF OrderInv, QueueOrder, Ordered, Before
  <2> QED
    BY <2>7, <2>8 DEF OrderInv
<1>2. ASSUME NEW c \in Queues, ContinueQueued(c)
      PROVE  OrderInv'
  BY <1>2, OrderDrain DEF ContinueQueued, BeginRun
<1>3. CASE ContinueTranscript
  BY <1>3, OrderFrame DEF ContinueTranscript, BeginRun
<1>4. ASSUME NEW c \in Queues, Enqueue(c)
      PROVE  OrderInv'
  <2> DEFINE m == User(c, sent[c] + 1)
  <2>0. c \in Channels /\ sent[c] \in Nat /\ queue[c] \in Seq(UserMessages)
    BY DEF TypeOK, Channels
  <2>1. /\ log' = log /\ pending' = pending
        /\ sent' = [sent EXCEPT ![c] = sent[c] + 1]
        /\ queue' = [queue EXCEPT ![c] = Append(queue[c], m)]
    BY <1>4 DEF Enqueue
  <2>2. sent'[c] = sent[c] + 1 /\ \A d \in Channels : d # c => sent'[d] = sent[d]
    BY <2>0, <2>1 DEF TypeOK
  <2>3. /\ m \in UserMessages /\ m.role = "user" /\ m.chan = c /\ m.n = sent[c] + 1
    BY <2>0 DEF User, UserMessages
  <2>4. queue'[c] = queue[c] \o <<m>> /\ \A d \in Queues : d # c => queue'[d] = queue[d]
    BY <2>0, <2>1, <2>3, AppendIsConcat DEF TypeOK
  <2> HIDE DEF m
  <2>5. /\ \A i \in DOMAIN log : log[i].role = "user" =>
             log[i].n \in Nat /\ log[i].chan \in Channels
        /\ \A i \in DOMAIN pending : pending[i].n \in Nat /\ pending[i].chan \in Channels
        /\ \A d \in Queues : \A i \in DOMAIN queue[d] :
             queue[d][i].n \in Nat /\ queue[d][i].role = "user"
    BY UsersSent
  <2>6. Before(log, <<m>>) /\ Before(pending, <<m>>) /\ Before(queue[c], <<m>>)
    <3>1. DOMAIN <<m>> = {1} /\ <<m>>[1] = m
      OBVIOUS
    <3>2. /\ \A i \in DOMAIN log : SameChannel(log[i], m) => log[i].n <= sent[c]
          /\ \A i \in DOMAIN pending : SameChannel(pending[i], m) => pending[i].n <= sent[c]
          /\ \A i \in DOMAIN queue[c] : SameChannel(queue[c][i], m) => queue[c][i].n <= sent[c]
      BY <2>3 DEF OrderInv, DrainedOrder, QueueOrder, Given, SameChannel
    <3> QED
      BY <2>0, <2>3, <2>5, <3>1, <3>2 DEF Before, SameChannel
  <2>7. m \in Messages /\ queue[c] \in Seq(Messages)
    BY <2>0, <2>3, UsersAreMessages DEF Messages
  <2>8. /\ Given(log)' /\ Given(pending)'
        /\ \A d \in Queues : d # c => Given(queue[d])'
    BY <2>0, <2>1, <2>2, <2>4, <2>5 DEF OrderInv, DrainedOrder, QueueOrder, Given, Channels
  <2>9. Given(queue[c])'
    <3>1. \A i \in DOMAIN queue[c] : queue[c][i].n <= sent[c] /\ queue[c][i].chan = c
      BY <2>5 DEF OrderInv, QueueOrder, Given
    <3> QED
      BY <2>0, <2>2, <2>3, <2>4, <2>5, <2>7, <3>1, Extended DEF Given
  <2>10. DrainedOrder'
    BY <2>1, <2>8 DEF OrderInv, DrainedOrder, Ordered, Before
  <2>11. QueueOrder(c)'
    <3>1. /\ Ordered(queue[c] \o <<m>>) /\ Before(log, queue[c] \o <<m>>)
          /\ Before(pending, queue[c] \o <<m>>)
      BY <2>6, <2>7, EmitOrder DEF OrderInv, QueueOrder
    <3>2. \A i \in DOMAIN queue'[c] : queue'[c][i].chan = c
      BY <2>3, <2>4, <2>7, Extended DEF OrderInv, QueueOrder
    <3> QED
      BY <2>1, <2>4, <2>9, <3>1, <3>2 DEF QueueOrder, Ordered, Before
  <2>12. ASSUME NEW d \in Queues, d # c
         PROVE  QueueOrder(d)'
    BY <2>1, <2>4, <2>8, <2>12 DEF OrderInv, QueueOrder, Ordered, Before
  <2> QED
    BY <2>10, <2>11, <2>12 DEF OrderInv
<1>5. ASSUME NEW cs \in SUBSET Queues, Clear(cs) \/ (Reset /\ cs = Queues)
      PROVE  OrderInv'
  <2>1. /\ log' = log /\ pending' = pending /\ sent' = sent
        /\ \A c \in Queues : queue'[c] = <<>> \/ queue'[c] = queue[c]
    BY <1>5 DEF Clear, Reset
  <2>2. DrainedOrder'
    BY <2>1 DEF OrderInv, DrainedOrder, Ordered, Before, Given
  <2>3. ASSUME NEW c \in Queues
        PROVE  QueueOrder(c)'
    <3>1. CASE queue'[c] = queue[c]
      BY <2>1, <3>1 DEF OrderInv, QueueOrder, Ordered, Before, Given
    <3>2. CASE queue'[c] = <<>>
      BY <3>2 DEF QueueOrder, Ordered, Before, Given
    <3> QED
      BY <2>1, <3>1, <3>2
  <2> QED
    BY <2>2, <2>3 DEF OrderInv
<1>6. ASSUME NEW c \in Queues, NEW m \in QueueModes, SetMode(c, m)
      PROVE  OrderInv'
  BY <1>6, OrderFrame DEF SetMode
<1>7. CASE Abort
  BY <1>7, OrderFrame DEF Abort
<1>8. CASE DropFailure
  BY <1>8, OrderFrame DEF DropFailure
<1> QED
  BY <1>1, <1>2, <1>3, <1>4, <1>5, <1>6, <1>7, <1>8 DEF Caller

(* The loop moves what it drains and emits along its line. *)
LEMMA OrderLoop ==
  ASSUME TypeInv, OrderInv, Loop
  PROVE  OrderInv'
<1> USE DEF queueVars, copies, TypeInv
<1>1. CASE Announce
  BY <1>1, OrderDeliver DEF Announce
<1>2. CASE InitialPoll
  BY <1>2, OrderDrain, OrderFrame DEF InitialPoll, Queues
<1>3. CASE Inject
  BY <1>3, OrderDeliver DEF Inject
<1>4. CASE Request
  BY <1>4, OrderFrame DEF Request
<1>5. ASSUME NEW s \in Stops, NEW k \in 0..MaxCalls, Respond(s, k)
      PROVE  OrderInv'
  <2> DEFINE m == Assistant(turns + 1, s, k)
  <2>1. k \in Nat /\ turns + 1 \in Nat
    BY ConstantsAssumption DEF TypeOK
  <2>2. m \in Messages /\ m.role # "user"
    BY <2>1, AssistantType DEF Assistant
  <2>3. Emit(<<m>>) /\ UNCHANGED <<pending, queue, sent>>
    BY <1>5 DEF Respond
  <2> QED
    BY <2>2, <2>3, OrderEmitOther
<1>6. ASSUME NEW i \in DOMAIN calls, StartCall(i) \/ RefuseCall(i) \/ AdmitCall(i)
      PROVE  OrderInv'
  BY <1>6, OrderFrame DEF StartCall, RefuseCall, AdmitCall
<1>7. CASE LaunchCalls
  BY <1>7, OrderFrame DEF LaunchCalls
<1>8. ASSUME NEW i \in DOMAIN calls, NEW o \in {"ok", "terminate"}, CompleteCall(i, o)
      PROVE  OrderInv'
  BY <1>8, OrderFrame DEF CompleteCall
<1>9. CASE RecordResult
  <2> DEFINE i == recorded + 1
             m == Result(turns, i, calls[i])
  <2>1. i \in Nat /\ calls[i] \in Outcomes /\ turns \in Nat
    BY <1>9 DEF RecordResult, InState, TypeOK
  <2>2. m \in Messages /\ m.role # "user"
    BY <2>1, ResultType DEF Result
  <2>3. Emit(<<m>>) /\ UNCHANGED <<pending, queue, sent>>
    BY <1>9 DEF RecordResult
  <2> QED
    BY <2>2, <2>3, OrderEmitOther
<1>10. CASE EndBatch
  BY <1>10, OrderFrame DEF EndBatch
<1>11. CASE PollSteering \/ PollFollowUp
  BY <1>11, OrderDrain DEF PollSteering, PollFollowUp, Queues
<1>12. CASE FailRun
  <2>1. \E s \in Stops : Emit(<<Assistant(turns + 1, s, 0)>>)
    BY <1>12 DEF FailRun, Stops
  <2>2. PICK s \in Stops : Emit(<<Assistant(turns + 1, s, 0)>>)
    BY <2>1
  <2>3. Assistant(turns + 1, s, 0) \in Messages /\ Assistant(turns + 1, s, 0).role # "user"
    BY AssistantType DEF Assistant, TypeOK
  <2> QED
    BY <1>12, <2>2, <2>3, OrderEmitOther DEF FailRun
<1>13. CASE FinishRun
  BY <1>13, OrderFrame DEF FinishRun
<1> QED
  BY <1>1, <1>2, <1>3, <1>4, <1>5, <1>6, <1>7, <1>8, <1>9, <1>10, <1>11, <1>12,
     <1>13 DEF Loop

(* Every step keeps the order. *)
LEMMA OrderStep == TypeInv /\ OrderInv /\ [Next]_vars => OrderInv'
<1> SUFFICES ASSUME TypeInv, OrderInv, [Next]_vars PROVE OrderInv'
  OBVIOUS
<1>1. TypeOK
  BY DEF TypeInv
<1>2. CASE Faults
  BY <1>2, OrderFrame
     DEF Faults, LoopFault, ListenerFault, OrphanEnds, Abandon, queueVars, copies
<1>3. CASE UNCHANGED vars
  BY <1>3, OrderFrame DEF vars, queueVars, copies
<1> QED
  BY <1>1, <1>2, <1>3, OrderCaller, OrderLoop DEF Next

(* Steering, follow-up and prompt messages each reach the transcript in the *)
(* order they were sent and never twice, whatever the drain modes, aborts,  *)
(* resets, failures and the number of runs.                                 *)
THEOREM DeliveryOrder == Spec => []DeliveredInOrder
<1>1. Spec => [](TypeInv /\ OrderInv)
  BY TypeInit, TypeStep, OrderInit, OrderStep, PTL DEF Spec
<1>2. OrderInv => DeliveredInOrder
  BY DEF OrderInv, DrainedOrder, Ordered, SameChannel, DeliveredInOrder
<1> QED
  BY <1>1, <1>2, PTL
=============================================================================
