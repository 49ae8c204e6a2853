-------------------------- MODULE ChatDeliveryProofs --------------------------
(* Proofs about what becomes of a message of the chat: it is delivered at   *)
(* most once, it is not lost once its prompt was accepted, and the queue    *)
(* that is displayed is the queue there is.                                 *)
EXTENDS ChatServiceProofs, SequenceTheorems

-----------------------------------------------------------------------------
(* The inductive invariant *)

(* Where a session holds messages: <<line, number>>. *)
Lines == Channels \cup {"pending"}
Line(r, c) == IF c = "pending" THEN r.pending ELSE r.queue[c]
Places(r) == UNION {{<<c, i>> : i \in DOMAIN Line(r, c)} : c \in Lines}
Who(r, p) == Line(r, p[1])[p[2]]
In(r) == {Who(r, p) : p \in Places(r)}
Distinct(r) == \A p, q \in Places(r) : Who(r, p) = Who(r, q) => p = q

Fresh == {"unsent", "creating", "binding", "input", "preflight"}
Accepted(p) ==
  p \notin {"unsent", "creating", "binding", "input", "handled", "preflight",
            "failing", "reported"}

(* A message is in one place or none; there it has been sent and not        *)
(* delivered.                                                               *)
Once ==
  /\ \A s \in Sessions : Distinct(sess[s])
  /\ \A s, t \in Sessions : \A m \in In(sess[s]) \cap In(sess[t]) : s = t
  /\ \A s \in Sessions : \A m \in In(sess[s]) : delivered[m] = 0 /\ pc[m] \notin Fresh
  /\ \A m \in Messages : delivered[m] <= 1 /\ (pc[m] \in Fresh => delivered[m] = 0)

(* At most one list shows a message that a run has taken.                   *)
Displayed(r) ==
  \/ r.shown = r.queue
  \/ \E k \in Channels : r.shown = [r.queue EXCEPT ![k] = r.pending \o @]
Displays == \A s \in Sessions : ~sess[s].gone => Displayed(sess[s])

Kept ==
  \A m \in Messages : Accepted(pc[m]) =>
    /\ at[m] \in Sessions
    /\ delivered[m] > 0 \/ m \in restored \/ m \in In(sess[at[m]])

Delivery == Once /\ Displays /\ Kept

(* The session in use, and those that will be made, are not disposed.       *)
Living ==
  /\ current <= made
  /\ \A s \in Sessions : s = current \/ s > made => ~sess[s].gone

-----------------------------------------------------------------------------
(* Lines of messages *)

(* The places of a session are numbers in its lines. *)
LEMMA PlacesOf ==
  ASSUME NEW r, NEW c, NEW i
  PROVE  <<c, i>> \in Places(r) <=> c \in Lines /\ i \in DOMAIN Line(r, c)
BY DEF Places

(* Every place is a pair. *)
LEMMA PlaceIsPair ==
  ASSUME NEW r, NEW p \in Places(r)
  PROVE  /\ p = <<p[1], p[2]>> /\ p[1] \in Lines /\ p[2] \in DOMAIN Line(r, p[1])
BY DEF Places

(* Every place holds a message. *)
LEMMA InMessages ==
  ASSUME NEW r \in Records
  PROVE  /\ In(r) \subseteq Messages
         /\ \A c \in Lines : Line(r, c) \in Seq(Messages)
<1>1. ASSUME NEW c \in Lines PROVE Line(r, c) \in Seq(Messages)
  BY DEF Line, Lines, Records
<1> QED BY <1>1, PlaceIsPair DEF In, Who

(* Who waits in a session is in one of its places.                          *)
LEMMA WaitsIsIn ==
  ASSUME NEW r, Sound(r), NEW m
  PROVE  m \in In(r) <=> <<m>> = r.pending \/ \E k \in Channels : Has(r.queue[k], m)
<1>1. r.pending \in Seq(Messages) /\ Len(r.pending) <= 1 /\ r \in Records
  BY DEF Sound, Records
<1>2. ASSUME m \in In(r)
      PROVE  <<m>> = r.pending \/ \E k \in Channels : Has(r.queue[k], m)
  <2>1. PICK p \in Places(r) : m = Who(r, p)
    BY <1>2 DEF In
  <2>2. p[1] \in Lines /\ p[2] \in DOMAIN Line(r, p[1]) /\ m = Line(r, p[1])[p[2]]
    BY <2>1, PlaceIsPair DEF Who
  <2>3. CASE p[1] = "pending"
    <3>1. p[2] \in 1..Len(r.pending) /\ m = r.pending[p[2]]
      BY <1>1, <2>2, <2>3 DEF Line
    <3>2. PICK n \in 1..Len(r.pending) : n = p[2]
      BY <3>1
    <3> DEFINE l == Len(r.pending)
    <3>3. l \in Nat /\ l <= 1 /\ n \in 1..l
      BY <1>1, <3>2
    <3> HIDE DEF l
    <3>4. n = 1 /\ l = 1
      BY <3>3
    <3>5. n = 1 /\ Len(r.pending) = 1
      BY <3>4 DEF l
    <3> QED BY <1>1, <3>1, <3>2, <3>5
  <2>4. CASE p[1] \in Channels
    <3>1. Line(r, p[1]) = r.queue[p[1]]
      BY <2>4 DEF Line, Channels
    <3> QED BY <2>2, <2>4, <3>1 DEF Has
  <2> QED BY <2>2, <2>3, <2>4 DEF Lines
<1>3. ASSUME <<m>> = r.pending PROVE m \in In(r)
  <2>1. 1 \in DOMAIN Line(r, "pending") /\ Line(r, "pending")[1] = m
    BY <1>3 DEF Line
  <2>2. <<"pending", 1>> \in Places(r) /\ Who(r, <<"pending", 1>>) = m
    BY <2>1, PlacesOf DEF Lines, Who
  <2> QED BY <2>2 DEF In
<1>4. ASSUME NEW k \in Channels, Has(r.queue[k], m) PROVE m \in In(r)
  <2>1. PICK i \in DOMAIN r.queue[k] : r.queue[k][i] = m
    BY <1>4 DEF Has
  <2>2. Line(r, k) = r.queue[k] /\ k \in Lines
    BY DEF Line, Lines, Channels
  <2>3. <<k, i>> \in Places(r) /\ Who(r, <<k, i>>) = m
    BY <2>1, <2>2, PlacesOf DEF Who
  <2> QED BY <2>3 DEF In
<1> QED BY <1>2, <1>3, <1>4

(* A session that holds the same lines holds the same messages.             *)
LEMMA SameLines ==
  ASSUME NEW r, NEW r2, r2.pending = r.pending, r2.queue = r.queue
  PROVE  In(r2) = In(r) /\ (Distinct(r) => Distinct(r2))
BY DEF In, Distinct, Places, Who, Line

(* What a step of a prompt or of a run does to the lines: nothing, or it    *)
(* takes a message from a queue.                                            *)
Same(r, r2) ==
  /\ r2.pending = r.pending /\ r2.queue = r.queue
  /\ r2.shown = r.shown /\ r2.gone = r.gone
Takes(r, r2) ==
  \E k \in Channels :
    /\ r.queue[k] # <<>> /\ r.pending = <<>>
    /\ r2.pending = <<Head(r.queue[k])>>
    /\ r2.queue = [r.queue EXCEPT ![k] = Tail(@)]
    /\ r2.shown = r.shown /\ r2.gone = r.gone
Carries(r, r2) == Same(r, r2) \/ Takes(r, r2)

(* A message that is taken was in the queue, and nothing else moves to      *)
(* another line.                                                            *)
LEMMA TakesLines ==
  ASSUME NEW r \in Records, NEW r2 \in Records, Takes(r, r2)
  PROVE  /\ In(r2) = In(r)
         /\ Distinct(r) => Distinct(r2)
         /\ Displayed(r) => Displayed(r2)
<1>1. PICK k \in Channels :
        /\ r.queue[k] # <<>> /\ r.pending = <<>>
        /\ r2.pending = <<Head(r.queue[k])>>
        /\ r2.queue = [r.queue EXCEPT ![k] = Tail(@)]
        /\ r2.shown = r.shown
  BY DEF Takes
<1>2. r.queue \in [Channels -> Seq(Messages)] /\ k \in Lines /\ k # "pending"
  BY DEF Records, Lines, Channels
<1> DEFINE q == r.queue[k]
<1>3. /\ q \in Seq(Messages) /\ q # <<>> /\ Len(q) \in Nat /\ Len(q) >= 1
      /\ Tail(q) \in Seq(Messages) /\ Len(Tail(q)) = Len(q) - 1
      /\ Head(q) = q[1] /\ \A i \in 1..(Len(q) - 1) : Tail(q)[i] = q[i + 1]
  BY <1>1, <1>2
<1>4. /\ Line(r, "pending") = <<>> /\ Line(r, k) = q
      /\ Line(r2, "pending") = <<q[1]>> /\ Line(r2, k) = Tail(q)
      /\ \A c \in Lines : c \notin {k, "pending"} => Line(r2, c) = Line(r, c)
  BY <1>1, <1>2, <1>3 DEF Line, Lines, Channels
<1> DEFINE from(p) == IF p[1] = "pending" THEN <<k, 1>>
                      ELSE IF p[1] = k THEN <<k, p[2] + 1>> ELSE p
<1>5. ASSUME NEW p \in Places(r2)
      PROVE  /\ from(p) \in Places(r) /\ Who(r2, p) = Who(r, from(p))
             /\ p[1] = "pending" => p = <<"pending", 1>>
             /\ p[1] = k => p = <<k, p[2]>> /\ p[2] \in 1..(Len(q) - 1)
  <2>1. p = <<p[1], p[2]>> /\ p[1] \in Lines /\ p[2] \in DOMAIN Line(r2, p[1])
    BY PlaceIsPair
  <2>2. CASE p[1] = "pending"
    <3>1. p[2] = 1
      BY <1>4, <2>1, <2>2
    <3>2. 1 \in DOMAIN Line(r, k)
      BY <1>3, <1>4
    <3>3. <<k, 1>> \in Places(r) /\ Who(r, <<k, 1>>) = q[1]
      BY <1>2, <1>4, <3>2, PlacesOf DEF Who
    <3>4. Who(r2, p) = q[1]
      BY <1>4, <2>1, <2>2, <3>1 DEF Who
    <3> QED BY <1>2, <2>1, <2>2, <3>1, <3>3, <3>4
  <2>3. CASE p[1] = k
    <3>1. PICK i \in 1..(Len(q) - 1) : i = p[2]
      BY <1>3, <1>4, <2>1, <2>3
    <3>2. i + 1 \in DOMAIN Line(r, k)
      BY <1>3, <1>4
    <3>3. <<k, i + 1>> \in Places(r) /\ Who(r, <<k, i + 1>>) = q[i + 1]
      BY <1>2, <1>4, <3>2, PlacesOf DEF Who
    <3>4. Who(r2, p) = q[i + 1]
      BY <1>3, <1>4, <2>3, <3>1 DEF Who
    <3> QED BY <1>2, <2>1, <2>3, <3>1, <3>3, <3>4
  <2>4. CASE p[1] \notin {k, "pending"}
    <3>1. Line(r2, p[1]) = Line(r, p[1])
      BY <1>4, <2>1, <2>4
    <3>2. <<p[1], p[2]>> \in Places(r)
      BY <2>1, <3>1, PlacesOf
    <3> QED BY <2>1, <2>4, <3>1, <3>2 DEF Who
  <2> QED BY <2>2, <2>3, <2>4
<1>6. In(r2) \subseteq In(r)
  BY <1>5 DEF In
<1>7. In(r) \subseteq In(r2)
  <2> SUFFICES ASSUME NEW p \in Places(r) PROVE Who(r, p) \in In(r2)
    BY DEF In
  <2>1. p = <<p[1], p[2]>> /\ p[1] \in Lines /\ p[2] \in DOMAIN Line(r, p[1])
    BY PlaceIsPair
  <2>2. CASE p[1] = "pending"
    BY <1>4, <2>1, <2>2
  <2>3. CASE p[1] = k
    <3>1. PICK i \in 1..Len(q) : i = p[2]
      BY <1>3, <1>4, <2>1, <2>3
    <3>2. Who(r, p) = q[i]
      BY <1>4, <2>3, <3>1 DEF Who
    <3>3. CASE i = 1
      <4>1. 1 \in DOMAIN Line(r2, "pending") /\ Line(r2, "pending")[1] = q[1]
        BY <1>4
      <4>2. <<"pending", 1>> \in Places(r2) /\ Who(r2, <<"pending", 1>>) = q[1]
        BY <4>1, PlacesOf DEF Who, Lines
      <4> QED BY <3>2, <3>3, <4>2 DEF In
    <3>4. CASE i # 1
      <4>1. i - 1 \in 1..(Len(q) - 1) /\ (i - 1) + 1 = i
        BY <1>3, <3>4
      <4>2. i - 1 \in DOMAIN Line(r2, k) /\ Line(r2, k)[i - 1] = q[i]
        BY <1>3, <1>4, <4>1
      <4>3. <<k, i - 1>> \in Places(r2) /\ Who(r2, <<k, i - 1>>) = q[i]
        BY <1>2, <4>2, PlacesOf DEF Who
      <4> QED BY <3>2, <4>3 DEF In
    <3> QED BY <3>3, <3>4
  <2>4. CASE p[1] \notin {k, "pending"}
    <3>1. Line(r2, p[1]) = Line(r, p[1])
      BY <1>4, <2>1, <2>4
    <3>2. <<p[1], p[2]>> \in Places(r2)
      BY <2>1, <3>1, PlacesOf
    <3> QED BY <2>1, <3>1, <3>2 DEF Who, In
  <2> QED BY <2>2, <2>3, <2>4
<1>8. ASSUME Distinct(r) PROVE Distinct(r2)
  <2> SUFFICES ASSUME NEW p \in Places(r2), NEW o \in Places(r2), Who(r2, p) = Who(r2, o)
               PROVE  p = o
    BY DEF Distinct
  <2>1. from(p) = from(o)
    BY <1>5, <1>8 DEF Distinct
  <2>2. /\ p[1] = "pending" => p = <<"pending", 1>> /\ from(p) = <<k, 1>>
        /\ o[1] = "pending" => o = <<"pending", 1>> /\ from(o) = <<k, 1>>
    BY <1>5
  <2>3. /\ p[1] = k => /\ p = <<k, p[2]>> /\ from(p) = <<k, p[2] + 1>>
                       /\ p[2] \in 1..(Len(q) - 1)
        /\ o[1] = k => /\ o = <<k, o[2]>> /\ from(o) = <<k, o[2] + 1>>
                       /\ o[2] \in 1..(Len(q) - 1)
    BY <1>2, <1>5
  <2>4. /\ p[1] \notin {k, "pending"} => from(p) = p
        /\ o[1] \notin {k, "pending"} => from(o) = o
    OBVIOUS
  <2> HIDE DEF from
  <2>5. CASE p[1] = "pending"
    BY <1>3, <2>1, <2>2, <2>3, <2>4, <2>5
  <2>6. CASE p[1] = k
    BY <1>3, <2>1, <2>2, <2>3, <2>4, <2>6
  <2>7. CASE p[1] # k /\ p[1] # "pending"
    BY <1>3, <2>1, <2>2, <2>3, <2>4, <2>7
  <2> QED BY <2>5, <2>6, <2>7
<1>9. ASSUME Displayed(r) PROVE Displayed(r2)
  <2>1. r.shown = r.queue
    <3>1. ASSUME NEW c \in Channels, r.shown = [r.queue EXCEPT ![c] = r.pending \o @]
          PROVE  r.shown = r.queue
      <4>1. r.pending \o r.queue[c] = r.queue[c]
        BY <1>1, <1>2
      <4> QED BY <1>2, <3>1, <4>1
    <3> QED BY <1>9, <3>1 DEF Displayed
  <2>2. r2.pending \o r2.queue[k] = q
    <3>1. r2.pending = <<Head(q)>> /\ r2.queue[k] = Tail(q)
      BY <1>1, <1>2
    <3>2. <<Head(q)>> \o Tail(q) = q
      BY <1>3
    <3> QED BY <3>1, <3>2
  <2>3. r2.shown = [r2.queue EXCEPT ![k] = r2.pending \o @]
    BY <1>1, <1>2, <2>1, <2>2
  <2> QED BY <2>3 DEF Displayed
<1> QED BY <1>6, <1>7, <1>8, <1>9

(* Either way the session holds what it held.                               *)
LEMMA CarriesLines ==
  ASSUME NEW r \in Records, NEW r2 \in Records, Carries(r, r2)
  PROVE  /\ In(r2) = In(r) /\ r2.gone = r.gone
         /\ Distinct(r) => Distinct(r2)
         /\ Displayed(r) => Displayed(r2)
<1>1. CASE Same(r, r2)
  BY <1>1, SameLines DEF Same, Displayed
<1>2. CASE Takes(r, r2)
  BY <1>2, TakesLines DEF Takes
<1> QED BY <1>1, <1>2 DEF Carries

-----------------------------------------------------------------------------
(* What a step may do to the messages *)

(* m has been sent and is put into the session s. *)
Admitted(m, s) == pc[m] \in Fresh /\ pc'[m] \notin Fresh /\ s = at[m]
(* m comes into the transcript of a session that held it. *)
Leaves(m) ==
  /\ delivered'[m] = delivered[m] + 1
  /\ \E s \in Sessions : m \in In(sess[s])
  /\ \A s \in Sessions : m \notin In(sess'[s])

(* A step moves messages forward only: from their prompts to a session,     *)
(* from there into the transcript or back to the user.                      *)
Forward ==
  /\ \A s \in Sessions : Distinct(sess'[s]) /\ (~sess'[s].gone => Displayed(sess'[s]))
  /\ \A s \in Sessions : \A m \in In(sess'[s]) : m \in In(sess[s]) \/ Admitted(m, s)
  /\ \A s \in Sessions : \A m \in In(sess[s]) :
       m \in In(sess'[s]) \/ m \in restored' \/ Leaves(m)
  /\ \A m \in Messages : delivered'[m] = delivered[m] \/ Leaves(m)
  /\ \A m \in Messages : pc'[m] \in Fresh => pc[m] \in Fresh
  /\ \A m \in Messages : Accepted(pc'[m]) =>
       /\ at'[m] = at[m]
       /\ \/ Accepted(pc[m])
          \/ at[m] \in Sessions /\ m \in In(sess'[at[m]])
  /\ restored \subseteq restored'

(* Such a step keeps what is said of messages.                              *)
LEMMA ForwardKeepsDelivery ==
  ASSUME Delivery, Links, SessionTypes', Forward
  PROVE  Delivery'
<1>1. /\ delivered \in [Messages -> Nat]
      /\ \A s \in Sessions : In(sess[s]) \subseteq Messages /\ In(sess'[s]) \subseteq Messages
  <2>1. \A s \in Sessions : sess[s] \in Records /\ sess'[s] \in Records
    BY DEF Links, SessionTypes
  <2> QED BY <2>1, InMessages DEF Links, SessionTypes
<1>2. /\ \A s \in Sessions : Distinct(sess'[s]) /\ (~sess'[s].gone => Displayed(sess'[s]))
      /\ \A s \in Sessions : \A m \in In(sess'[s]) : m \in In(sess[s]) \/ Admitted(m, s)
      /\ \A m \in Messages : delivered'[m] = delivered[m] \/ Leaves(m)
      /\ \A m \in Messages : pc'[m] \in Fresh => pc[m] \in Fresh
  BY DEF Forward
<1>3. ASSUME NEW s \in Sessions, NEW t \in Sessions, NEW m \in In(sess'[s]) \cap In(sess'[t])
      PROVE  s = t
  <2>1. m \in In(sess[s]) \/ Admitted(m, s)
    BY <1>2, <1>3
  <2>2. m \in In(sess[t]) \/ Admitted(m, t)
    BY <1>2, <1>3
  <2> QED BY <2>1, <2>2 DEF Delivery, Once, Admitted
<1>4. ASSUME NEW s \in Sessions, NEW m \in In(sess'[s])
      PROVE  delivered'[m] = 0 /\ pc'[m] \notin Fresh
  <2>1. m \in Messages /\ ~Leaves(m)
    BY <1>1, <1>4 DEF Leaves
  <2>2. delivered'[m] = delivered[m]
    BY <1>2, <2>1
  <2> QED BY <1>2, <1>4, <2>1, <2>2 DEF Delivery, Once, Admitted
<1>5. ASSUME NEW m \in Messages
      PROVE  delivered'[m] <= 1 /\ (pc'[m] \in Fresh => delivered'[m] = 0)
  <2>1. CASE delivered'[m] = delivered[m]
    BY <1>2, <2>1 DEF Delivery, Once
  <2>2. CASE Leaves(m)
    <3>1. delivered[m] = 0 /\ pc[m] \notin Fresh
      BY <2>2 DEF Leaves, Delivery, Once
    <3> QED BY <1>2, <2>2, <3>1 DEF Leaves
  <2> QED BY <1>2, <2>1, <2>2
<1>6. ASSUME NEW m \in Messages, Accepted(pc'[m])
      PROVE  /\ at'[m] \in Sessions
             /\ delivered'[m] > 0 \/ m \in restored' \/ m \in In(sess'[at'[m]])
  <2>1. /\ at'[m] = at[m]
        /\ \/ Accepted(pc[m])
           \/ at[m] \in Sessions /\ m \in In(sess'[at[m]])
        /\ restored \subseteq restored'
    BY <1>6 DEF Forward
  <2>2. delivered[m] \in Nat /\ (delivered'[m] = delivered[m] \/ delivered'[m] = delivered[m] + 1)
    BY <1>1, <1>2 DEF Leaves
  <2>3. CASE Accepted(pc[m])
    <3>1. /\ at[m] \in Sessions
          /\ delivered[m] > 0 \/ m \in restored \/ m \in In(sess[at[m]])
      BY <2>3 DEF Delivery, Kept
    <3>2. CASE m \in In(sess[at[m]])
      <4>1. m \in In(sess'[at[m]]) \/ m \in restored' \/ Leaves(m)
        BY <3>1, <3>2 DEF Forward
      <4>2. Leaves(m) => delivered'[m] > 0
        BY <2>2 DEF Leaves
      <4> QED BY <2>1, <3>1, <4>1, <4>2
    <3>3. CASE delivered[m] > 0
      BY <2>1, <2>2, <3>1, <3>3
    <3> QED BY <2>1, <3>1, <3>2, <3>3
  <2> QED BY <2>1, <2>3
<1>7. Once'
  BY <1>2, <1>3, <1>4, <1>5 DEF Once
<1>8. Displays'
  BY <1>2 DEF Displays
<1>9. Kept'
  BY <1>6 DEF Kept
<1> QED BY <1>7, <1>8, <1>9 DEF Delivery

(* No session is disposed of. *)
Lasts == \A s \in Sessions : sess'[s].gone = sess[s].gone

(* Most steps only carry the messages of sessions along.                    *)
LEMMA CarryingKeepsDelivery ==
  ASSUME Delivery, Links, SessionTypes',
         \A s \in Sessions : Carries(sess[s], sess'[s]),
         UNCHANGED delivered, restored \subseteq restored',
         \A m \in Messages :
           /\ pc'[m] \in Fresh => pc[m] \in Fresh
           /\ Accepted(pc'[m]) => at'[m] = at[m] /\ Accepted(pc[m])
  PROVE  Delivery' /\ Lasts
<1>1. \A s \in Sessions : sess[s] \in Records /\ sess'[s] \in Records
  BY DEF Links, SessionTypes
<1>2. \A s \in Sessions :
        /\ In(sess'[s]) = In(sess[s]) /\ sess'[s].gone = sess[s].gone
        /\ Distinct(sess[s]) => Distinct(sess'[s])
        /\ Displayed(sess[s]) => Displayed(sess'[s])
  BY <1>1, CarriesLines
<1>3. Forward
  BY <1>2 DEF Forward, Delivery, Once, Displays
<1> QED BY <1>2, <1>3, ForwardKeepsDelivery DEF Lasts

-----------------------------------------------------------------------------
(* What follows a run carries messages along *)

Onward(m, r) ==
  \E r2 : \E p \in Working \cup Ended :
    Becomes(at[m], r2) /\ Goes(m, p) /\ Carries(r, r2)

(* A prompt settles. *)
LEMMA SettleOnward ==
  ASSUME NEW m, NEW r \in Records, NEW p \in Ended, Settle(m, r, p)
  PROVE  Onward(m, r)
<1> DEFINE r2 == [r EXCEPT !.active = FALSE]
<1>1. Same(r, r2)
  BY DEF Same, Records
<1>2. Becomes(at[m], r2) /\ Goes(m, p)
  BY DEF Settle
<1> HIDE DEF r2
<1> QED BY <1>1, <1>2 DEF Onward, Carries

(* A run begins from what a drain has left, or from the session as it was. *)
LEMMA RunOnward ==
  ASSUME NEW m, NEW r \in Records, NEW q \in Records, NEW g, RunsFrom(m, q, g),
         \A r2 : r2.pending = q.pending /\ r2.queue = q.queue /\ r2.shown = q.shown
                   /\ r2.gone = q.gone => Carries(r, r2)
  PROVE  Onward(m, r)
<1> DEFINE r2 == [q EXCEPT !.runner = m, !.stage = g, !.aborted = FALSE]
<1>1. /\ r2.pending = q.pending /\ r2.queue = q.queue
      /\ r2.shown = q.shown /\ r2.gone = q.gone
  BY DEF Records
<1>2. Becomes(at[m], r2) /\ Goes(m, "running")
  BY DEF RunsFrom
<1> HIDE DEF r2
<1>3. Carries(r, r2)
  BY <1>1
<1> QED BY <1>2, <1>3 DEF Onward, Working

(* agent.continue() *)
LEMMA ContinueOnward ==
  ASSUME NEW m, NEW r, Sound(r), Continue(m, r)
  PROVE  Onward(m, r)
<1>1. r \in Records /\ r.last \in {"user", "assistant"} /\ r.pending \in Seq(Messages)
  BY DEF Sound, Records
<1>2. CASE Settle(m, r, "failing")
  BY <1>1, <1>2, SettleOnward DEF Ended
<1>3. CASE RunsFrom(m, [r EXCEPT !.skip = FALSE], "poll")
  <2> DEFINE q == [r EXCEPT !.skip = FALSE]
  <2>1. /\ q \in Records /\ q.pending = r.pending /\ q.queue = r.queue
        /\ q.shown = r.shown /\ q.gone = r.gone /\ RunsFrom(m, q, "poll")
    BY <1>1, <1>3 DEF Records
  <2> HIDE DEF q
  <2> QED BY <1>1, <2>1, RunOnward DEF Carries, Same
<1>4. ASSUME ~Busy(r), NEW k \in Channels, r.queue[k] # <<>>, NEW b \in BOOLEAN,
             RunsFrom(m, [Taken(r, k) EXCEPT !.skip = b], "begin")
      PROVE  Onward(m, r)
  <2> DEFINE t == Taken(r, k)
             q == [t EXCEPT !.skip = b]
  <2>1. t \in Records
    BY <1>1, <1>4, TakenSound
  <2>2. /\ q \in Records /\ q.pending = t.pending /\ q.queue = t.queue
        /\ q.shown = t.shown /\ q.gone = t.gone
    BY <2>1 DEF Records
  <2>3. RunsFrom(m, q, "begin")
    BY <1>4
  <2>4. r.pending = <<>>
    BY <1>1, <1>4 DEF Sound, Busy
  <2>5. /\ t.pending = <<Head(r.queue[k])>>
        /\ t.queue = [r.queue EXCEPT ![k] = Tail(@)]
        /\ t.shown = r.shown /\ t.gone = r.gone
    BY <1>1 DEF Taken, Records
  <2> HIDE DEF q, t
  <2>6. ASSUME NEW r2, r2.pending = q.pending, r2.queue = q.queue, r2.shown = q.shown,
               r2.gone = q.gone
        PROVE  Carries(r, r2)
    BY <1>4, <2>2, <2>4, <2>5, <2>6 DEF Carries, Takes
  <2> QED BY <1>1, <2>2, <2>3, <2>6, RunOnward
<1> QED BY <1>1, <1>2, <1>3, <1>4 DEF Continue, Channels

(* ... or the session is idle. *)
LEMMA ContinueOrSettleOnward ==
  ASSUME NEW m, NEW r, Sound(r), ContinueOrSettle(m, r)
  PROVE  Onward(m, r)
BY ContinueOnward, SettleOnward DEF ContinueOrSettle, Ended, Sound

(* A change of fields that no line depends on comes before. *)
LEMMA SameThenOnward ==
  ASSUME NEW m, NEW r, NEW q, Same(r, q), Onward(m, q)
  PROVE  Onward(m, r)
BY DEF Onward, Carries, Same, Takes

(* _checkCompaction() *)
LEMMA CheckCompactionOnward ==
  ASSUME NEW m, NEW r, Sound(r), NEW o, CheckCompaction(m, r, o)
  PROVE  Onward(m, r)
<1>1. CASE ContinueOrSettle(m, r)
  BY <1>1, ContinueOrSettleOnward
<1>2. CASE Becomes(at[m], r) /\ Goes(m, "compacting")
  BY <1>2 DEF Onward, Carries, Same, Working, Dozing
<1>3. ASSUME NEW p \in {"recovering", "recoveringCut"}, Goes(m, p),
             Becomes(at[m], [r EXCEPT !.recovered = TRUE, !.last = "user"])
      PROVE  Onward(m, r)
  <2> DEFINE r2 == [r EXCEPT !.recovered = TRUE, !.last = "user"]
  <2>1. Same(r, r2)
    BY DEF Sound, Records, Same
  <2>2. Becomes(at[m], r2) /\ p \in Working
    BY <1>3 DEF Working, Dozing
  <2> HIDE DEF r2
  <2> QED BY <1>3, <2>1, <2>2 DEF Onward, Carries
<1> QED BY <1>1, <1>2, <1>3 DEF CheckCompaction

(* _handlePostAgentRun() *)
LEMMA PostRunOnward ==
  ASSUME NEW m \in Messages, NEW r, Sound(r), r.stage = "idle", PostRun(m, r)
  PROVE  Onward(m, r)
<1> USE SessionAssumption
<1> DEFINE reset == IF r.outcome \in Errors THEN 0 ELSE r.attempt
<1>1. /\ r \in Records
      /\ r.attempt \in 0..MaxRetries
      /\ r.last \in {"user", "assistant"}
      /\ r.sleeper \in Messages \cup {Nobody}
  BY DEF Sound, Records
<1>2. [r EXCEPT !.outcome = "none"] = Woken(r, r.attempt, r.last, r.sleeper)
  BY <1>1 DEF Records, Woken
<1>3. [[r EXCEPT !.outcome = "none"] EXCEPT !.attempt = @ + 1, !.last = "user",
                                            !.sleeper = m]
      = Woken(r, r.attempt + 1, "user", m)
  BY <1>1 DEF Records, Woken
<1>4. [[r EXCEPT !.outcome = "none"] EXCEPT
         !.attempt = IF r.outcome \in Errors THEN 0 ELSE @]
      = Woken(r, reset, r.last, r.sleeper)
  BY <1>1 DEF Records, Woken
<1>5. reset \in 0..MaxRetries
  BY <1>1
<1>6. ASSUME NEW a, NEW l, NEW w
      PROVE  Same(r, Woken(r, a, l, w))
  BY <1>1 DEF Same, Woken, Records
<1> HIDE DEF reset
<1>7. CASE Settle(m, Woken(r, r.attempt, r.last, r.sleeper), "settling")
  <2>1. Woken(r, r.attempt, r.last, r.sleeper) \in Records
    BY <1>1, HeardSound DEF Sound
  <2> QED BY <1>6, <1>7, <2>1, SettleOnward, SameThenOnward DEF Ended
<1>8. CASE Becomes(at[m], Woken(r, r.attempt + 1, "user", m)) /\ Goes(m, "sleeping")
  BY <1>6, <1>8 DEF Onward, Carries, Working, Dozing
<1>9. CASE CheckCompaction(m, Woken(r, reset, r.last, r.sleeper), r.outcome)
  <2>1. Sound(Woken(r, reset, r.last, r.sleeper))
    BY <1>1, <1>5, HeardSound
  <2>2. Onward(m, Woken(r, reset, r.last, r.sleeper))
    BY <1>9, <2>1, CheckCompactionOnward
  <2> QED BY <1>6, <2>2, SameThenOnward
<1> QED BY <1>2, <1>3, <1>4, <1>7, <1>8, <1>9 DEF PostRun

-----------------------------------------------------------------------------
(* Prompts and runs keep what is said of messages *)

(* A prompt that is at work in its session goes on. *)
LEMMA OnwardKeepsDelivery ==
  ASSUME IInv, Delivery, NEW m \in Messages, pc[m] \in Working, at[m] \in Sessions,
         NEW r, Same(sess[at[m]], r), Onward(m, r),
         UNCHANGED <<at, delivered, restored>>, Links'
  PROVE  Delivery' /\ Lasts
<1> DEFINE r0 == sess[at[m]]
<1>1. Onward(m, r0)
  BY SameThenOnward
<1>2. PICK r2 : \E p \in Working \cup Ended :
        Becomes(at[m], r2) /\ Goes(m, p) /\ Carries(r0, r2)
  BY <1>1 DEF Onward
<1>3. PICK p \in Working \cup Ended :
        Becomes(at[m], r2) /\ Goes(m, p) /\ Carries(r0, r2)
  BY <1>2
<1>4. sess \in [Sessions -> Records] /\ pc \in [Callers -> Pcs] /\ SessionTypes'
  BY DEF IInv, Links, SessionTypes
<1>5. \A s \in Sessions : Carries(sess[s], sess'[s])
  BY <1>3, <1>4 DEF Becomes, Carries, Same
<1>6. \A n \in Messages : n # m => pc'[n] = pc[n]
  BY <1>3, <1>4 DEF Goes, Callers
<1>7. pc'[m] = p
  BY <1>3, <1>4 DEF Goes, Callers
<1>8. pc'[m] \notin Fresh /\ Accepted(pc[m])
  BY <1>3, <1>7 DEF Working, Dozing, Ended, Fresh, Accepted
<1> QED BY <1>4, <1>5, <1>6, <1>8, CarryingKeepsDelivery DEF IInv

(* The steps after the sleep, the retry's end and the summaries. *)
LEMMA DozingKeepsDelivery ==
  ASSUME IInv, Delivery, NEW m \in Messages, Links',
         Wakes(m) \/ RetryCancelled(m) \/ CompactionEnds(m) \/ RecoveryEnds(m)
  PROVE  Delivery' /\ Lasts
<1> USE SessionAssumption
<1> DEFINE r == sess[at[m]]
<1>1. pc[m] \in Dozing /\ UNCHANGED <<at, delivered, restored>>
  BY DEF Wakes, RetryCancelled, CompactionEnds, RecoveryEnds, Dozing
<1>2. pc[m] \in Working /\ at[m] \in Sessions /\ r \in Records /\ Sound(r)
  BY <1>1, Comes DEF IInv, InSession, Working
<1>3. r.attempt \in 0..MaxRetries /\ r.last \in {"user", "assistant"}
      /\ r.sleeper \in Messages \cup {Nobody} /\ 0 \in 0..MaxRetries
  BY <1>2 DEF Records
<1>4. ASSUME NEW q \in Records, q.stage = r.stage, q.runner = r.runner,
             q.pending = r.pending, q.queue = r.queue, q.shown = r.shown,
             q.gone = r.gone
      PROVE  Sound(q) /\ Same(r, q)
  BY <1>2, <1>4 DEF Sound, Same
<1>5. ASSUME NEW q, Sound(q), Same(r, q),
             \/ Continue(m, q) \/ ContinueOrSettle(m, q)
             \/ \E o \in Outcomes : CheckCompaction(m, q, o)
      PROVE  Delivery' /\ Lasts
  BY <1>1, <1>2, <1>5, ContinueOnward, ContinueOrSettleOnward, CheckCompactionOnward,
     OnwardKeepsDelivery
<1> DEFINE awake == [r EXCEPT !.sleeper = Nobody]
           reset == [r EXCEPT !.sleeper = Nobody, !.attempt = 0]
           rebuilt(l) == [r EXCEPT !.last = l]
<1>6. /\ Sound(r) /\ Same(r, r) /\ Sound(awake) /\ Same(r, awake)
      /\ Sound(reset) /\ Same(r, reset)
      /\ \A l \in {"user", "assistant"} : Sound(rebuilt(l)) /\ Same(r, rebuilt(l))
  <2>1. Sound(awake) /\ Same(r, awake)
    <3>1. /\ awake \in Records /\ awake.stage = r.stage /\ awake.runner = r.runner
          /\ awake.pending = r.pending /\ awake.queue = r.queue
          /\ awake.shown = r.shown /\ awake.gone = r.gone
      BY <1>2, <1>3 DEF Records
    <3> QED BY <1>4, <3>1
  <2>2. Sound(reset) /\ Same(r, reset)
    <3>1. /\ reset \in Records /\ reset.stage = r.stage /\ reset.runner = r.runner
          /\ reset.pending = r.pending /\ reset.queue = r.queue
          /\ reset.shown = r.shown /\ reset.gone = r.gone
      BY <1>2, <1>3 DEF Records
    <3> QED BY <1>4, <3>1
  <2>3. ASSUME NEW l \in {"user", "assistant"} PROVE Sound(rebuilt(l)) /\ Same(r, rebuilt(l))
    <3>1. /\ rebuilt(l) \in Records /\ rebuilt(l).stage = r.stage /\ rebuilt(l).runner = r.runner
          /\ rebuilt(l).pending = r.pending /\ rebuilt(l).queue = r.queue
          /\ rebuilt(l).shown = r.shown /\ rebuilt(l).gone = r.gone
      BY <1>2, <1>3 DEF Records
    <3> QED BY <1>4, <3>1
  <2> QED BY <1>2, <2>1, <2>2, <2>3 DEF Same
<1>7. CASE Wakes(m)
  <2>1. Continue(m, awake)
    BY <1>7 DEF Wakes
  <2> HIDE DEF awake
  <2> QED BY <1>5, <1>6, <2>1
<1>8. CASE RetryCancelled(m)
  <2>1. CheckCompaction(m, reset, "retryable") /\ "retryable" \in Outcomes
    BY <1>8 DEF RetryCancelled, Outcomes, Errors
  <2> HIDE DEF reset
  <2> QED BY <1>5, <1>6, <2>1
<1>9. CASE CompactionEnds(m) \/ RecoveryEnds(m)
  <2>1. \/ ContinueOrSettle(m, r)
        \/ \E l \in {"user", "assistant"} :
             ContinueOrSettle(m, rebuilt(l)) \/ Continue(m, rebuilt(l))
    BY <1>9 DEF CompactionEnds, RecoveryEnds
  <2> HIDE DEF rebuilt
  <2> QED BY <1>5, <1>6, <2>1
<1> QED BY <1>7, <1>8, <1>9

(* finishRun() and what follows the run. *)
LEMMA RunEndsKeepsDelivery ==
  ASSUME IInv, Delivery, NEW s \in Sessions, RunEnds(s), Links'
  PROVE  Delivery' /\ Lasts
<1> USE SessionAssumption
<1> DEFINE r == sess[s]
           m == r.runner
           q == FinishRun(r)
<1>1. r \in Records /\ Sound(r)
  BY DEF IInv, Links, SessionTypes
<1>2. r.stage = "ending" /\ PostRun(m, q) /\ UNCHANGED <<at, delivered, restored>>
  BY DEF RunEnds
<1>3. m \in Messages /\ at[m] = s /\ pc[m] = "running"
  BY <1>1, <1>2 DEF Sound, Records, IInv, Links, Owned
<1>4. /\ q \in Records /\ q.runner = Nobody /\ q.stage = "idle"
      /\ q.pending = r.pending /\ q.gone = r.gone /\ q.queue = r.queue /\ q.shown = r.shown
  BY <1>1 DEF Records, FinishRun, Stages
<1>5. Sound(q) /\ Same(r, q)
  BY <1>1, <1>2, <1>4 DEF Sound, Same
<1> HIDE DEF q
<1>6. Onward(m, q)
  BY <1>2, <1>3, <1>4, <1>5, PostRunOnward
<1> QED BY <1>2, <1>3, <1>5, <1>6, OnwardKeepsDelivery DEF Working

(* A step of a run that carries messages along. *)
LEMMA RunKeepsDelivery ==
  ASSUME IInv, Delivery, NEW s \in Sessions, NEW r2, Becomes(s, r2), Carries(sess[s], r2),
         UNCHANGED <<pc, at, delivered, restored>>, Links'
  PROVE  Delivery' /\ Lasts
<1>1. sess \in [Sessions -> Records] /\ SessionTypes'
  BY DEF IInv, Links, SessionTypes
<1>2. \A t \in Sessions : Carries(sess[t], sess'[t])
  BY <1>1 DEF Becomes, Carries, Same
<1> QED BY <1>1, <1>2, CarryingKeepsDelivery DEF IInv

(* A poll that finds a message. *)
LEMMA PolledIsCarried ==
  ASSUME NEW r \in Records, Len(r.pending) = 0, NEW k \in Channels, r.queue[k] # <<>>
  PROVE  Carries(r, [Taken(r, k) EXCEPT !.stage = "inject"])
<1> DEFINE t == Taken(r, k)
           q == [t EXCEPT !.stage = "inject"]
<1>1. t \in Records
  BY TakenSound
<1>2. /\ t.pending = <<Head(r.queue[k])>>
      /\ t.queue = [r.queue EXCEPT ![k] = Tail(@)]
      /\ t.shown = r.shown /\ t.gone = r.gone
  BY DEF Taken, Records
<1> HIDE DEF t
<1>3. /\ q.pending = t.pending /\ q.queue = t.queue /\ q.shown = t.shown /\ q.gone = t.gone
  BY <1>1 DEF Records
<1> HIDE DEF q
<1>4. r.pending = <<>>
  BY DEF Records
<1>5. Carries(r, q)
  BY <1>2, <1>3, <1>4 DEF Carries, Takes
<1> QED BY <1>5 DEF q, t

(* The polls and the response. *)
LEMMA PollsKeepDelivery ==
  ASSUME IInv, Delivery, NEW s \in Sessions,
         InitialPoll(s) \/ Respond(s) \/ PollQueues(s), Links'
  PROVE  Delivery' /\ Lasts
<1> DEFINE r == sess[s]
<1>1. r \in Records /\ Sound(r)
  BY DEF IInv, Links, SessionTypes
<1>2. UNCHANGED <<pc, at, delivered, restored>>
  BY DEF InitialPoll, Respond, PollQueues
<1>3. r.stage \in {"poll", "stream", "refused", "more", "stopped"}
  BY DEF InitialPoll, Respond, PollQueues
<1>4. Len(r.pending) = 0
  BY <1>1, <1>3 DEF Sound
<1>5. ASSUME NEW q \in Records, Same(r, q) PROVE Same(r, Request(q))
  BY <1>5 DEF Same, Request, Records
<1>6. ASSUME NEW k \in Channels, r.queue[k] # <<>>,
             Becomes(s, [Taken(r, k) EXCEPT !.stage = "inject"])
      PROVE  Delivery' /\ Lasts
  BY <1>1, <1>2, <1>4, <1>6, PolledIsCarried, RunKeepsDelivery
<1>7. ASSUME NEW q, Same(r, q), Becomes(s, q) PROVE Delivery' /\ Lasts
  BY <1>2, <1>7, RunKeepsDelivery DEF Carries
<1>8. CASE InitialPoll(s)
  <2> DEFINE q == [r EXCEPT !.skip = FALSE]
  <2>1. q \in Records /\ Same(r, q) /\ Same(r, r)
    BY <1>1 DEF Records, Same
  <2>2. \/ Becomes(s, Request(q))
        \/ r.queue["steer"] # <<>> /\ Becomes(s, [Taken(r, "steer") EXCEPT !.stage = "inject"])
        \/ Becomes(s, Request(r))
    BY <1>8 DEF InitialPoll
  <2> HIDE DEF q
  <2> QED BY <1>1, <1>5, <1>6, <1>7, <2>1, <2>2 DEF Channels
<1>9. CASE PollQueues(s)
  <2> DEFINE q == [r EXCEPT !.stage = "ending"]
  <2>1. Same(r, q) /\ Same(r, r)
    BY <1>1 DEF Records, Same
  <2>2. \/ Becomes(s, q)
        \/ \E k \in Channels :
             r.queue[k] # <<>> /\ Becomes(s, [Taken(r, k) EXCEPT !.stage = "inject"])
        \/ Becomes(s, Request(r))
    BY <1>9 DEF PollQueues, Channels
  <2> HIDE DEF q
  <2> QED BY <1>1, <1>5, <1>6, <1>7, <2>1, <2>2
<1>10. CASE Respond(s)
  <2>1. PICK o, l, g :
          Becomes(s, [IF r.gone THEN r ELSE Heard(r, o) EXCEPT !.last = l, !.stage = g])
    BY <1>10 DEF Respond
  <2> DEFINE h == IF r.gone THEN r ELSE Heard(r, o)
             q == [h EXCEPT !.last = l, !.stage = g]
  <2>2. Same(r, q)
    <3>1. CASE r.gone
      BY <1>1, <3>1 DEF Same, Records
    <3>2. CASE ~r.gone
      BY <1>1, <3>2 DEF Same, Records, Heard
    <3> QED BY <3>1, <3>2
  <2>3. Becomes(s, q)
    BY <2>1
  <2> HIDE DEF q
  <2> QED BY <1>7, <2>2, <2>3
<1> QED BY <1>8, <1>9, <1>10

-----------------------------------------------------------------------------
(* Steps that put a message into a session or take it out *)

(* Places that hold the same stay distinct, and so does a new one for who   *)
(* was not there.                                                           *)
LEMMA OneMore ==
  ASSUME NEW r, NEW r2, NEW m, NEW p, Distinct(r), m \notin In(r),
         Places(r2) = Places(r) \cup {p}, Who(r2, p) = m,
         \A q \in Places(r) : Who(r2, q) = Who(r, q)
  PROVE  In(r2) = In(r) \cup {m} /\ Distinct(r2)
BY DEF In, Distinct

(* A session holds one message less. *)
LEMMA OneLess ==
  ASSUME NEW r, NEW r2, NEW m, NEW p, Distinct(r), p \in Places(r),
         Places(r2) = Places(r) \ {p}, Who(r, p) = m,
         \A q \in Places(r2) : Who(r2, q) = Who(r, q)
  PROVE  In(r) = In(r2) \cup {m} /\ m \notin In(r2) /\ Distinct(r2)
BY DEF In, Distinct

(* A run's message is in a place of its own.                                *)
LEMMA PendingPlace ==
  ASSUME NEW r, NEW r2, NEW m, r.pending = <<m>>, r2.pending = <<>>, r2.queue = r.queue
  PROVE  LET p == <<"pending", 1>> IN
         /\ p \in Places(r) /\ p \notin Places(r2)
         /\ Places(r) = Places(r2) \cup {p} /\ Who(r, p) = m
         /\ \A q \in Places(r2) : Who(r2, q) = Who(r, q)
<1> DEFINE p == <<"pending", 1>>
<1>1. /\ Line(r, "pending") = <<m>> /\ Line(r2, "pending") = <<>>
      /\ \A c \in Channels : Line(r2, c) = Line(r, c)
  BY DEF Line, Channels
<1>2. DOMAIN <<m>> = {1} /\ DOMAIN <<>> = {}
  OBVIOUS
<1>3. p \in Places(r) /\ Who(r, p) = m
  BY <1>1, <1>2, PlacesOf DEF Lines, Who
<1>4. ASSUME NEW q \in Places(r2)
      PROVE  q \in Places(r) /\ Who(r2, q) = Who(r, q) /\ q # p
  <2>1. q = <<q[1], q[2]>> /\ q[1] \in Lines /\ q[2] \in DOMAIN Line(r2, q[1])
    BY PlaceIsPair
  <2>2. q[1] # "pending"
    BY <1>1, <1>2, <2>1
  <2>3. Line(r2, q[1]) = Line(r, q[1])
    BY <1>1, <2>1, <2>2 DEF Lines
  <2>4. <<q[1], q[2]>> \in Places(r)
    BY <2>1, <2>3, PlacesOf
  <2> QED BY <2>1, <2>2, <2>3, <2>4 DEF Who
<1>5. ASSUME NEW q \in Places(r), q # p PROVE q \in Places(r2)
  <2>1. q = <<q[1], q[2]>> /\ q[1] \in Lines /\ q[2] \in DOMAIN Line(r, q[1])
    BY PlaceIsPair
  <2>2. q[1] # "pending"
    BY <1>1, <1>2, <1>5, <2>1
  <2>3. Line(r2, q[1]) = Line(r, q[1])
    BY <1>1, <2>1, <2>2 DEF Lines
  <2>4. <<q[1], q[2]>> \in Places(r2)
    BY <2>1, <2>3, PlacesOf
  <2> QED BY <2>1, <2>4
<1> QED BY <1>3, <1>4, <1>5

(* The first of a list goes, and no other is the same. *)
LEMMA WithoutHead ==
  ASSUME NEW q \in Seq(Messages), NEW m \in Messages
  PROVE  Has(<<m>> \o q, m) /\ Without(<<m>> \o q, m) = q
<1> DEFINE w == <<m>> \o q
<1>1. /\ w \in Seq(Messages) /\ Len(w) = Len(q) + 1 /\ w[1] = m
      /\ Len(q) \in Nat /\ \A i \in 1..Len(q) : w[i + 1] = q[i]
  OBVIOUS
<1> HIDE DEF w
<1>2. 1 \in DOMAIN w
  BY <1>1
<1>3. Has(w, m)
  BY <1>1, <1>2 DEF Has
<1>4. IndexOf(w, m) = 1
  <2> DEFINE P(i) == i \in DOMAIN w /\ w[i] = m /\ \A j \in 1..(i - 1) : w[j] # m
  <2>1. P(1)
    BY <1>1, <1>2
  <2>2. ASSUME NEW i, P(i) PROVE i = 1
    <3>1. i \in 1..Len(w)
      BY <1>1, <2>2
    <3> QED BY <1>1, <2>2, <3>1
  <2>3. (CHOOSE i : P(i)) = 1
    <3>1. P(CHOOSE i : P(i))
      BY <2>1
    <3> HIDE DEF P
    <3> QED BY <2>2, <3>1
  <2>4. (CHOOSE i \in DOMAIN w : w[i] = m /\ \A j \in 1..(i - 1) : w[j] # m) = 1
    BY <2>3
  <2> QED BY <2>4 DEF IndexOf
<1>5. Without(w, m) = [j \in 1..(Len(w) - 1) |-> w[j + 1]]
  BY <1>1, <1>3, <1>4 DEF Without
<1>6. Without(w, m) = [j \in 1..Len(q) |-> q[j]]
  BY <1>1, <1>5
<1>7. q = [j \in 1..Len(q) |-> q[j]]
  OBVIOUS
<1> QED BY <1>3, <1>6, <1>7 DEF w

(* message_start leaves the displayed lists as the queues are. *)
LEMMA UnshownIsQueue ==
  ASSUME NEW r, Sound(r), Displayed(r), Distinct(r), NEW m \in Messages, r.pending = <<m>>
  PROVE  Unshown(r, m).shown = r.queue
<1>1. r \in Records /\ r.queue \in [Channels -> Seq(Messages)]
      /\ r.shown \in [Channels -> Seq(Messages)]
  BY DEF Sound, Records
<1>2. ASSUME NEW k \in Channels PROVE ~Has(r.queue[k], m)
  <2> SUFFICES ASSUME NEW i \in DOMAIN r.queue[k], r.queue[k][i] = m PROVE FALSE
    BY DEF Has
  <2>1. Line(r, k) = r.queue[k] /\ k \in Lines /\ Line(r, "pending") = <<m>>
        /\ "pending" \in Lines /\ k # "pending"
    BY DEF Line, Lines, Channels
  <2>2. <<k, i>> \in Places(r) /\ Who(r, <<k, i>>) = m
    BY <2>1, PlacesOf DEF Who
  <2>3. <<"pending", 1>> \in Places(r) /\ Who(r, <<"pending", 1>>) = m
    BY <2>1, PlacesOf DEF Who
  <2>4. <<k, i>> = <<"pending", 1>>
    BY <2>2, <2>3 DEF Distinct
  <2> QED BY <2>1, <2>4
<1> DEFINE k == IF Has(r.shown["steer"], m) THEN "steer" ELSE "followUp"
<1>3. Unshown(r, m).shown = [r.shown EXCEPT ![k] = Without(@, m)]
  BY <1>1 DEF Unshown, Records
<1>4. "steer" \in Channels /\ "followUp" \in Channels
  BY DEF Channels
<1>5. CASE r.shown = r.queue
  <2>1. k = "followUp" /\ Without(r.shown[k], m) = r.shown[k]
    BY <1>2, <1>4, <1>5 DEF Without
  <2> QED BY <1>1, <1>3, <1>4, <1>5, <2>1
<1>6. ASSUME NEW c \in Channels, r.shown = [r.queue EXCEPT ![c] = r.pending \o @]
      PROVE  Unshown(r, m).shown = r.queue
  <2>1. r.shown[c] = <<m>> \o r.queue[c] /\ \A d \in Channels : d # c => r.shown[d] = r.queue[d]
    BY <1>1, <1>6
  <2>2. Has(r.shown[c], m) /\ Without(r.shown[c], m) = r.queue[c]
    BY <1>1, <2>1, WithoutHead
  <2>3. k = c
    BY <1>2, <1>4, <2>1, <2>2 DEF Channels
  <2> HIDE DEF k
  <2> QED BY <1>1, <1>3, <1>6, <2>1, <2>2, <2>3
<1> QED BY <1>5, <1>6 DEF Displayed

(* message_start and message_end of a user message. *)
LEMMA InjectKeepsDelivery ==
  ASSUME IInv, Delivery, NEW s \in Sessions, Inject(s), Links'
  PROVE  Delivery' /\ Lasts
<1> DEFINE r == sess[s]
           m == Head(r.pending)
           h == IF r.gone THEN r ELSE Unshown(r, m)
           e == [h EXCEPT !.pending = <<>>, !.last = "user"]
           r2 == sess'[s]
<1>1. /\ r.stage \in {"begin", "inject"}
      /\ Becomes(s, IF r.stage = "begin" THEN [e EXCEPT !.stage = "poll"] ELSE Request(e))
      /\ delivered' = [delivered EXCEPT ![m] = @ + 1]
      /\ UNCHANGED <<pc, at, restored>>
  BY DEF Inject
<1>2. /\ r \in Records /\ Sound(r) /\ Distinct(r) /\ (~r.gone => Displayed(r))
      /\ sess \in [Sessions -> Records] /\ delivered \in [Messages -> Nat]
      /\ SessionTypes'
  BY DEF IInv, Links, SessionTypes, Delivery, Once, Displays
<1>3. m \in Messages /\ r.pending = <<m>>
  <2>1. r.pending \in Seq(Messages) /\ Len(r.pending) = 1
    BY <1>1, <1>2 DEF Sound, Records
  <2> QED BY <2>1
<1>4. h \in Records /\ h.queue = r.queue /\ h.gone = r.gone
      /\ (~r.gone => h.shown = r.queue)
  <2>1. h \in Records
    BY <1>2, UnshownSound
  <2>2. h.queue = r.queue /\ h.gone = r.gone
    BY <1>2 DEF Unshown, Records
  <2>3. ~r.gone => h.shown = r.queue
    BY <1>2, <1>3, UnshownIsQueue
  <2> QED BY <2>1, <2>2, <2>3
<1> HIDE DEF h
<1>5. /\ e \in Records /\ e.pending = <<>> /\ e.queue = r.queue /\ e.gone = r.gone
      /\ (~r.gone => e.shown = r.queue)
  <2>1. <<>> \in Seq(Messages)
    OBVIOUS
  <2> QED BY <1>4, <2>1 DEF Records
<1> HIDE DEF e
<1>6. /\ r2.pending = <<>> /\ r2.queue = r.queue /\ r2.gone = r.gone
      /\ (~r.gone => r2.shown = r.queue)
      /\ \A t \in Sessions : t # s => sess'[t] = sess[t]
  <2>1. CASE r.stage = "begin"
    BY <1>1, <1>2, <1>5, <2>1 DEF Becomes, Records
  <2>2. CASE r.stage # "begin"
    BY <1>1, <1>2, <1>5, <2>2 DEF Becomes, Request, Records
  <2> QED BY <2>1, <2>2
<1> HIDE DEF r2
<1>7. In(r) = In(r2) \cup {m} /\ m \notin In(r2) /\ Distinct(r2)
  <2> DEFINE p == <<"pending", 1>>
  <2>1. /\ p \in Places(r) /\ p \notin Places(r2)
        /\ Places(r) = Places(r2) \cup {p} /\ Who(r, p) = m
        /\ \A q \in Places(r2) : Who(r2, q) = Who(r, q)
    BY <1>3, <1>6, PendingPlace
  <2>2. Places(r2) = Places(r) \ {p}
    BY <2>1
  <2>3. Distinct(r)
    BY <1>2
  <2> HIDE DEF p, m, r
  <2> QED BY <2>1, <2>2, <2>3, OneLess
<1>8. ~r2.gone => Displayed(r2)
  BY <1>6 DEF Displayed
<1>9. Leaves(m) /\ \A n \in Messages : n # m => delivered'[n] = delivered[n]
  <2>1. delivered'[m] = delivered[m] + 1 /\ \A n \in Messages : n # m => delivered'[n] = delivered[n]
    BY <1>1, <1>2, <1>3
  <2>2. m \in In(sess[s])
    BY <1>7
  <2>3. ASSUME NEW t \in Sessions PROVE m \notin In(sess'[t])
    BY <1>6, <1>7, <2>2 DEF Delivery, Once, r2
  <2> QED BY <2>1, <2>2, <2>3 DEF Leaves
<1>10. \A t \in Sessions : /\ Distinct(sess'[t]) /\ (~sess'[t].gone => Displayed(sess'[t]))
                           /\ In(sess'[t]) \subseteq In(sess[t])
                           /\ \A n \in In(sess[t]) : n \in In(sess'[t]) \/ n = m
  BY <1>6, <1>7, <1>8 DEF Delivery, Once, Displays, r2
<1>11. Forward
  BY <1>1, <1>9, <1>10 DEF Forward
<1>12. Lasts
  BY <1>6 DEF Lasts, r2
<1> QED BY <1>2, <1>11, <1>12, ForwardKeepsDelivery DEF IInv

(* A prompt puts its message into its session. *)
LEMMA AdmittedKeepsDelivery ==
  ASSUME IInv, Delivery, NEW m \in Messages, pc[m] \in Fresh, at[m] \in Sessions,
         NEW r2, Becomes(at[m], r2), NEW p, Goes(m, p), p \notin Fresh,
         In(r2) = In(sess[at[m]]) \cup {m}, Distinct(r2), ~r2.gone => Displayed(r2),
         r2.gone = sess[at[m]].gone,
         UNCHANGED <<at, delivered, restored>>, Links'
  PROVE  Delivery' /\ Lasts
<1> DEFINE s == at[m]
<1>1. /\ sess \in [Sessions -> Records] /\ pc \in [Callers -> Pcs] /\ SessionTypes'
  BY DEF IInv, Links, SessionTypes
<1>2. sess'[s] = r2 /\ \A t \in Sessions : t # s => sess'[t] = sess[t]
  BY <1>1 DEF Becomes
<1>3. pc'[m] = p /\ \A n \in Messages : n # m => pc'[n] = pc[n]
  BY <1>1 DEF Goes, Callers
<1>4. Admitted(m, s)
  BY <1>3 DEF Admitted
<1>5. \A t \in Sessions :
        /\ Distinct(sess'[t]) /\ (~sess'[t].gone => Displayed(sess'[t]))
        /\ \A n \in In(sess'[t]) : n \in In(sess[t]) \/ Admitted(n, t)
        /\ In(sess[t]) \subseteq In(sess'[t])
  BY <1>2, <1>4 DEF Delivery, Once, Displays
<1>6. m \in In(sess'[at[m]])
  BY <1>2
<1>7. Forward
  BY <1>3, <1>5, <1>6 DEF Forward
<1>8. Lasts
  BY <1>2 DEF Lasts
<1> QED BY <1>1, <1>7, <1>8, ForwardKeepsDelivery DEF IInv

(* Who is fresh is in no session. *)
LEMMA FreshIsNowhere ==
  ASSUME Delivery, NEW m, pc[m] \in Fresh, NEW s \in Sessions
  PROVE  m \notin In(sess[s]) /\ Distinct(sess[s])
BY DEF Delivery, Once

(* agent.prompt() *)
LEMMA StartRunKeepsDelivery ==
  ASSUME IInv, Delivery, NEW m \in Messages, StartRun(m), Links'
  PROVE  Delivery' /\ Lasts
<1> DEFINE s == at[m]
           r0 == sess[s]
           r == [r0 EXCEPT !.active = TRUE]
<1>1. pc[m] = "preflight" /\ UNCHANGED <<at, delivered, restored>>
  BY DEF StartRun
<1>2. s \in Sessions /\ r0 \in Records /\ Sound(r0)
  BY <1>1, Comes DEF IInv, InSession
<1>3. /\ r \in Records /\ r.pending = r0.pending /\ r.queue = r0.queue
      /\ r.shown = r0.shown /\ r.gone = r0.gone /\ r.runner = r0.runner
  BY <1>2 DEF Records
<1>4. pc[m] \in Fresh /\ m \notin In(r0) /\ Distinct(r0) /\ (~r0.gone => Displayed(r0))
  BY <1>1, <1>2, FreshIsNowhere DEF Fresh, Delivery, Displays
<1>5. CASE Settle(m, r, "failing")
  <2> DEFINE r2 == [r EXCEPT !.active = FALSE]
  <2>1. Same(r0, r2)
    BY <1>3 DEF Same, Records
  <2>2. Becomes(s, r2) /\ Goes(m, "failing")
    BY <1>5 DEF Settle
  <2> HIDE DEF r2
  <2>3. sess \in [Sessions -> Records] /\ pc \in [Callers -> Pcs] /\ SessionTypes'
    BY DEF IInv, Links, SessionTypes
  <2>4. \A t \in Sessions : Carries(sess[t], sess'[t])
    BY <2>1, <2>2, <2>3 DEF Becomes, Carries, Same
  <2>5. pc'[m] = "failing" /\ \A n \in Messages : n # m => pc'[n] = pc[n]
    BY <2>2, <2>3 DEF Goes, Callers
  <2>6. ~Accepted(pc'[m]) /\ pc'[m] \notin Fresh
    BY <2>5 DEF Accepted, Fresh
  <2> QED BY <1>1, <2>3, <2>4, <2>5, <2>6, CarryingKeepsDelivery DEF IInv
<1>6. CASE ~Busy(r) /\ RunsFrom(m, [r EXCEPT !.pending = <<m>>, !.skip = FALSE], "begin")
  <2> DEFINE q == [r EXCEPT !.pending = <<m>>, !.skip = FALSE]
             r2 == [q EXCEPT !.runner = m, !.stage = "begin", !.aborted = FALSE]
  <2>1. r0.pending = <<>>
    BY <1>2, <1>3, <1>6 DEF Busy, Sound, Records
  <2>2. r2.pending = <<m>> /\ r2.queue = r0.queue /\ r2.shown = r0.shown /\ r2.gone = r0.gone
    BY <1>3 DEF Records
  <2>3. Becomes(s, r2) /\ Goes(m, "running")
    BY <1>6 DEF RunsFrom
  <2> HIDE DEF r2, q
  <2>4. In(r2) = In(r0) \cup {m} /\ Distinct(r2)
    <3>1. LET p == <<"pending", 1>> IN
          /\ p \in Places(r2) /\ p \notin Places(r0)
          /\ Places(r2) = Places(r0) \cup {p} /\ Who(r2, p) = m
          /\ \A o \in Places(r0) : Who(r0, o) = Who(r2, o)
      BY <2>1, <2>2, PendingPlace
    <3> QED BY <1>4, <3>1, OneMore
  <2>5. ~r2.gone => Displayed(r2)
    <3>1. ASSUME NEW c \in Channels, r0.shown = [r0.queue EXCEPT ![c] = r0.pending \o @]
          PROVE  r0.shown = r0.queue
      <4>1. r0.queue \in [Channels -> Seq(Messages)]
        BY <1>2 DEF Records
      <4>2. r0.pending \o r0.queue[c] = r0.queue[c]
        BY <2>1, <4>1
      <4> QED BY <3>1, <4>1, <4>2
    <3> QED BY <1>4, <2>2, <3>1 DEF Displayed
  <2>6. "running" \notin Fresh
    BY DEF Fresh
  <2> QED BY <1>1, <1>2, <1>4, <2>2, <2>3, <2>4, <2>5, <2>6, AdmittedKeepsDelivery
<1> QED BY <1>5, <1>6 DEF StartRun

(* A list that ends with a queue ends with what is appended to the queue. *)
LEMMA AppendToBoth ==
  ASSUME NEW x \in Seq(Messages), NEW q \in Seq(Messages), NEW m \in Messages
  PROVE  Append(x \o q, m) = x \o Append(q, m)
<1>1. <<m>> \in Seq(Messages) /\ x \o q \in Seq(Messages)
  OBVIOUS
<1>2. Append(q, m) = q \o <<m>> /\ Append(x \o q, m) = (x \o q) \o <<m>>
  BY <1>1, AppendIsConcat
<1>3. (x \o q) \o <<m>> = x \o (q \o <<m>>)
  BY <1>1, ConcatAssociative
<1> QED BY <1>2, <1>3

(* A message is queued. *)
LEMMA QueueKeepsDelivery ==
  ASSUME IInv, Delivery, NEW m \in Messages, NEW k \in Channels, Queue(m, k), Links'
  PROVE  Delivery' /\ Lasts
<1> DEFINE s == at[m]
           r == sess[s]
           r2 == sess'[s]
           q == r.queue[k]
           n == Len(q) + 1
<1>1. pc[m] = "input" /\ UNCHANGED <<at, delivered, restored>> /\ Goes(m, "queued")
  BY DEF Queue
<1>2. s \in Sessions /\ r \in Records /\ Sound(r)
  BY <1>1, Comes DEF IInv, InSession
<1>3. /\ sess \in [Sessions -> Records] /\ r.queue \in [Channels -> Seq(Messages)]
      /\ r.shown \in [Channels -> Seq(Messages)] /\ r.pending \in Seq(Messages)
      /\ q \in Seq(Messages)
  BY <1>2 DEF IInv, Links, SessionTypes, Records
<1>4. /\ r2.pending = r.pending /\ r2.gone = r.gone
      /\ r2.queue = [r.queue EXCEPT ![k] = Append(@, m)]
      /\ r2.shown = [r.shown EXCEPT ![k] = Append(@, m)]
      /\ Becomes(s, r2)
  BY <1>2, <1>3 DEF Queue, Records, Becomes
<1> HIDE DEF r2
<1>5. pc[m] \in Fresh /\ m \notin In(r) /\ Distinct(r) /\ (~r.gone => Displayed(r))
  BY <1>1, <1>2, FreshIsNowhere DEF Fresh, Delivery, Displays
<1>6. k \in Lines /\ k # "pending" /\ Line(r, k) = q /\ Line(r2, k) = Append(q, m)
      /\ \A c \in Lines : c # k => Line(r2, c) = Line(r, c)
  BY <1>3, <1>4 DEF Line, Lines, Channels
<1>7. /\ Len(q) \in Nat /\ DOMAIN q = 1..Len(q) /\ DOMAIN Append(q, m) = 1..n
      /\ Append(q, m)[n] = m /\ \A i \in 1..Len(q) : Append(q, m)[i] = q[i]
  BY <1>3
<1>8. <<k, n>> \in Places(r2) /\ Who(r2, <<k, n>>) = m
  BY <1>6, <1>7, PlacesOf DEF Who
<1>9. ASSUME NEW p \in Places(r) PROVE p \in Places(r2) /\ Who(r2, p) = Who(r, p)
  <2>1. p = <<p[1], p[2]>> /\ p[1] \in Lines /\ p[2] \in DOMAIN Line(r, p[1])
    BY PlaceIsPair
  <2>2. CASE p[1] = k
    <3>1. PICK i \in 1..Len(q) : i = p[2]
      BY <1>6, <1>7, <2>1, <2>2
    <3>2. i \in DOMAIN Line(r2, k) /\ Line(r2, k)[i] = q[i]
      BY <1>6, <1>7
    <3>3. <<k, i>> \in Places(r2)
      BY <1>6, <3>2, PlacesOf
    <3> QED BY <1>6, <2>1, <2>2, <3>1, <3>2, <3>3 DEF Who
  <2>3. CASE p[1] # k
    BY <1>6, <2>1, <2>3, PlacesOf DEF Who
  <2> QED BY <2>2, <2>3
<1>10. ASSUME NEW p \in Places(r2), p # <<k, n>> PROVE p \in Places(r)
  <2>1. p = <<p[1], p[2]>> /\ p[1] \in Lines /\ p[2] \in DOMAIN Line(r2, p[1])
    BY PlaceIsPair
  <2>2. CASE p[1] = k
    <3>1. PICK i \in 1..n : i = p[2]
      BY <1>6, <1>7, <2>1, <2>2
    <3>2. i # n
      BY <1>10, <2>1, <2>2, <3>1
    <3>3. i \in DOMAIN Line(r, k)
      BY <1>6, <1>7, <3>2
    <3>4. <<k, i>> \in Places(r)
      BY <1>6, <3>3, PlacesOf
    <3> QED BY <2>1, <2>2, <3>1, <3>4
  <2>3. CASE p[1] # k
    <3>1. <<p[1], p[2]>> \in Places(r)
      BY <1>6, <2>1, <2>3, PlacesOf
    <3> QED BY <2>1, <3>1
  <2> QED BY <2>2, <2>3
<1>11. Places(r2) = Places(r) \cup {<<k, n>>}
  BY <1>8, <1>9, <1>10
<1>12. In(r2) = In(r) \cup {m} /\ Distinct(r2)
  BY <1>5, <1>8, <1>9, <1>11, OneMore
<1>13. ASSUME Displayed(r) PROVE Displayed(r2)
  <2>1. CASE r.shown = r.queue
    BY <1>4, <2>1 DEF Displayed
  <2>2. ASSUME NEW c \in Channels, r.shown = [r.queue EXCEPT ![c] = r.pending \o @]
        PROVE  r2.shown = [r2.queue EXCEPT ![c] = r2.pending \o @]
    <3>1. Append(r.pending \o q, m) = r.pending \o Append(q, m)
      BY <1>3, AppendToBoth
    <3>2. CASE c = k
      BY <1>3, <1>4, <2>2, <3>1, <3>2
    <3>3. CASE c # k
      <4>1. /\ r2.queue[c] = r.queue[c] /\ r.shown[k] = r.queue[k]
            /\ r2.queue[k] = Append(r.queue[k], m)
        BY <1>3, <1>4, <2>2, <3>3
      <4> DEFINE lhs == r2.shown
                 rhs == [r2.queue EXCEPT ![c] = r2.pending \o @]
      <4>2. lhs = [d \in Channels |-> lhs[d]] /\ rhs = [d \in Channels |-> rhs[d]]
        BY <1>3, <1>4
      <4>3. ASSUME NEW d \in Channels PROVE lhs[d] = rhs[d]
        BY <1>3, <1>4, <2>2, <3>3, <4>1
      <4> HIDE DEF lhs, rhs
      <4>4. lhs = rhs
        BY <4>2, <4>3
      <4> QED BY <4>4 DEF lhs, rhs
    <3> QED BY <3>2, <3>3
  <2> QED BY <1>13, <2>1, <2>2 DEF Displayed
<1>14. "queued" \notin Fresh
  BY DEF Fresh
<1> QED BY <1>1, <1>2, <1>4, <1>5, <1>12, <1>13, <1>14, AdmittedKeepsDelivery

-----------------------------------------------------------------------------
(* Callers on their way, and the view's other messages *)

(* No session changes, and no prompt is accepted. *)
LEMMA CallersKeepDelivery ==
  ASSUME IInv, Delivery, UNCHANGED <<sess, delivered, restored>>, Links',
         \A m \in Messages :
           /\ pc'[m] \in Fresh => pc[m] \in Fresh
           /\ Accepted(pc'[m]) => at'[m] = at[m] /\ Accepted(pc[m])
  PROVE  Delivery' /\ Lasts
<1>1. \A s \in Sessions : Carries(sess[s], sess'[s])
  BY DEF Carries, Same
<1> QED BY <1>1, CarryingKeepsDelivery DEF IInv, Links

(* One caller goes on, by itself. *)
LEMMA CallerKeepsDelivery ==
  ASSUME IInv, Delivery, NEW a \in Callers, NEW p, Goes(a, p), Links',
         a \in Messages =>
           /\ p \in Fresh => pc[a] \in Fresh
           /\ Accepted(p) => Accepted(pc[a]) /\ UNCHANGED at,
         \A b \in Callers : b # a => at'[b] = at[b],
         UNCHANGED <<sess, delivered, restored>>
  PROVE  Delivery' /\ Lasts
<1>1. pc'[a] = p /\ \A m \in Messages : m # a => pc'[m] = pc[m] /\ at'[m] = at[m]
  BY DEF IInv, Links, SessionTypes, Goes, Callers
<1>2. ASSUME NEW m \in Messages
      PROVE  /\ pc'[m] \in Fresh => pc[m] \in Fresh
             /\ Accepted(pc'[m]) => at'[m] = at[m] /\ Accepted(pc[m])
  BY <1>1
<1> QED BY <1>2, CallersKeepDelivery

(* Steps of callers on their own. *)
LEMMA CallerStepKeepsDelivery ==
  ASSUME IInv, Delivery, Links',
         \/ \E m \in Messages : Handled(m) \/ Preflight(m) \/ PreflightFails(m)
         \/ \E a \in Callers : Reloaded(a) \/ Created(a) \/ CreateFails(a)
         \/ \E m \in Messages : Send(m)
         \/ \E o \in Orders : Order(o) \/ OrderEnsures(o)
  PROVE  Delivery' /\ Lasts
<1> USE SessionAssumption
<1>1. /\ Messages \subseteq Callers /\ Orders \subseteq Callers /\ Messages \cap Orders = {}
      /\ at \in [Callers -> Sessions \cup {None}]
  BY DEF Callers, IInv, Links, SessionTypes
<1>2. ASSUME NEW m \in Messages, Handled(m) \/ Preflight(m) \/ PreflightFails(m)
      PROVE  Delivery' /\ Lasts
  <2>1. /\ pc[m] \in Fresh /\ UNCHANGED <<sess, at, delivered, restored>>
        /\ \E p \in {"handled", "preflight", "reported"} : Goes(m, p) /\ ~Accepted(p)
    BY <1>2 DEF Handled, Preflight, PreflightFails, Fresh, Accepted
  <2> QED BY <1>1, <2>1, CallerKeepsDelivery
<1>3. ASSUME NEW a \in Callers, BeginCreating(a), a \in Messages => pc[a] \in Fresh
      PROVE  Delivery' /\ Lasts
  <2>1. ~Accepted("creating") /\ Goes(a, "creating")
        /\ UNCHANGED <<sess, at, delivered, restored>>
    BY <1>3 DEF Accepted, BeginCreating
  <2> QED BY <1>3, <2>1, CallerKeepsDelivery
<1>4. ASSUME NEW a \in Callers, Reloaded(a)
      PROVE  Delivery' /\ Lasts
  <2>1. ~Accepted("binding") /\ pc[a] \in Fresh /\ Goes(a, "binding")
        /\ UNCHANGED <<sess, at, delivered, restored>>
    BY <1>4 DEF Accepted, Fresh, Reloaded
  <2> QED BY <2>1, CallerKeepsDelivery
<1>5. ASSUME NEW a \in Callers, CreateFails(a)
      PROVE  Delivery' /\ Lasts
  <2>1. UNCHANGED <<sess, at, delivered, restored>>
    BY <1>5 DEF CreateFails
  <2>2. CASE a \in Messages /\ Goes(a, "reported")
    <3>1. ~Accepted("reported") /\ "reported" \notin Fresh
      BY DEF Accepted, Fresh
    <3> QED BY <2>1, <2>2, <3>1, CallerKeepsDelivery
  <2>3. CASE a \in Orders /\ Goes(a, "ready")
    BY <1>1, <2>1, <2>3, CallerKeepsDelivery
  <2> QED BY <1>5, <2>2, <2>3 DEF CreateFails
<1>6. ASSUME NEW a \in Callers, Created(a)
      PROVE  Delivery' /\ Lasts
  <2>1. pc[a] = "binding" /\ UNCHANGED <<sess, delivered, restored>>
    BY <1>6 DEF Created
  <2>2. CASE a \in Messages /\ Enters(a, made')
    <3>1. ~Accepted("input") /\ pc[a] \in Fresh
      BY <2>1 DEF Accepted, Fresh
    <3>2. Goes(a, "input") /\ \A b \in Callers : b # a => at'[b] = at[b]
      BY <1>1, <2>2 DEF Enters
    <3> QED BY <2>1, <3>1, <3>2, CallerKeepsDelivery
  <2>3. CASE a \in Orders /\ Goes(a, "ready") /\ UNCHANGED at
    BY <1>1, <2>1, <2>3, CallerKeepsDelivery
  <2> QED BY <1>6, <2>2, <2>3 DEF Created
<1>7. ASSUME NEW m \in Messages, Send(m)
      PROVE  Delivery' /\ Lasts
  <2>1. pc[m] \in Fresh
    BY <1>7 DEF Send, Fresh
  <2>2. CASE BeginCreating(m)
    BY <1>1, <1>3, <2>1, <2>2
  <2>3. CASE Enters(m, current) /\ UNCHANGED <<sess, delivered, restored>>
    <3>1. ~Accepted("input") /\ Goes(m, "input") /\ \A b \in Callers : b # m => at'[b] = at[b]
      BY <1>1, <2>3 DEF Accepted, Enters
    <3> QED BY <1>1, <2>1, <2>3, <3>1, CallerKeepsDelivery
  <2> QED BY <1>7, <2>2, <2>3 DEF Send
<1>8. ASSUME NEW o \in Orders, Order(o)
      PROVE  Delivery' /\ Lasts
  <2>1. Goes(o, "ready") /\ UNCHANGED <<sess, at, delivered, restored>>
    BY <1>8 DEF Order
  <2> QED BY <1>1, <2>1, CallerKeepsDelivery
<1>9. ASSUME NEW o \in Orders, OrderEnsures(o)
      PROVE  Delivery' /\ Lasts
  <2>1. CASE UNCHANGED sessionVars
    BY <2>1, CallersKeepDelivery DEF sessionVars
  <2>2. CASE BeginCreating(o)
    BY <1>1, <1>3, <2>2
  <2> QED BY <1>9, <2>1, <2>2 DEF OrderEnsures
<1> QED BY <1>2, <1>4, <1>5, <1>6, <1>7, <1>8, <1>9

(* agent_settled. *)
LEMMA SettledKeepsDelivery ==
  ASSUME IInv, Delivery, NEW m \in Messages, Settled(m), Links'
  PROVE  Delivery' /\ Lasts
<1> USE SessionAssumption
<1>1. /\ pc[m] \in Ended /\ UNCHANGED <<sess, at, delivered, restored>>
      /\ pc' = [a \in Callers |->
                 IF a = m THEN IF pc[m] = "settling" THEN "done" ELSE "reported"
                 ELSE IF a \in Resolved(at[m]) THEN "idle" ELSE pc[a]]
  BY DEF Settled, Ended
<1>2. \A n \in Messages : n # m => pc'[n] = pc[n]
  BY <1>1 DEF Resolved, Callers
<1>3. pc'[m] = IF pc[m] = "settling" THEN "done" ELSE "reported"
  BY <1>1 DEF Callers
<1>4. ASSUME NEW n \in Messages
      PROVE  /\ pc'[n] \in Fresh => pc[n] \in Fresh
             /\ Accepted(pc'[n]) => at'[n] = at[n] /\ Accepted(pc[n])
  <2>1. CASE n # m
    BY <1>1, <1>2, <2>1
  <2>2. CASE n = m
    BY <1>1, <1>3, <2>2 DEF Accepted, Fresh
  <2> QED BY <2>1, <2>2
<1> QED BY <1>1, <1>4, CallersKeepDelivery

(* A list that ends with a queue holds what the queue holds. *)
LEMMA InTheTail ==
  ASSUME NEW x \in Seq(Messages), NEW q \in Seq(Messages), NEW i \in 1..Len(q)
  PROVE  Len(x) + i \in DOMAIN (x \o q) /\ (x \o q)[Len(x) + i] = q[i]
<1> DEFINE j == Len(x) + i
<1>1. Len(x) \in Nat /\ Len(q) \in Nat /\ Len(x \o q) = Len(x) + Len(q)
  OBVIOUS
<1>2. j \in 1..(Len(x) + Len(q)) /\ ~(j <= Len(x)) /\ j - Len(x) = i
  BY <1>1
<1>3. (x \o q)[j] = q[j - Len(x)]
  BY <1>1, <1>2, ConcatProperties
<1> QED BY <1>1, <1>2, <1>3

(* clearQueue() gives back what it takes out: the lists that are shown hold *)
(* whatever is queued.                                                      *)
LEMMA ClearedLines ==
  ASSUME NEW r, Sound(r), Distinct(r), Displayed(r)
  PROVE  LET r2 == Cleared(r) IN
         /\ Distinct(r2) /\ Displayed(r2) /\ r2.gone = r.gone
         /\ In(r2) \subseteq In(r) /\ In(r) \subseteq In(r2) \cup Texts(r)
<1> DEFINE r2 == Cleared(r)
<1>1. /\ r \in Records /\ r.queue \in [Channels -> Seq(Messages)]
      /\ r.pending \in Seq(Messages)
  BY DEF Sound, Records
<1>2. /\ r2.pending = r.pending /\ r2.gone = r.gone
      /\ r2.queue = [k \in Channels |-> <<>>] /\ r2.shown = [k \in Channels |-> <<>>]
  BY <1>1 DEF Cleared, Records
<1> HIDE DEF r2
<1>3. /\ Line(r2, "pending") = Line(r, "pending")
      /\ \A c \in Channels : Line(r2, c) = <<>> /\ Line(r, c) = r.queue[c]
  BY <1>2 DEF Line, Channels
<1>4. ASSUME NEW p \in Places(r2) PROVE p \in Places(r) /\ Who(r2, p) = Who(r, p)
  <2>1. p = <<p[1], p[2]>> /\ p[1] \in Lines /\ p[2] \in DOMAIN Line(r2, p[1])
    BY PlaceIsPair
  <2>2. p[1] = "pending"
    <3>1. DOMAIN <<>> = {}
      OBVIOUS
    <3> QED BY <1>3, <2>1, <3>1 DEF Lines
  <2>3. <<p[1], p[2]>> \in Places(r)
    BY <1>3, <2>1, <2>2, PlacesOf
  <2> QED BY <1>3, <2>1, <2>2, <2>3 DEF Who
<1>5. Distinct(r2) /\ In(r2) \subseteq In(r)
  BY <1>4 DEF Distinct, In
<1>6. ASSUME NEW p \in Places(r) PROVE Who(r, p) \in In(r2) \cup Texts(r)
  <2>1. p = <<p[1], p[2]>> /\ p[1] \in Lines /\ p[2] \in DOMAIN Line(r, p[1])
    BY PlaceIsPair
  <2>2. CASE p[1] = "pending"
    <3>1. <<p[1], p[2]>> \in Places(r2)
      BY <1>3, <2>1, <2>2, PlacesOf
    <3>2. Who(r2, <<p[1], p[2]>>) = Who(r, p)
      BY <1>3, <2>2 DEF Who
    <3> QED BY <3>1, <3>2 DEF In
  <2>3. ASSUME p[1] \in Channels PROVE Who(r, p) \in Texts(r)
    <3> DEFINE k == p[1]
               q == r.queue[k]
    <3>1. q \in Seq(Messages) /\ k \in Channels /\ Who(r, p) = q[p[2]]
      BY <1>1, <1>3, <2>3 DEF Who
    <3>2. PICK i \in 1..Len(q) : i = p[2]
      BY <1>3, <2>1, <2>3, <3>1
    <3>3. \E j \in DOMAIN r.shown[k] : r.shown[k][j] = q[i]
      <4>1. CASE r.shown = r.queue
        BY <3>1, <4>1
      <4>2. ASSUME NEW c \in Channels, r.shown = [r.queue EXCEPT ![c] = r.pending \o @]
            PROVE  \E j \in DOMAIN r.shown[k] : r.shown[k][j] = q[i]
        <5>1. CASE c # k
          <6>1. r.shown[k] = q
            BY <1>1, <3>1, <4>2, <5>1
          <6> QED BY <3>1, <6>1
        <5>2. CASE c = k
          <6> DEFINE w == r.pending \o q
                     j == Len(r.pending) + i
          <6>1. r.shown[k] = w
            BY <1>1, <3>1, <4>2, <5>2
          <6>2. j \in DOMAIN w /\ w[j] = q[i]
            BY <1>1, <3>1, InTheTail
          <6> HIDE DEF w, j
          <6> QED BY <6>1, <6>2
        <5> QED BY <5>1, <5>2
      <4> QED BY <4>1, <4>2 DEF Displayed
    <3> HIDE DEF k
    <3> QED BY <3>1, <3>2, <3>3 DEF Texts
  <2> QED BY <2>1, <2>2, <2>3 DEF Lines
<1>7. Displayed(r2)
  BY <1>2 DEF Displayed
<1> QED BY <1>2, <1>5, <1>6, <1>7 DEF In, r2

(* clearQueue() of the session in use, if there is one. *)
LEMMA ClearsKeepsDelivery ==
  ASSUME IInv, Living, Delivery, ClearsQueue, UNCHANGED <<at, delivered>>,
         \A m \in Messages : pc'[m] = pc[m], Links'
  PROVE  Delivery' /\ Lasts
<1>1. CASE UNCHANGED <<sess, restored>>
  BY <1>1, CallersKeepDelivery
<1>2. CASE current # None /\ Becomes(current, Cleared(sess[current]))
           /\ restored' = restored \cup Texts(sess[current])
  <2> DEFINE s == current
             r == sess[s]
             r2 == Cleared(r)
  <2>1. /\ s \in Sessions /\ sess \in [Sessions -> Records] /\ Sound(r)
        /\ SessionTypes'
    BY <1>2 DEF IInv, Links, SessionTypes, Service, ServiceTypes
  <2>2. Distinct(r) /\ Displayed(r)
    BY <2>1 DEF Living, Delivery, Once, Displays
  <2>3. /\ Distinct(r2) /\ Displayed(r2) /\ r2.gone = r.gone
        /\ In(r2) \subseteq In(r) /\ In(r) \subseteq In(r2) \cup Texts(r)
    BY <2>1, <2>2, ClearedLines
  <2> HIDE DEF r2
  <2>4. sess'[s] = r2 /\ \A t \in Sessions : t # s => sess'[t] = sess[t]
    BY <1>2, <2>1 DEF Becomes, r2
  <2> HIDE DEF r, s
  <2>5. ASSUME NEW t \in Sessions
        PROVE  /\ Distinct(sess'[t]) /\ (~sess'[t].gone => Displayed(sess'[t]))
               /\ In(sess'[t]) \subseteq In(sess[t])
               /\ In(sess[t]) \subseteq In(sess'[t]) \cup restored'
               /\ sess'[t].gone = sess[t].gone
    <3>1. CASE t = s
      BY <1>2, <2>3, <2>4, <3>1 DEF r, s
    <3>2. CASE t # s
      BY <2>4, <3>2 DEF Delivery, Once, Displays
    <3> QED BY <3>1, <3>2
  <2>6. restored \subseteq restored'
    BY <1>2
  <2>7. Forward
    BY <2>5, <2>6 DEF Forward
  <2> QED BY <2>1, <2>5, <2>7, ForwardKeepsDelivery DEF Lasts, IInv
<1> QED BY <1>1, <1>2 DEF ClearsQueue

(* abort(), and dispose(): the messages of the session stay where they are. *)
LEMMA AbortKeepsDelivery ==
  ASSUME IInv, Delivery, Links', NEW s \in Sessions, NEW g \in BOOLEAN,
         sess[s].gone => g,
         Becomes(s, [Aborted(sess[s]) EXCEPT !.gone = g]),
         \A m \in Messages :
           /\ at'[m] = at[m]
           /\ pc'[m] = pc[m] \/ (pc[m] = "sleeping" /\ pc'[m] = "cancelled"),
         UNCHANGED <<delivered, restored>>
  PROVE  /\ Delivery'
         /\ sess'[s].gone = g
         /\ \A t \in Sessions : t # s => sess'[t].gone = sess[t].gone
<1> DEFINE r == sess[s]
           r2 == [Aborted(r) EXCEPT !.gone = g]
<1>1. sess \in [Sessions -> Records] /\ r \in Records /\ SessionTypes'
  BY DEF IInv, Links, SessionTypes
<1>2. /\ r2.pending = r.pending /\ r2.queue = r.queue /\ r2.shown = r.shown
      /\ r2.gone = g
  BY <1>1 DEF Aborted, Records
<1> HIDE DEF r2
<1>3. sess'[s] = r2 /\ \A t \in Sessions : t # s => sess'[t] = sess[t]
  BY <1>1 DEF Becomes, r2
<1> HIDE DEF r
<1>4. In(r2) = In(r) /\ (Distinct(r) => Distinct(r2)) /\ (Displayed(r) => Displayed(r2))
  BY <1>2, SameLines DEF Displayed
<1>5. ASSUME NEW t \in Sessions
      PROVE  /\ Distinct(sess'[t]) /\ (~sess'[t].gone => Displayed(sess'[t]))
             /\ In(sess'[t]) = In(sess[t])
  <2>1. CASE t = s
    BY <1>2, <1>3, <1>4, <2>1 DEF Delivery, Once, Displays, r
  <2>2. CASE t # s
    BY <1>3, <2>2 DEF Delivery, Once, Displays
  <2> QED BY <2>1, <2>2
<1>6. ASSUME NEW m \in Messages
      PROVE  /\ pc'[m] \in Fresh => pc[m] \in Fresh
             /\ Accepted(pc'[m]) => at'[m] = at[m] /\ Accepted(pc[m])
  BY DEF Fresh, Accepted
<1>7. Forward
  BY <1>5, <1>6 DEF Forward
<1> QED BY <1>1, <1>2, <1>3, <1>7, ForwardKeepsDelivery DEF IInv

-----------------------------------------------------------------------------
(* The session in use lives *)

(* No session is made or disposed of. *)
LEMMA LastingKeepsLiving ==
  ASSUME Living, Lasts, UNCHANGED <<current, made>>
  PROVE  Living'
BY DEF Living, Lasts

(* A session is made: it was not in use before.                             *)
LEMMA CreatedKeepsLiving ==
  ASSUME IInv, Living, NEW a \in Callers, Created(a)
  PROVE  Living'
<1>1. made \in Nat /\ made' = made + 1 /\ current' = made' /\ UNCHANGED sess
  BY DEF IInv, Service, ServiceTypes, Created
<1> QED BY <1>1 DEF Living, Sessions

(* The orders that stop, clear and dispose. *)
LEMMA OrdersKeepDelivery ==
  ASSUME IInv, Living, Delivery, Links', NEW o \in Orders,
         OrderClears(o) \/ Stop(o) \/ Stopped(o) \/ ChangeMode(o)
           \/ Dispose(o) \/ Disposed(o)
  PROVE  Delivery' /\ Living'
<1> USE SessionAssumption
<1>1. /\ o \in Callers /\ o \notin Messages /\ Messages \subseteq Callers
      /\ pc \in [Callers -> Pcs] /\ at \in [Callers -> Sessions \cup {None}]
      /\ sess \in [Sessions -> Records] /\ current \in Sessions \cup {None}
      /\ made \in Nat
  BY DEF Callers, IInv, Links, SessionTypes, Service, ServiceTypes
<1>2. CASE ClearsQueue /\ UNCHANGED <<at, delivered, current, made>>
           /\ (UNCHANGED pc \/ Goes(o, "ready"))
  <2>1. \A m \in Messages : pc'[m] = pc[m]
    BY <1>1, <1>2 DEF Goes
  <2> QED BY <1>2, <2>1, ClearsKeepsDelivery, LastingKeepsLiving
<1>3. CASE current # None /\ Aborts(o, current)
           /\ UNCHANGED <<delivered, restored, serviceVars>>
  <2> DEFINE g == sess[current].gone
  <2>1. current \in Sessions /\ g \in BOOLEAN /\ Sound(sess[current]) /\ Heeds(sess[current])
    BY <1>1, <1>3 DEF Records, IInv, Links, SessionTypes, Heeded
  <2>2. Aborted(sess[current]) = [Aborted(sess[current]) EXCEPT !.gone = g]
    BY <2>1, AbortedSound
  <2>3. Becomes(current, [Aborted(sess[current]) EXCEPT !.gone = g])
    BY <1>3, <2>2 DEF Aborts
  <2>4. ASSUME NEW m \in Messages
        PROVE  /\ at'[m] = at[m]
               /\ pc'[m] = pc[m] \/ (pc[m] = "sleeping" /\ pc'[m] = "cancelled")
    BY <1>1, <1>3 DEF Aborts, Cut
  <2>5. Delivery' /\ Lasts
    BY <1>3, <2>1, <2>3, <2>4, AbortKeepsDelivery DEF Lasts
  <2> QED BY <1>3, <2>5, LastingKeepsLiving DEF serviceVars
<1>4. CASE Disposes(o) /\ UNCHANGED <<at, delivered, restored, made>>
  <2>1. CASE current = None
    <3>1. UNCHANGED <<sess, current>> /\ pc' = [a \in Callers |-> IF a = o THEN "ready" ELSE pc[a]]
      BY <1>4, <2>1 DEF Disposes, NextSession
    <3>2. \A m \in Messages : pc'[m] = pc[m]
      BY <1>1, <3>1
    <3> QED BY <1>4, <3>1, <3>2, CallersKeepDelivery, LastingKeepsLiving
  <2>2. CASE current # None
    <3>1. /\ Becomes(current, [Aborted(sess[current]) EXCEPT !.gone = TRUE])
          /\ pc' = [a \in Callers |-> IF a = o THEN "ready"
                      ELSE IF a \in Cut(current) THEN "cancelled" ELSE pc[a]]
          /\ current \in Sessions /\ current' = None
      BY <1>1, <1>4, <2>2 DEF Disposes, NextSession
    <3>2. ASSUME NEW m \in Messages
          PROVE  /\ at'[m] = at[m]
                 /\ pc'[m] = pc[m] \/ (pc[m] = "sleeping" /\ pc'[m] = "cancelled")
      BY <1>1, <1>4, <3>1 DEF Cut
    <3>3. Delivery' /\ \A t \in Sessions : t # current => sess'[t].gone = sess[t].gone
      BY <1>4, <3>1, <3>2, AbortKeepsDelivery
    <3>4. Living'
      BY <1>1, <1>4, <3>1, <3>3 DEF Living, Sessions, None
    <3> QED BY <3>3, <3>4
  <2> QED BY <2>1, <2>2
<1>5. CASE UNCHANGED <<sessionVars, current, made>>
  BY <1>5, CallersKeepDelivery, LastingKeepsLiving DEF sessionVars
<1> QED BY <1>2, <1>3, <1>4, <1>5
        DEF OrderClears, Stop, Stopped, ChangeMode, Dispose, Disposed

-----------------------------------------------------------------------------
(* The invariant *)

Invariant == IInv /\ Delivery /\ Living

(* No session holds anything at first. *)
LEMMA InitDelivery ==
  ASSUME Init
  PROVE  Invariant
<1> USE SessionAssumption DEF Init
<1>1. /\ Unused.pending = <<>> /\ Unused.queue = [k \in Channels |-> <<>>]
      /\ Unused.shown = Unused.queue /\ Unused.gone = FALSE
  BY DEF Unused
<1>2. Places(Unused) = {}
  <2>1. ASSUME NEW p \in Places(Unused) PROVE FALSE
    <3>1. p[1] \in Lines /\ p[2] \in DOMAIN Line(Unused, p[1])
      BY PlaceIsPair
    <3>2. Line(Unused, p[1]) = <<>>
      BY <1>1, <3>1 DEF Line, Lines
    <3> QED BY <3>1, <3>2
  <2> QED BY <2>1
<1>3. In(Unused) = {} /\ Distinct(Unused) /\ Displayed(Unused)
  BY <1>1, <1>2 DEF In, Distinct, Displayed
<1>4. \A s \in Sessions : sess[s] = Unused
  OBVIOUS
<1>5. \A m \in Messages : pc[m] = "unsent" /\ delivered[m] = 0
  BY DEF Callers
<1>6. Delivery
  BY <1>3, <1>4, <1>5 DEF Delivery, Once, Displays, Kept, Accepted
<1>7. Living
  BY <1>1, <1>4 DEF Living, None
<1> QED BY <1>6, <1>7, InitInvariant DEF Invariant

(* Every step keeps the invariant. *)
LEMMA DeliveryInductive ==
  ASSUME Invariant, [Next]_vars
  PROVE  Invariant'
<1>1. IInv /\ Delivery /\ Living /\ IInv' /\ Links'
  BY Inductive DEF Invariant, IInv
<1>2. ASSUME Delivery' /\ Lasts, UNCHANGED <<current, made>>
      PROVE  Delivery' /\ Living'
  BY <1>1, <1>2, LastingKeepsLiving
<1>3. ASSUME UNCHANGED vars PROVE Delivery' /\ Living'
  BY <1>1, <1>2, <1>3, CallersKeepDelivery DEF vars, sessionVars, serviceVars
<1>4. ASSUME NEW m \in Messages, RetryCancelled(m), UNCHANGED serviceVars
      PROVE  Delivery' /\ Living'
  BY <1>1, <1>2, <1>4, DozingKeepsDelivery DEF serviceVars
<1>5. ASSUME NEW o \in Orders, OrderStep(o)
      PROVE  Delivery' /\ Living'
  <2>1. CASE OrderEnsures(o)
    <3>1. UNCHANGED <<current, made>>
      BY <2>1 DEF OrderEnsures, BeginCreating
    <3> QED BY <1>1, <1>2, <2>1, <3>1, CallerStepKeepsDelivery
  <2>2. CASE ~OrderEnsures(o)
    BY <1>1, <1>5, <2>2, OrdersKeepDelivery DEF OrderStep
  <2> QED BY <2>1, <2>2
<1>6. ASSUME NEW a \in Callers, Reloaded(a) \/ Created(a) \/ CreateFails(a)
      PROVE  Delivery' /\ Living'
  <2>1. Delivery' /\ Lasts
    BY <1>1, <1>6, CallerStepKeepsDelivery
  <2>2. CASE Created(a)
    BY <1>1, <2>1, <2>2, CreatedKeepsLiving
  <2>3. CASE Reloaded(a) \/ CreateFails(a)
    BY <1>2, <2>1, <2>3 DEF Reloaded, CreateFails
  <2> QED BY <1>6, <2>1, <2>2, <2>3
<1>7. ASSUME NEW m \in Messages, SessionStep(m), UNCHANGED serviceVars
      PROVE  Delivery' /\ Living'
  <2>1. Delivery' /\ Lasts
    BY <1>1, <1>7, CallerStepKeepsDelivery, QueueKeepsDelivery, StartRunKeepsDelivery,
       DozingKeepsDelivery DEF SessionStep
  <2> QED BY <1>2, <1>7, <2>1 DEF serviceVars
<1>8. ASSUME NEW m \in Messages, PromptFails(m)
      PROVE  Delivery' /\ Living'
  BY <1>1, <1>2, <1>8, CallerStepKeepsDelivery DEF PromptFails
<1>9. ASSUME NEW s \in Sessions, RunStep(s), UNCHANGED serviceVars
      PROVE  Delivery' /\ Living'
  <2>1. Delivery' /\ Lasts
    BY <1>1, <1>9, InjectKeepsDelivery, PollsKeepDelivery DEF RunStep
  <2> QED BY <1>2, <1>9, <2>1 DEF serviceVars
<1>10. ASSUME NEW s \in Sessions, RunEndHeard(s)
       PROVE  Delivery' /\ Living'
  BY <1>1, <1>2, <1>10, RunEndsKeepsDelivery DEF RunEndHeard
<1>11. ASSUME NEW m \in Messages, SettledHeard(m)
       PROVE  Delivery' /\ Living'
  BY <1>1, <1>2, <1>11, SettledKeepsDelivery DEF SettledHeard
<1>12. ASSUME User PROVE Delivery' /\ Living'
  <2>1. UNCHANGED <<current, made>>
    BY <1>12 DEF User, Send, Order, BeginCreating
  <2> QED BY <1>1, <1>2, <1>12, <2>1, CallerStepKeepsDelivery DEF User
<1>13. Delivery' /\ Living'
  BY <1>3, <1>4, <1>5, <1>6, <1>7, <1>8, <1>9, <1>10, <1>11, <1>12 DEF Next, Host, React
<1> QED BY <1>1, <1>13 DEF Invariant

(* No message enters a transcript twice: a drain takes it from the one      *)
(* place it is in (drain() in packages/agent/src/agent.ts).                 *)
THEOREM EachDeliveredOnce == Spec => []DeliveredOnce
<1>1. Invariant => DeliveredOnce
  BY DEF Invariant, Delivery, Once, DeliveredOnce
<1> QED BY InitDelivery, DeliveryInductive, <1>1, PTL DEF Spec

(* What the user sees queued in a living session is what is queued there,   *)
(* and at most the message that a run has taken before it                   *)
(* (_steeringMessages, _followUpMessages and queue_update).                 *)
THEOREM QueueIsShown == Spec => []QueueShown
<1>1. Invariant => QueueShown
  <2> SUFFICES ASSUME Invariant, NEW s \in Sessions, ~sess[s].gone, NEW k \in Channels
               PROVE  sess[s].shown[k] \in {sess[s].queue[k], sess[s].pending \o sess[s].queue[k]}
    BY DEF QueueShown
  <2>1. sess[s] \in Records /\ Displayed(sess[s])
    BY DEF Invariant, IInv, Links, SessionTypes, Delivery, Displays
  <2>2. sess[s].queue \in [Channels -> Seq(Messages)]
    BY <2>1 DEF Records
  <2> QED BY <2>1, <2>2 DEF Displayed
<1> QED BY InitDelivery, DeliveryInductive, <1>1, PTL DEF Spec

(* A message whose prompt was accepted is in a transcript, was given back,  *)
(* or waits in its session (prompt() and clearQueue() of AgentSession).     *)
THEOREM NoneLost == Spec => []NothingLost
<1>1. Invariant => NothingLost
  <2> SUFFICES ASSUME Invariant, NEW m \in Messages, Accepted(pc[m])
               PROVE  delivered[m] > 0 \/ m \in restored \/ Waits(m)
    BY DEF NothingLost, Accepted
  <2>1. /\ at[m] \in Sessions
        /\ delivered[m] > 0 \/ m \in restored \/ m \in In(sess[at[m]])
    BY DEF Invariant, Delivery, Kept
  <2>2. Sound(sess[at[m]])
    BY <2>1 DEF Invariant, IInv, Links, SessionTypes
  <2> QED BY <2>1, <2>2, WaitsIsIn DEF Waits
<1> QED BY InitDelivery, DeliveryInductive, <1>1, PTL DEF Spec

===============================================================================
