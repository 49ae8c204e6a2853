------------------------ MODULE AgentLoopMailboxProofs -----------------------
(***************************************************************************)
(* AgentLoop implements Mailbox.  Every step of the loop and of its callers *)
(* is a step of the mailbox or changes nothing there; the one exception is  *)
(* a listener that throws, which makes the loop drop what it has drained.   *)
(***************************************************************************)
EXTENDS AgentLoopMailbox, AgentLoopBatchProofs, FiniteSetTheorems

-----------------------------------------------------------------------------
(* The numbers of a channel's messages in a list *)

UpTo(ms, c, i) == {j \in Places(ms, c) : j <= i}

(* Counting a channel's messages from the front misses none. *)
Counted(ms, c) == \A k \in 1..Cardinality(Places(ms, c)) : Nth(ms, c, k) # {}

NumbersOf(s) == [i \in 1..Len(s) |-> s[i].n]

(* There are as many places as can be counted, and each holds a number. *)
LEMMA PlacesFinite ==
  ASSUME NEW ms \in Seq(Messages), NEW c
  PROVE  /\ Places(ms, c) \subseteq 1..Len(ms) /\ Len(ms) \in Nat
         /\ IsFiniteSet(Places(ms, c)) /\ Cardinality(Places(ms, c)) \in Nat
         /\ \A i \in Places(ms, c) : ms[i].n \in Nat
         /\ \A i : /\ IsFiniteSet(UpTo(ms, c, i))
                   /\ Cardinality(UpTo(ms, c, i)) \in Nat
                   /\ Cardinality(UpTo(ms, c, i)) <= Cardinality(Places(ms, c))
<1>1. Places(ms, c) \subseteq 1..Len(ms) /\ Len(ms) \in Nat
  BY LenProperties DEF Places
<1>2. IsFiniteSet(1..Len(ms))
  BY <1>1, FS_Interval
<1>3. IsFiniteSet(Places(ms, c)) /\ Cardinality(Places(ms, c)) \in Nat
  BY <1>1, <1>2, FS_Subset, FS_CardinalityType
<1>4. \A i \in Places(ms, c) : ms[i].n \in Nat
  <2>1. ASSUME NEW i \in Places(ms, c) PROVE ms[i] \in Messages /\ ms[i].role = "user"
    BY LenProperties DEF Places
  <2> QED
    BY <2>1, UserOf
<1>5. ASSUME NEW i
      PROVE  /\ IsFiniteSet(UpTo(ms, c, i))
             /\ Cardinality(UpTo(ms, c, i)) \in Nat
             /\ Cardinality(UpTo(ms, c, i)) <= Cardinality(Places(ms, c))
  <2>1. UpTo(ms, c, i) \in SUBSET Places(ms, c)
    BY DEF UpTo
  <2> QED
    BY <1>3, <2>1, FS_Subset, FS_CardinalityType
<1> QED
  BY <1>1, <1>3, <1>4, <1>5

(* What is counted is a list of numbers. *)
LEMMA NumbersType ==
  ASSUME NEW ms \in Seq(Messages), NEW c, Counted(ms, c)
  PROVE  /\ Numbers(ms, c) \in Seq(Nat)
         /\ Len(Numbers(ms, c)) = Cardinality(Places(ms, c))
         /\ \A k \in 1..Cardinality(Places(ms, c)) :
              PlaceOf(ms, c, k) \in Places(ms, c)
<1>1. ASSUME NEW k \in 1..Cardinality(Places(ms, c))
      PROVE  PlaceOf(ms, c, k) \in Places(ms, c)
  <2>1. Nth(ms, c, k) # {}
    BY DEF Counted
  <2>2. PlaceOf(ms, c, k) \in Nth(ms, c, k)
    BY <2>1 DEF PlaceOf
  <2> QED
    BY <2>2 DEF Nth
<1>2. ASSUME NEW k \in 1..Cardinality(Places(ms, c))
      PROVE  ms[PlaceOf(ms, c, k)].n \in Nat
  BY <1>1, PlacesFinite
<1>3. Numbers(ms, c) \in [1..Cardinality(Places(ms, c)) -> Nat]
  BY <1>2 DEF Numbers
<1>4. Cardinality(Places(ms, c)) \in Nat
  BY PlacesFinite
<1>5. Numbers(ms, c) \in Seq(Nat)
  BY <1>3, <1>4, FunctionIsSeq
<1>6. Len(Numbers(ms, c)) = Cardinality(Places(ms, c))
  BY <1>3, <1>4, <1>5, LenProperties
<1> QED
  BY <1>1, <1>5, <1>6

(* A message behind a list is counted last, if it is one of the channel's. *)
LEMMA NumbersEmit ==
  ASSUME NEW ms \in Seq(Messages), NEW m \in Messages, NEW c, Counted(ms, c)
  PROVE  /\ Counted(ms \o <<m>>, c)
         /\ Numbers(ms \o <<m>>, c) = IF m.role = "user" /\ m.chan = c
                                      THEN Append(Numbers(ms, c), m.n)
                                      ELSE Numbers(ms, c)
<1> DEFINE e == ms \o <<m>>
           n == Len(ms)
           P == Places(ms, c)
           Q == Places(e, c)
           old(k) == PlaceOf(ms, c, k)
           new(k) == PlaceOf(e, c, k)
<1>1. /\ DOMAIN e = 1..(n + 1) /\ DOMAIN ms = 1..n /\ n \in Nat
      /\ \A i \in 1..n : e[i] = ms[i]
      /\ e[n + 1] = m
  BY Extended
<1>2. /\ P \subseteq 1..n /\ IsFiniteSet(P) /\ Cardinality(P) \in Nat
      /\ \A i : Cardinality(UpTo(ms, c, i)) <= Cardinality(P)
      /\ \A i : Cardinality(UpTo(ms, c, i)) \in Nat
  BY PlacesFinite
<1>3. Q = IF m.role = "user" /\ m.chan = c THEN P \cup {n + 1} ELSE P
  BY <1>1 DEF Places
<1>4. \A i \in P : UpTo(e, c, i) = UpTo(ms, c, i)
  BY <1>1, <1>2, <1>3 DEF UpTo
<1>5. /\ \A k : Nth(ms, c, k) = {i \in P : Cardinality(UpTo(ms, c, i)) = k}
      /\ \A k : Nth(e, c, k) = {i \in Q : Cardinality(UpTo(e, c, i)) = k}
  BY DEF Nth, UpTo
<1>6. \A k \in 1..Cardinality(P) : old(k) \in P
  BY NumbersType
<1>7. /\ Numbers(ms, c) = [k \in 1..Cardinality(P) |-> ms[old(k)].n]
      /\ Numbers(e, c) = [k \in 1..Cardinality(Q) |-> e[new(k)].n]
      /\ Numbers(ms, c) \in Seq(Nat) /\ Len(Numbers(ms, c)) = Cardinality(P)
  BY NumbersType DEF Numbers
<1>8. \A k \in 1..Cardinality(P) : Nth(ms, c, k) # {}
  BY DEF Counted
<1>9. Counted(e, c) <=> \A k \in 1..Cardinality(Q) : Nth(e, c, k) # {}
  BY DEF Counted
<1>10. CASE ~(m.role = "user" /\ m.chan = c)
  <2>1. Q = P
    BY <1>3, <1>10
  <2>2. \A k : Nth(e, c, k) = Nth(ms, c, k)
    <3> SUFFICES ASSUME NEW k PROVE Nth(e, c, k) = Nth(ms, c, k)
      OBVIOUS
    <3>1. /\ Nth(ms, c, k) = {i \in P : Cardinality(UpTo(ms, c, i)) = k}
          /\ Nth(e, c, k) = {i \in P : Cardinality(UpTo(e, c, i)) = k}
      BY <1>5, <2>1
    <3> HIDE DEF e, P, Q
    <3> QED
      BY <1>4, <3>1
  <2>3. \A k \in 1..Cardinality(P) : new(k) = old(k) /\ e[old(k)] = ms[old(k)]
    BY <1>1, <1>2, <1>6, <2>2 DEF PlaceOf
  <2>4. Numbers(e, c) = Numbers(ms, c)
    <3>1. \A k \in 1..Cardinality(P) : e[new(k)].n = ms[old(k)].n
      BY <2>3
    <3>2. /\ Numbers(ms, c) = [k \in 1..Cardinality(P) |-> ms[old(k)].n]
          /\ Numbers(e, c) = [k \in 1..Cardinality(P) |-> e[new(k)].n]
      BY <1>7, <2>1
    <3> HIDE DEF e, P, Q, new, old
    <3> QED
      BY <3>1, <3>2
  <2>5. Counted(e, c)
    BY <1>8, <1>9, <2>1, <2>2
  <2> QED
    BY <1>10, <2>4, <2>5
<1>11. CASE m.role = "user" /\ m.chan = c
  <2>1. Q = P \cup {n + 1} /\ n + 1 \notin P
    BY <1>1, <1>2, <1>3, <1>11
  <2>2. Cardinality(Q) = Cardinality(P) + 1
    BY <1>2, <2>1, FS_AddElement
  <2>3. UpTo(e, c, n + 1) = Q
    BY <1>1, <1>2, <2>1 DEF UpTo
  <2>4. \A k \in 1..Cardinality(P) : Nth(e, c, k) = Nth(ms, c, k)
    <3> SUFFICES ASSUME NEW k \in 1..Cardinality(P) PROVE Nth(e, c, k) = Nth(ms, c, k)
      OBVIOUS
    <3>1. Cardinality(UpTo(e, c, n + 1)) # k
      BY <1>2, <2>2, <2>3
    <3>2. /\ Nth(ms, c, k) = {i \in P : Cardinality(UpTo(ms, c, i)) = k}
          /\ Nth(e, c, k) = {i \in Q : Cardinality(UpTo(e, c, i)) = k}
      BY <1>5
    <3> HIDE DEF e, P, Q
    <3> QED
      BY <1>4, <2>1, <3>1, <3>2
  <2>5. Nth(e, c, Cardinality(P) + 1) = {n + 1}
    <3>1. \A i \in P : Cardinality(UpTo(e, c, i)) # Cardinality(P) + 1
      BY <1>2, <1>4
    <3> QED
      BY <1>5, <2>1, <2>2, <2>3, <3>1
  <2>6. \A k \in 1..Cardinality(P) : new(k) = old(k) /\ e[old(k)] = ms[old(k)]
    BY <1>1, <1>2, <1>6, <2>4 DEF PlaceOf
  <2>7. new(Cardinality(P) + 1) = n + 1
    BY <2>5 DEF PlaceOf
  <2>8. Counted(e, c)
    BY <1>2, <1>8, <1>9, <2>2, <2>4, <2>5
  <2>9. Numbers(e, c) = Append(Numbers(ms, c), m.n)
    <3> DEFINE s == Numbers(ms, c)
               w == Cardinality(P)
    <3>1. Append(s, m.n) = [k \in 1..(w + 1) |-> IF k <= w THEN s[k] ELSE m.n]
      <4>1. s \in Seq(Nat) /\ Len(s) = w /\ w \in Nat /\ m.n \in Nat
        BY <1>2, <1>7, <1>11, UserOf
      <4> HIDE DEF s, w
      <4> QED
        BY <4>1
    <3>2. Numbers(e, c) = [k \in 1..(w + 1) |-> e[new(k)].n]
      BY <1>7, <2>2
    <3>3. ASSUME NEW k \in 1..(w + 1)
          PROVE  e[new(k)].n = IF k <= w THEN s[k] ELSE m.n
      <4>1. CASE k <= w
        <5>1. k \in 1..w
          BY <1>2, <4>1
        <5>2. new(k) = old(k) /\ e[old(k)] = ms[old(k)]
          BY <2>6, <5>1
        <5>3. s[k] = ms[old(k)].n
          BY <1>7, <5>1
        <5> HIDE DEF s, w, e, new, old
        <5> QED
          BY <4>1, <5>2, <5>3
      <4>2. CASE ~(k <= w)
        <5>1. k = w + 1
          BY <1>2, <4>2
        <5>2. e[new(k)] = m
          BY <1>1, <2>7, <5>1
        <5> HIDE DEF s, w, e, new, old
        <5> QED
          BY <4>2, <5>2
      <4> QED
        BY <4>1, <4>2
    <3>4. [k \in 1..(w + 1) |-> e[new(k)].n] = [k \in 1..(w + 1) |-> IF k <= w THEN s[k] ELSE m.n]
      <4> HIDE DEF s, w, e, new, old
      <4> QED
        BY <3>3
    <3> QED
      BY <3>1, <3>2, <3>4
  <2> QED
    BY <1>11, <2>8, <2>9
<1> QED
  BY <1>10, <1>11

(* A list that begins with other messages and ends with the channel's own. *)
LEMMA NumbersSuffix ==
  ASSUME NEW ms \in Seq(Messages), NEW c, NEW k \in 0..Len(ms),
         \A i \in 1..Len(ms) : i \in Places(ms, c) <=> i > k
  PROVE  Numbers(ms, c) = [i \in 1..(Len(ms) - k) |-> ms[k + i].n]
<1> DEFINE n == Len(ms)
           P == Places(ms, c)
<1>1. n \in Nat /\ P \subseteq 1..n /\ k \in 0..n /\ \A i \in 1..n : i \in P <=> i > k
  BY PlacesFinite
<1> HIDE DEF n, P
<1>2. P = (k + 1)..n
  <2>1. ASSUME NEW i \in P PROVE i \in (k + 1)..n
    BY <1>1
  <2>2. ASSUME NEW i \in (k + 1)..n PROVE i \in P
    <3>1. i \in 1..n /\ i > k
      BY <1>1
    <3> QED
      BY <1>1, <3>1
  <2> QED
    BY <2>1, <2>2
<1>3. Cardinality(P) = n - k
  <2>1. k + 1 \in Int /\ n \in Int /\ (k + 1 > n => n - k = 0) /\ n - (k + 1) + 1 = n - k
    BY <1>1
  <2>2. Cardinality((k + 1)..n) = IF k + 1 > n THEN 0 ELSE n - (k + 1) + 1
    BY <2>1, FS_Interval
  <2> QED
    BY <1>2, <2>1, <2>2
<1>4. ASSUME NEW i \in P
      PROVE  Cardinality(UpTo(ms, c, i)) = i - k
  <2>1. UpTo(ms, c, i) = (k + 1)..i
    BY <1>1, <1>2 DEF UpTo, P
  <2>2. i \in Int /\ k + 1 \in Int /\ ~(k + 1 > i)
    BY <1>1, <1>2
  <2> QED
    BY <1>1, <2>1, <2>2, FS_Interval
<1>5. ASSUME NEW i \in 1..(n - k)
      PROVE  PlaceOf(ms, c, i) = k + i
  <2>1. Nth(ms, c, i) = {j \in P : Cardinality(UpTo(ms, c, j)) = i}
    BY DEF Nth, UpTo, P
  <2>2. Nth(ms, c, i) = {k + i}
    <3>1. k + i \in P
      BY <1>1, <1>2
    <3>2. ASSUME NEW j \in P PROVE Cardinality(UpTo(ms, c, j)) = i <=> j = k + i
      <4>1. Cardinality(UpTo(ms, c, j)) = j - k
        BY <1>4
      <4>2. j \in Int
        BY <1>1, <1>2
      <4> QED
        BY <1>1, <4>1, <4>2
    <3> QED
      BY <2>1, <3>1, <3>2
  <2> QED
    BY <2>2 DEF PlaceOf
<1>6. Numbers(ms, c) = [i \in 1..(n - k) |-> ms[PlaceOf(ms, c, i)].n]
  BY <1>3 DEF Numbers, P
<1>7. [i \in 1..(n - k) |-> ms[PlaceOf(ms, c, i)].n] = [i \in 1..(n - k) |-> ms[k + i].n]
  BY <1>5
<1> QED
  BY <1>6, <1>7 DEF n

-----------------------------------------------------------------------------
(* The line in which a channel's messages wait *)

(* What the loop has drained came from one channel. *)
Uniform(p) == \A i, j \in DOMAIN p : p[i].chan = p[j].chan
AllOn(q, c) == \A i \in DOMAIN q : q[i].chan = c

Front(p, c) == IF p # <<>> /\ p[1].chan = c THEN p ELSE <<>>

(* Two lists, one behind the other. *)
LEMMA Joined ==
  ASSUME NEW S, NEW p \in Seq(S), NEW q \in Seq(S)
  PROVE  /\ p \o q \in Seq(S) /\ Len(p \o q) = Len(p) + Len(q)
         /\ Len(p) \in Nat /\ Len(q) \in Nat
         /\ DOMAIN p = 1..Len(p) /\ DOMAIN q = 1..Len(q)
         /\ \A i \in 1..Len(p) : (p \o q)[i] = p[i]
         /\ \A i \in 1..Len(q) : (p \o q)[Len(p) + i] = q[i]
<1>1. /\ p \o q \in Seq(S) /\ Len(p \o q) = Len(p) + Len(q)
      /\ \A i \in 1..(Len(p) + Len(q)) : (p \o q)[i] =
                    IF i <= Len(p) THEN p[i] ELSE q[i - Len(p)]
  BY ConcatProperties
<1>2. /\ Len(p) \in Nat /\ Len(q) \in Nat /\ DOMAIN p = 1..Len(p) /\ DOMAIN q = 1..Len(q)
  BY LenProperties
<1>3. \A i \in 1..Len(p) : (p \o q)[i] = p[i]
  BY <1>1, <1>2
<1>4. ASSUME NEW i \in 1..Len(q) PROVE (p \o q)[Len(p) + i] = q[i]
  <2>1. Len(p) + i \in 1..(Len(p) + Len(q)) /\ ~(Len(p) + i <= Len(p)) /\ Len(p) + i - Len(p) = i
    BY <1>2
  <2> QED
    BY <1>1, <2>1
<1> QED
  BY <1>1, <1>2, <1>3, <1>4

(* The front of a line is all of what was drained, or nothing. *)
LEMMA FrontType ==
  ASSUME NEW p \in Seq(UserMessages), NEW c
  PROVE  Front(p, c) \in Seq(UserMessages)
BY EmptySeq DEF Front

(* What the mailbox says is waiting is this line. *)
LEMMA LineNumbers ==
  ASSUME NEW p \in Seq(UserMessages), NEW q \in Seq(UserMessages), NEW c,
         Uniform(p), AllOn(q, c)
  PROVE  Numbers(p \o q, c) = NumbersOf(Front(p, c) \o q)
<1> DEFINE e == p \o q
           a == Len(p)
           b == Len(q)
<1>1. /\ e \in Seq(UserMessages) /\ Len(e) = a + b /\ a \in Nat /\ b \in Nat
      /\ DOMAIN p = 1..a /\ DOMAIN q = 1..b
      /\ \A i \in 1..a : e[i] = p[i]
      /\ \A i \in 1..b : e[a + i] = q[i]
  BY Joined
<1>2. e \in Seq(Messages)
  BY <1>1, UsersAreMessages
<1>3. /\ \A i \in 1..a : p[i].role = "user"
      /\ \A i \in 1..b : q[i].role = "user"
  <2>1. \A i \in 1..a : p[i] \in UserMessages
    BY <1>1, LenProperties
  <2>2. \A i \in 1..b : q[i] \in UserMessages
    BY <1>1, LenProperties
  <2> QED
    BY <2>1, <2>2 DEF UserMessages
<1>4. DOMAIN e = 1..(a + b)
  BY <1>1, LenProperties
<1>5. ASSUME NEW i \in 1..(a + b) PROVE i \in 1..a \/ \E j \in 1..b : i = a + j
  <2>1. CASE i <= a
    BY <1>1, <2>1
  <2>2. CASE ~(i <= a)
    <3>1. i - a \in 1..b /\ i = a + (i - a)
      BY <1>1, <2>2
    <3> QED
      BY <3>1
  <2> QED
    BY <2>1, <2>2
<1> HIDE DEF e, a, b
<1>6. ASSUME NEW i \in 1..b PROVE a + i \in Places(e, c)
  <2>1. a + i \in DOMAIN e /\ e[a + i] = q[i]
    BY <1>1, <1>4
  <2>2. q[i].role = "user" /\ q[i].chan = c
    BY <1>1, <1>3 DEF AllOn
  <2> QED
    BY <2>1, <2>2 DEF Places
<1>7. CASE p # <<>> /\ p[1].chan = c
  <2>1. \A i \in 1..a : p[i].chan = c
    <3>1. 1 \in DOMAIN p
      BY <1>7, Shortened
    <3> QED
      BY <1>1, <1>7, <3>1 DEF Uniform
  <2>2. \A i \in 1..(a + b) : i \in Places(e, c)
    BY <1>1, <1>3, <1>4, <1>5, <1>6, <2>1 DEF Places
  <2>3. 0 \in 0..Len(e) /\ \A i \in 1..Len(e) : i \in Places(e, c) <=> i > 0
    BY <1>1, <2>2
  <2>4. Numbers(e, c) = [i \in 1..(Len(e) - 0) |-> e[0 + i].n]
    BY <1>2, <2>3, NumbersSuffix
  <2>5. Front(p, c) \o q = e
    BY <1>7 DEF Front, e
  <2>6. [i \in 1..(Len(e) - 0) |-> e[0 + i].n] = [i \in 1..Len(e) |-> e[i].n]
    BY <1>1
  <2> QED
    BY <2>4, <2>5, <2>6 DEF NumbersOf, e
<1>8. CASE ~(p # <<>> /\ p[1].chan = c)
  <2>1. \A i \in 1..a : p[i].chan # c
    <3>1. CASE p = <<>>
      BY <3>1 DEF a
    <3>2. CASE p # <<>>
      <4>1. 1 \in DOMAIN p
        BY <3>2, Shortened
      <4> QED
        BY <1>1, <1>8, <3>2, <4>1 DEF Uniform
    <3> QED
      BY <3>1, <3>2
  <2>2. \A i \in 1..(a + b) : i \in Places(e, c) <=> i > a
    <3>1. \A i \in 1..a : i \notin Places(e, c)
      BY <1>1, <2>1 DEF Places
    <3> QED
      BY <1>1, <1>5, <1>6, <3>1
  <2>3. a \in 0..Len(e) /\ \A i \in 1..Len(e) : i \in Places(e, c) <=> i > a
    BY <1>1, <2>2
  <2>4. Numbers(e, c) = [i \in 1..(Len(e) - a) |-> e[a + i].n]
    BY <1>2, <2>3, NumbersSuffix
  <2>5. Front(p, c) \o q = q
    BY <1>8 DEF Front
  <2>6. [i \in 1..(Len(e) - a) |-> e[a + i].n] = [i \in 1..b |-> q[i].n]
    <3>1. Len(e) - a = b
      BY <1>1
    <3> QED
      BY <1>1, <3>1
  <2> QED
    BY <2>4, <2>5, <2>6 DEF NumbersOf, e, b
<1> QED
  BY <1>7, <1>8

(* The numbers of a line that grows, shrinks or is cut off. *)
LEMMA NumbersOfLists ==
  ASSUME NEW s \in Seq(UserMessages)
  PROVE  /\ NumbersOf(s) \in Seq(Nat) /\ Len(NumbersOf(s)) = Len(s)
         /\ \A m \in UserMessages :
              NumbersOf(Append(s, m)) = NumbersOf(s) \o [i \in 1..1 |-> m.n]
         /\ s # <<>> => /\ NumbersOf(s) # <<>>
                        /\ Head(NumbersOf(s)) = Head(s).n
                        /\ NumbersOf(Tail(s)) = Tail(NumbersOf(s))
<1> DEFINE n == Len(s)
           ns == NumbersOf(s)
<1>1. n \in Nat /\ DOMAIN s = 1..n /\ \A i \in 1..n : s[i] \in UserMessages
  BY LenProperties
<1>2. \A m \in UserMessages : m.n \in Nat
  BY DEF UserMessages
<1>3. ns \in [1..n -> Nat]
  BY <1>1, <1>2 DEF NumbersOf
<1>4. ns \in Seq(Nat) /\ Len(ns) = n /\ \A i \in 1..n : ns[i] = s[i].n
  <2>1. ns \in Seq(Nat)
    BY <1>1, <1>3, FunctionIsSeq
  <2>2. Len(ns) = n
    BY <1>1, <1>3, <2>1, LenProperties
  <2> QED
    BY <2>1, <2>2 DEF NumbersOf
<1>5. ASSUME NEW m \in UserMessages
      PROVE  NumbersOf(Append(s, m)) = ns \o [i \in 1..1 |-> m.n]
  <2> DEFINE t == Append(s, m)
             o == [i \in 1..1 |-> m.n]
             c == ns \o o
  <2>1. Len(t) = n + 1 /\ (\A i \in 1..n : t[i] = s[i]) /\ t[n + 1] = m
    BY <1>1
  <2>2. o \in Seq(Nat) /\ Len(o) = 1 /\ o[1] = m.n
    <3>1. o \in [1..1 -> Nat] /\ o[1] = m.n
      BY <1>2
    <3>2. o \in Seq(Nat)
      BY <3>1, FunctionIsSeq
    <3> HIDE DEF o
    <3> QED
      BY <3>1, <3>2, LenProperties
  <2> HIDE DEF o
  <2>3. /\ c \in Seq(Nat) /\ Len(c) = n + 1
        /\ \A i \in 1..n : c[i] = ns[i]
        /\ c[n + 1] = m.n
    <3> HIDE DEF ns
    <3>1. /\ c \in Seq(Nat) /\ Len(c) = Len(ns) + Len(o)
          /\ \A i \in 1..Len(ns) : c[i] = ns[i]
          /\ \A i \in 1..Len(o) : c[Len(ns) + i] = o[i]
      <4>1. ns \in Seq(Nat) /\ o \in Seq(Nat)
        BY <1>4, <2>2
      <4>2. \A a, b \in Seq(Nat) :
              /\ a \o b \in Seq(Nat) /\ Len(a \o b) = Len(a) + Len(b)
              /\ \A i \in 1..Len(a) : (a \o b)[i] = a[i]
              /\ \A i \in 1..Len(b) : (a \o b)[Len(a) + i] = b[i]
        <5> SUFFICES ASSUME NEW a \in Seq(Nat), NEW b \in Seq(Nat)
                     PROVE  /\ a \o b \in Seq(Nat) /\ Len(a \o b) = Len(a) + Len(b)
                            /\ \A i \in 1..Len(a) : (a \o b)[i] = a[i]
                            /\ \A i \in 1..Len(b) : (a \o b)[Len(a) + i] = b[i]
          OBVIOUS
        <5> QED
          BY Joined, SMT
      <4> QED
        BY <4>1, <4>2, Zenon
    <3>2. 1 \in 1..Len(o)
      BY <2>2
    <3>3. Len(ns) = n /\ Len(o) = 1 /\ o[1] = m.n
      BY <1>4, <2>2
    <3>4. c[Len(ns) + 1] = o[1]
      BY <3>1, <3>2
    <3> HIDE DEF c, n
    <3> QED
      BY <3>1, <3>3, <3>4
  <2>4. c = [i \in 1..(n + 1) |-> c[i]]
    BY <1>1, <2>3, LenProperties
  <2>5. NumbersOf(t) = [i \in 1..(n + 1) |-> t[i].n]
    BY <2>1 DEF NumbersOf
  <2>6. ASSUME NEW i \in 1..(n + 1) PROVE t[i].n = c[i]
    <3>1. i \in 1..n \/ i = n + 1
      BY <1>1
    <3> HIDE DEF t, c, n
    <3> QED
      BY <1>4, <2>1, <2>3, <3>1
  <2>7. [i \in 1..(n + 1) |-> t[i].n] = [i \in 1..(n + 1) |-> c[i]]
    <3> HIDE DEF t, c, n
    <3> QED
      BY <2>6
  <2> QED
    BY <2>4, <2>5, <2>7 DEF o
<1>6. ASSUME s # <<>>
      PROVE  ns # <<>> /\ Head(ns) = Head(s).n /\ NumbersOf(Tail(s)) = Tail(ns)
  <2>1. /\ n > 0 /\ Head(s) = s[1] /\ Tail(s) \in Seq(UserMessages) /\ Len(Tail(s)) = n - 1
        /\ \A i \in 1..(n - 1) : Tail(s)[i] = s[i + 1]
    BY <1>1, <1>6, Shortened, HeadTailProperties
  <2> HIDE DEF ns
  <2>2. ns # <<>>
    BY <1>4, <2>1
  <2>3. /\ Head(ns) = ns[1] /\ Tail(ns) \in Seq(Nat) /\ Len(Tail(ns)) = n - 1
        /\ \A i \in 1..(n - 1) : Tail(ns)[i] = ns[i + 1]
    BY <1>4, <2>2, Shortened, HeadTailProperties
  <2>4. Head(ns) = Head(s).n
    BY <1>1, <1>4, <2>1, <2>3
  <2>5. Tail(ns) = [i \in 1..(n - 1) |-> Tail(ns)[i]]
    BY <2>3, LenProperties
  <2>6. NumbersOf(Tail(s)) = [i \in 1..(n - 1) |-> Tail(s)[i].n]
    BY <2>1 DEF NumbersOf
  <2>7. \A i \in 1..(n - 1) : Tail(s)[i].n = Tail(ns)[i]
    BY <1>1, <1>4, <2>1, <2>3
  <2> QED
    BY <2>2, <2>4, <2>5, <2>6, <2>7
<1> QED
  BY <1>4, <1>5, <1>6

-----------------------------------------------------------------------------
(* What the steps do to the lines *)

Rest(c) == IF c \in Queues THEN queue[c] ELSE <<>>
Line(c) == Front(pending, c) \o Rest(c)

(* What was drained came from one channel, and what was delivered can be    *)
(* counted channel by channel.                                              *)
LineInv == Uniform(pending) /\ \A c \in Channels : Counted(log, c)

BoxInv == TypeInv /\ OrderInv /\ LogInv /\ WaitInv /\ LineInv

(* A line holds user messages, those of the queue on its own channel. *)
LEMMA LineType ==
  ASSUME TypeOK, OrderInv, NEW c \in Channels
  PROVE  /\ Rest(c) \in Seq(UserMessages) /\ AllOn(Rest(c), c)
         /\ Line(c) \in Seq(UserMessages)
<1>1. Rest(c) \in Seq(UserMessages)
  BY EmptySeq DEF Rest, TypeOK
<1>2. AllOn(Rest(c), c)
  <2>1. c \in Queues => \A i \in DOMAIN queue[c] : queue[c][i].chan = c
    BY DEF OrderInv, QueueOrder
  <2> QED
    BY <2>1 DEF Rest, AllOn
<1>3. Front(pending, c) \in Seq(UserMessages)
  BY FrontType DEF TypeOK
<1> QED
  BY <1>1, <1>2, <1>3, ConcatProperties DEF Line

(* The mailbox of a state, read off its lines. *)
LEMMA WaitingIs ==
  TypeOK /\ OrderInv /\ LineInv =>
    \A c \in Channels : /\ Line(c) \in Seq(UserMessages)
                        /\ Waiting[c] = NumbersOf(Line(c))
                        /\ Delivered[c] = Numbers(log, c)
<1> SUFFICES ASSUME TypeOK, OrderInv, LineInv, NEW c \in Channels
             PROVE  /\ Line(c) \in Seq(UserMessages)
                    /\ Waiting[c] = NumbersOf(Line(c))
                    /\ Delivered[c] = Numbers(log, c)
  OBVIOUS
<1>1. Waiting[c] = Numbers(pending \o Rest(c), c)
  BY DEF Waiting, Rest
<1>2. /\ Rest(c) \in Seq(UserMessages) /\ AllOn(Rest(c), c)
      /\ pending \in Seq(UserMessages) /\ Uniform(pending)
  BY LineType DEF TypeOK, LineInv
<1>3. Numbers(pending \o Rest(c), c) = NumbersOf(Front(pending, c) \o Rest(c))
  BY <1>2, LineNumbers
<1> QED
  BY <1>1, <1>3, LineType DEF Line, Delivered

(* With nothing drained the line is the queue. *)
LEMMA QueueLine ==
  ASSUME TypeOK, OrderInv, pending = <<>>, NEW c \in Channels
  PROVE  Line(c) = Rest(c)
<1>1. Front(pending, c) = <<>>
  BY DEF Front
<1> QED
  BY <1>1, LineType DEF Line

(* The steps that leave the mailbox as it is. *)
SameLines == UNCHANGED sent /\ \A c \in Channels : Line(c)' = Line(c)
SameCounts == \A c \in Channels : Numbers(log, c)' = Numbers(log, c)

(* Draining moves messages within their line. *)
LEMMA DrainLine ==
  ASSUME TypeOK, OrderInv, pending = <<>>, NEW c \in Queues, Drain(c)
  PROVE  /\ \A d \in Channels : Line(d)' = Line(d)
         /\ Uniform(pending)'
<1>1. pending' = Drained(c) /\ queue'[c] = Left(c) /\ \A d \in Queues \ {c} : queue'[d] = queue[d]
  BY DEF Drain, TypeOK
<1>2. \A i \in DOMAIN Drained(c) : Drained(c)[i].chan = c
  BY DrainedChannel
<1>3. queue[c] \in Seq(UserMessages) /\ Drained(c) \in Seq(UserMessages) /\ c \in Channels
  BY DrainType DEF TypeOK, Channels
<1>4. Uniform(pending)'
  BY <1>1, <1>2 DEF Uniform
<1>5. Drained(c) # <<>> => Drained(c)[1].chan = c
  BY <1>2, <1>3, Shortened
<1>6. ASSUME NEW d \in Channels, d # c
      PROVE  Line(d)' = Line(d)
  <2>1. Front(pending, d) = <<>> /\ Front(pending', d) = <<>>
    BY <1>1, <1>5, <1>6 DEF Front
  <2>2. Rest(d)' = Rest(d)
    BY <1>1, <1>6 DEF Rest
  <2> QED
    BY <2>1, <2>2 DEF Line
<1>7. Line(c)' = Line(c)
  <2>1. Front(pending', c) = Drained(c)
    BY <1>1, <1>5 DEF Front
  <2>2. Rest(c)' = Left(c) /\ Line(c) = queue[c]
    BY <1>1, <1>3, QueueLine DEF Rest
  <2>3. Drained(c) \o Left(c) = queue[c]
    <3>1. CASE DrainsAll(c)
      BY <1>3, <3>1 DEF Drained, Left
    <3>2. CASE ~DrainsAll(c)
      <4>1. queue[c] # <<>>
        BY <3>2 DEF DrainsAll
      <4>2. <<Head(queue[c])>> \o Tail(queue[c]) = queue[c]
        BY <1>3, <4>1, HeadAndTail
      <4> QED
        BY <3>2, <4>2 DEF Drained, Left
    <3> QED
      BY <3>1, <3>2
  <2> QED
    BY <2>1, <2>2, <2>3 DEF Line
<1> QED
  BY <1>4, <1>6, <1>7

(* Emitting the first of the drained messages delivers the first of its    *)
(* line and moves no other line.                                           *)
LEMMA DeliverLine ==
  ASSUME TypeOK, OrderInv, LineInv, pending # <<>>, Emit(<<Head(pending)>>),
         pending' = Tail(pending), UNCHANGED queue
  PROVE  /\ LineInv'
         /\ \E c \in Channels :
              /\ Line(c) # <<>> /\ Line(c)' = Tail(Line(c))
              /\ Numbers(log, c)' = Append(Numbers(log, c), Head(Line(c)).n)
              /\ \A d \in Channels \ {c} : /\ Line(d)' = Line(d)
                                           /\ Numbers(log, d)' = Numbers(log, d)
<1> DEFINE h == Head(pending)
           t == Tail(pending)
<1>1. /\ pending \in Seq(UserMessages) /\ log \in Seq(Messages)
      /\ log' = log \o <<h>>
  BY DEF TypeOK, Emit
<1>2. /\ h \in UserMessages /\ t \in Seq(UserMessages) /\ pending = <<h>> \o t
      /\ Len(t) = Len(pending) - 1 /\ \A i \in 1..Len(t) : t[i] = pending[i + 1]
      /\ h = pending[1] /\ DOMAIN pending = 1..Len(pending) /\ Len(pending) \in Nat
      /\ Len(pending) > 0
  BY <1>1, HeadAndTail, Shortened, HeadTailProperties
<1>3. h \in Messages /\ h.role = "user" /\ h.chan \in Channels
  BY <1>2 DEF Messages, UserMessages
<1>4. PICK c \in Channels : c = h.chan
  BY <1>3
<1> HIDE DEF t, h
<1>5. Uniform(t) /\ \A i \in DOMAIN t : t[i].chan = c
  <2>1. Uniform(pending)
    BY DEF LineInv
  <2>2. DOMAIN t = 1..(Len(pending) - 1)
    BY <1>2, LenProperties
  <2>3. ASSUME NEW i \in DOMAIN t PROVE t[i].chan = c
    <3>1. i + 1 \in DOMAIN pending /\ t[i] = pending[i + 1] /\ 1 \in DOMAIN pending
      BY <1>2, <2>2
    <3>2. pending[i + 1].chan = pending[1].chan
      BY <2>1, <3>1 DEF Uniform
    <3> QED
      BY <1>2, <1>4, <3>1, <3>2
  <2> QED
    BY <2>3 DEF Uniform
<1>6. LineInv'
  <2>1. ASSUME NEW d \in Channels PROVE Counted(log', d)
    BY <1>1, <1>3, NumbersEmit DEF LineInv
  <2>2. Uniform(pending)'
    BY <1>5 DEF Uniform, t
  <2> QED
    BY <2>1, <2>2 DEF LineInv, Counted
<1>7. \A d \in Channels : Numbers(log', d) = IF d = c THEN Append(Numbers(log, d), h.n)
                                               ELSE Numbers(log, d)
  BY <1>1, <1>3, <1>4, NumbersEmit DEF LineInv
<1>8. ASSUME NEW d \in Channels, d # c PROVE Line(d)' = Line(d)
  <2>1. Front(pending, d) = <<>>
    BY <1>2, <1>4, <1>8 DEF Front
  <2>2. Front(t, d) = <<>>
    <3>1. CASE t = <<>>
      BY <3>1 DEF Front
    <3>2. CASE t # <<>>
      <4>1. 1 \in DOMAIN t
        BY <1>2, <3>2, Shortened
      <4> QED
        BY <1>5, <1>8, <4>1 DEF Front
    <3> QED
      BY <3>1, <3>2
  <2> QED
    BY <2>1, <2>2 DEF Line, Rest, t
<1>9. /\ Line(c) # <<>> /\ Head(Line(c)) = h /\ Line(c)' = Tail(Line(c))
  <2> DEFINE q == Rest(c)
  <2>1. q \in Seq(UserMessages) /\ Rest(c)' = q
    BY <1>3, LineType DEF Rest
  <2>2. Front(pending, c) = pending
    BY <1>2, <1>4 DEF Front
  <2>3. Front(t, c) = t
    <3>1. CASE t = <<>>
      BY <3>1 DEF Front
    <3>2. CASE t # <<>>
      <4>1. 1 \in DOMAIN t
        BY <1>2, <3>2, Shortened
      <4> QED
        BY <1>5, <4>1 DEF Front
    <3> QED
      BY <3>1, <3>2
  <2>4. Line(c) = pending \o q /\ Line(c)' = t \o q
    BY <2>1, <2>2, <2>3 DEF Line, t
  <2> HIDE DEF q
  <2>5. pending \o q # <<>> /\ Head(pending \o q) = h /\ Tail(pending \o q) = t \o q
    BY <1>1, <1>2, <2>1 DEF t, h
  <2> QED
    BY <2>4, <2>5
<1>10. /\ \A d \in Channels \ {c} : /\ Line(d)' = Line(d)
                                    /\ Numbers(log, d)' = Numbers(log, d)
       /\ Numbers(log, c)' = Append(Numbers(log, c), Head(Line(c)).n)
  <2>1. \A d : Numbers(log, d)' = Numbers(log', d)
    BY DEF Numbers, Places, PlaceOf, Nth
  <2> QED
    BY <1>3, <1>7, <1>8, <1>9, <2>1
<1> QED
  BY <1>6, <1>9, <1>10

(* Answers and results are no channel's messages. *)
LEMMA OtherLine ==
  ASSUME TypeOK, LineInv, NEW m \in Messages, m.role # "user", Emit(<<m>>),
         UNCHANGED <<pending, queue>>
  PROVE  LineInv' /\ SameCounts /\ \A c \in Channels : Line(c)' = Line(c)
<1>1. log' = log \o <<m>> /\ log \in Seq(Messages)
  BY DEF Emit, TypeOK
<1>2. ASSUME NEW c \in Channels
      PROVE  Counted(log', c) /\ Numbers(log', c) = Numbers(log, c)
  BY <1>1, NumbersEmit DEF LineInv
<1>3. \A c \in Channels : Line(c)' = Line(c)
  BY DEF Line, Front, Rest
<1>4. LineInv'
  BY <1>2 DEF LineInv, Uniform, Counted
<1>5. \A c : Numbers(log, c)' = Numbers(log', c)
  BY DEF Numbers, Places, PlaceOf, Nth
<1> QED
  BY <1>2, <1>3, <1>4, <1>5 DEF SameCounts

(* A log that does not grow. *)
LEMMA SameLog ==
  ASSUME LineInv, UNCHANGED log, Uniform(pending)'
  PROVE  LineInv' /\ SameCounts
<1>1. \A c : Numbers(log, c)' = Numbers(log', c) /\ Counted(log, c)' = Counted(log', c)
  BY DEF Numbers, Places, PlaceOf, Nth, Counted
<1> QED
  BY <1>1 DEF LineInv, SameCounts

(* Neither the log nor a line changes. *)
LEMMA SameLine ==
  ASSUME LineInv, UNCHANGED <<log, pending, queue>>
  PROVE  LineInv' /\ SameCounts /\ \A c \in Channels : Line(c)' = Line(c)
<1>1. Uniform(pending)'
  BY DEF LineInv, Uniform
<1>2. \A c \in Channels : Line(c)' = Line(c)
  BY DEF Line, Front, Rest
<1> QED
  BY <1>1, <1>2, SameLog

-----------------------------------------------------------------------------
(* What a step of the loop is to the mailbox *)

Unmoved == SameLines /\ SameCounts

Posts == \E c \in Channels : \E k \in {1} \cup 1..MaxPromptBatch :
  /\ sent' = [sent EXCEPT ![c] = @ + k] /\ SameCounts
  /\ NumbersOf(Line(c)') = NumbersOf(Line(c)) \o [i \in 1..k |-> sent[c] + i]
  /\ \A d \in Channels \ {c} : Line(d)' = Line(d)

Delivers == UNCHANGED sent /\ \E c \in Channels :
  /\ Line(c) # <<>> /\ Line(c)' = Tail(Line(c))
  /\ Numbers(log, c)' = Append(Numbers(log, c), Head(Line(c)).n)
  /\ \A d \in Channels \ {c} : /\ Line(d)' = Line(d)
                               /\ Numbers(log, d)' = Numbers(log, d)

TakesBack ==
  /\ UNCHANGED <<sent, pc, pending>> /\ SameCounts
  /\ \A c \in Channels : Line(c)' = Line(c) \/ Line(c)' = Front(pending, c)

(* steer() and followUp() put one message behind the others of its line. *)
LEMMA EnqueueSends ==
  ASSUME TypeOK, OrderInv, LineInv, NEW q \in Queues, Enqueue(q)
  PROVE  LineInv' /\ Posts
<1> DEFINE m == User(q, sent[q] + 1)
<1>1. /\ sent' = [sent EXCEPT ![q] = @ + 1] /\ UNCHANGED <<pending, log>>
      /\ queue'[q] = Append(queue[q], m)
      /\ \A d \in Queues \ {q} : queue'[d] = queue[d]
  BY DEF Enqueue, TypeOK, copies
<1>2. q \in Channels /\ sent[q] \in Nat /\ m \in UserMessages
  BY UserType DEF Channels, TypeOK
<1>3. m.n = sent[q] + 1
  BY DEF User
<1> HIDE DEF m
<1>4. LineInv' /\ SameCounts
  BY <1>1, SameLog DEF LineInv, Uniform
<1>5. \A d \in Channels \ {q} : Line(d)' = Line(d)
  BY <1>1 DEF Line, Front, Rest
<1>6. Line(q)' = Append(Line(q), m)
  <2> DEFINE f == Front(pending, q)
  <2>1. /\ f \in Seq(UserMessages) /\ queue[q] \in Seq(UserMessages)
    BY FrontType DEF TypeOK
  <2>2. Line(q)' = f \o Append(queue[q], m) /\ Line(q) = f \o queue[q]
    BY <1>1 DEF Line, Front, Rest
  <2> HIDE DEF f
  <2>3. f \o Append(queue[q], m) = Append(f \o queue[q], m)
    BY <1>2, <2>1
  <2> QED
    BY <2>2, <2>3
<1>7. NumbersOf(Line(q)') = NumbersOf(Line(q)) \o [i \in 1..1 |-> m.n]
  BY <1>2, <1>6, LineType, NumbersOfLists
<1>8. [i \in 1..1 |-> m.n] = [i \in 1..1 |-> sent[q] + i]
  BY <1>2, <1>3
<1>9. NumbersOf(Line(q)') = NumbersOf(Line(q)) \o [i \in 1..1 |-> sent[q] + i]
  BY <1>7, <1>8
<1> QED
  BY <1>1, <1>2, <1>4, <1>5, <1>9 DEF Posts

(* prompt() starts a run when nothing is drained: its messages are the line. *)
LEMMA PromptSends ==
  ASSUME TypeOK, OrderInv, WaitInv, LineInv, NEW k \in 1..MaxPromptBatch, Prompt(k)
  PROVE  LineInv' /\ Posts
<1> DEFINE P == "prompt"
           ms == [i \in 1..k |-> User(P, sent[P] + i)]
<1>1. /\ sent' = [sent EXCEPT ![P] = @ + k] /\ UNCHANGED <<queue, log>>
      /\ pending' = ms /\ pending = <<>>
  BY DEF Prompt, BeginRun, Active, WaitInv
<1>2. P \in Channels /\ P \notin Queues /\ sent[P] \in Nat /\ k \in Nat
  <2>1. MaxPromptBatch \in Nat
    BY ConstantsAssumption
  <2>2. P \in Channels /\ P \notin Queues
    BY DEF Channels, Queues
  <2> QED
    BY <2>1, <2>2 DEF TypeOK
<1>3. ms \in Seq(UserMessages) /\ Len(ms) = k /\ DOMAIN ms = 1..k
  <2>1. \A i \in 1..k : User(P, sent[P] + i) \in UserMessages
    BY <1>2, UserType
  <2>2. ms \in [1..k -> UserMessages]
    BY <2>1
  <2>3. ms \in Seq(UserMessages)
    BY <1>2, <2>2, FunctionIsSeq
  <2> HIDE DEF ms
  <2> QED
    BY <1>2, <2>2, <2>3, LenProperties
<1>4. \A i \in 1..k : ms[i].chan = P /\ ms[i].n = sent[P] + i
  BY DEF User
<1> HIDE DEF ms
<1>5. Uniform(pending)'
  BY <1>1, <1>3, <1>4 DEF Uniform
<1>6. LineInv' /\ SameCounts
  BY <1>1, <1>5, SameLog
<1>7. 1 \in 1..k
  BY <1>2
<1>8. \A d \in Channels : Front(pending, d) = <<>>
  BY <1>1 DEF Front
<1>9. \A d \in Channels \ {P} : Front(pending', d) = <<>>
  BY <1>1, <1>3, <1>4, <1>7 DEF Front
<1>10. \A d \in Channels \ {P} : Line(d)' = Line(d)
  BY <1>1, <1>8, <1>9 DEF Line, Rest
<1>11. Line(P) = <<>>
  BY <1>2, <1>8 DEF Line, Rest
<1>12. Line(P)' = ms
  <2>1. ms # <<>>
    BY <1>3, <1>7
  <2>2. Front(pending', P) = ms
    BY <1>1, <1>3, <1>4, <1>7, <2>1 DEF Front
  <2>3. ms \o <<>> = ms
    BY <1>3
  <2> QED
    BY <1>2, <2>2, <2>3 DEF Line, Rest
<1>13. NumbersOf(ms) = [i \in 1..k |-> sent[P] + i]
  BY <1>3, <1>4 DEF NumbersOf
<1>14. NumbersOf(<<>>) \o [i \in 1..k |-> sent[P] + i] = [i \in 1..k |-> sent[P] + i]
  <2>1. NumbersOf(<<>>) = <<>>
    BY DEF NumbersOf
  <2>2. [i \in 1..k |-> sent[P] + i] \in Seq(Nat)
    <3>1. [i \in 1..k |-> sent[P] + i] \in [1..k -> Nat]
      BY <1>2
    <3> QED
      BY <1>2, <3>1, FunctionIsSeq
  <2> DEFINE o == [i \in 1..k |-> sent[P] + i]
  <2> HIDE DEF o
  <2>3. o \in Seq(Nat)
    BY <2>2 DEF o
  <2>4. <<>> \o o = o
    BY <2>3
  <2> QED
    BY <2>1, <2>4 DEF o
<1>15. NumbersOf(Line(P)') = NumbersOf(Line(P)) \o [i \in 1..k |-> sent[P] + i]
  BY <1>11, <1>12, <1>13, <1>14
<1> QED
  BY <1>1, <1>2, <1>6, <1>10, <1>15 DEF Posts

(* The clear methods and reset() empty queues, never what was drained. *)
LEMMA ClearTakesBack ==
  ASSUME TypeOK, OrderInv, LineInv, UNCHANGED <<pc, pending, sent, log>>,
         \A c \in Queues : queue'[c] = queue[c] \/ queue'[c] = <<>>
  PROVE  LineInv' /\ TakesBack
<1>1. LineInv' /\ SameCounts
  BY SameLog DEF LineInv, Uniform
<1>2. ASSUME NEW c \in Channels
      PROVE  Line(c)' = Line(c) \/ Line(c)' = Front(pending, c)
  <2>1. Front(pending, c) \in Seq(UserMessages)
    BY FrontType DEF TypeOK
  <2>2. Front(pending, c) \o <<>> = Front(pending, c)
    BY <2>1
  <2>3. Line(c)' = Front(pending, c) \o Rest(c)'
    BY DEF Line, Front
  <2>4. Rest(c)' = Rest(c) \/ Rest(c)' = <<>>
    BY DEF Rest
  <2> QED
    BY <2>2, <2>3, <2>4 DEF Line
<1> QED
  BY <1>1, <1>2 DEF TakesBack

(* Every step is one of these to the mailbox, a listener's throw excepted. *)
LEMMA BoxStep ==
  ASSUME BoxInv, [Next]_vars
  PROVE  LineInv' /\ (ListenerFault \/ Unmoved \/ Posts \/ Delivers \/ TakesBack)
<1> USE DEF queueVars, copies, batchVars, counters
<1>0. /\ TypeOK /\ log \in Seq(Messages) /\ pending \in Seq(UserMessages)
      /\ TypeInv /\ OrderInv /\ LogInv /\ WaitInv /\ LineInv
  BY DEF BoxInv, TypeInv, TypeOK
<1>1. CASE \/ Abort \/ \E c \in Queues, m \in QueueModes : SetMode(c, m)
           \/ DropFailure \/ Request \/ FinishRun
           \/ \E o \in orphans : OrphanEnds(o)
           \/ LaunchCalls \/ EndBatch
           \/ \E i \in DOMAIN calls : StartCall(i) \/ RefuseCall(i) \/ AdmitCall(i)
           \/ \E i \in DOMAIN calls, o \in {"ok", "terminate"} : CompleteCall(i, o)
           \/ UNCHANGED vars
  <2>1. UNCHANGED <<pending, log, queue, sent>>
    BY <1>1 DEF Abort, SetMode, DropFailure, Request, FinishRun, OrphanEnds, LaunchCalls, EndBatch,
                StartCall, RefuseCall, AdmitCall, CompleteCall, vars
  <2> QED
    BY <1>0, <2>1, SameLine DEF Unmoved, SameLines
<1>2. ASSUME NEW c \in Queues, Enqueue(c)
      PROVE  LineInv' /\ Posts
  BY <1>0, <1>2, EnqueueSends
<1>3. ASSUME NEW k \in 1..MaxPromptBatch, Prompt(k)
      PROVE  LineInv' /\ Posts
  BY <1>0, <1>3, PromptSends
<1>4. CASE Reset \/ \E cs \in SUBSET Queues : Clear(cs)
  <2>1. /\ UNCHANGED <<pc, pending, sent, log>>
        /\ \A c \in Queues : queue'[c] = queue[c] \/ queue'[c] = <<>>
    BY <1>4 DEF Reset, Clear
  <2> QED
    BY <1>0, <2>1, ClearTakesBack
<1>5. ASSUME NEW c \in Queues, Drain(c), pending = <<>>, UNCHANGED <<sent, log>>
      PROVE  LineInv' /\ Unmoved
  <2>1. Uniform(pending)' /\ \A d \in Channels : Line(d)' = Line(d)
    BY <1>0, <1>5, DrainLine
  <2> QED
    BY <1>0, <1>5, <2>1, SameLog DEF Unmoved, SameLines
<1>6. ASSUME NEW c \in Queues, ContinueQueued(c)
      PROVE  LineInv' /\ Unmoved
  <2>1. pending = <<>> /\ Drain(c) /\ UNCHANGED <<sent, log>>
    BY <1>0, <1>6 DEF ContinueQueued, BeginRun, Active, WaitInv
  <2> QED
    BY <1>5, <2>1
<1>7. CASE PollSteering \/ PollFollowUp
  <2>1. /\ pending = <<>> /\ UNCHANGED <<sent, log>>
        /\ Drain("steering") \/ Drain("followUp")
    BY <1>0, <1>7 DEF PollSteering, PollFollowUp, WaitInv
  <2> QED
    BY <1>5, <2>1 DEF Queues
<1>8. CASE InitialPoll
  <2>1. /\ pending = <<>> /\ UNCHANGED <<sent, log>>
        /\ Drain("steering") \/ UNCHANGED <<queue, pending>>
    BY <1>8 DEF InitialPoll
  <2>2. CASE Drain("steering")
    BY <1>5, <2>1, <2>2 DEF Queues
  <2>3. CASE UNCHANGED <<queue, pending>>
    BY <1>0, <2>1, <2>3, SameLine DEF Unmoved, SameLines
  <2> QED
    BY <2>1, <2>2, <2>3
<1>9. CASE ContinueTranscript \/ LoopFault
  <2>1. UNCHANGED <<pending, log, queue, sent>>
    BY <1>0, <1>9 DEF ContinueTranscript, BeginRun, Active, LoopFault, Abandon, WaitInv
  <2> QED
    BY <1>0, <2>1, SameLine DEF Unmoved, SameLines
<1>10. CASE Announce \/ Inject
  <2>1. /\ pending # <<>> /\ Emit(<<Head(pending)>>) /\ pending' = Tail(pending)
        /\ UNCHANGED <<queue, sent>>
    BY <1>10 DEF Announce, Inject
  <2> QED
    BY <1>0, <2>1, DeliverLine DEF Delivers
<1>11. ASSUME NEW m \in Messages, m.role # "user", Emit(<<m>>), UNCHANGED <<pending, queue, sent>>
       PROVE  LineInv' /\ Unmoved
  BY <1>0, <1>11, OtherLine DEF Unmoved, SameLines
<1>12. ASSUME NEW s \in Stops, NEW k \in 0..MaxCalls, Respond(s, k)
       PROVE  LineInv' /\ Unmoved
  <2> DEFINE m == Assistant(turns + 1, s, k)
  <2>1. k \in Nat /\ turns + 1 \in Nat
    BY <1>0, ConstantsAssumption DEF TypeOK
  <2>2. m \in Messages /\ m.role # "user"
    BY <2>1, AssistantType DEF Assistant
  <2>3. Emit(<<m>>) /\ UNCHANGED <<pending, queue, sent>>
    BY <1>12 DEF Respond
  <2> QED
    BY <1>11, <2>2, <2>3
<1>13. CASE FailRun
  <2>1. /\ UNCHANGED <<pending, queue, sent>>
        /\ \E s \in {"aborted", "error"} : Emit(<<Assistant(turns + 1, s, 0)>>)
    BY <1>13 DEF FailRun
  <2>2. PICK s \in {"aborted", "error"} : Emit(<<Assistant(turns + 1, s, 0)>>)
    BY <2>1
  <2>3. turns + 1 \in Nat
    BY <1>0 DEF TypeOK
  <2>4. Assistant(turns + 1, s, 0) \in Messages /\ Assistant(turns + 1, s, 0).role # "user"
    BY <2>3, AssistantType DEF Assistant, Stops
  <2> QED
    BY <1>11, <2>1, <2>2, <2>4
<1>14. CASE RecordResult
  <2> DEFINE i == recorded + 1
             m == Result(turns, i, calls[i])
  <2>1. /\ i \in DOMAIN calls /\ calls[i] \in Outcomes
        /\ Emit(<<m>>) /\ UNCHANGED <<pending, queue, sent>>
    BY <1>14 DEF RecordResult, InState
  <2>2. turns \in Nat /\ i \in Nat
    BY <1>0 DEF TypeOK
  <2>3. m \in Messages /\ m.role # "user"
    BY <2>1, <2>2, ResultType DEF Result
  <2> QED
    BY <1>11, <2>1, <2>3
<1>15. CASE ListenerFault
  <2>1. pending' = <<>> /\ UNCHANGED log
    BY <1>15 DEF ListenerFault, Abandon
  <2> QED
    BY <1>0, <1>15, <2>1, SameLog DEF Uniform
<1> QED
  BY <1>1, <1>2, <1>3, <1>4, <1>6, <1>7, <1>8, <1>9, <1>10, <1>12, <1>13, <1>14, <1>15
     DEF Next, Caller, Loop, Faults

-----------------------------------------------------------------------------
(* The refinement *)

(* The mailbox before and after a step. *)
LEMMA MailboxOf ==
  ASSUME BoxInv, TypeOK', OrderInv', LineInv'
  PROVE  /\ Waiting = [c \in Channels |-> NumbersOf(Line(c))]
         /\ Waiting' = [c \in Channels |-> NumbersOf(Line(c)')]
         /\ Delivered = [c \in Channels |-> Numbers(log, c)]
         /\ Delivered' = [c \in Channels |-> Numbers(log, c)']
         /\ \A c \in Channels : /\ Line(c) \in Seq(UserMessages)
                                /\ Line(c)' \in Seq(UserMessages)
<1>1. \A c \in Channels : /\ Line(c) \in Seq(UserMessages)
                          /\ Waiting[c] = NumbersOf(Line(c))
                          /\ Delivered[c] = Numbers(log, c)
  BY WaitingIs DEF BoxInv, TypeInv
<1>2. (\A c \in Channels : /\ Line(c) \in Seq(UserMessages)
                           /\ Waiting[c] = NumbersOf(Line(c))
                           /\ Delivered[c] = Numbers(log, c))'
  BY WaitingIs, PTL
<1>3. /\ Waiting = [c \in Channels |-> Waiting[c]]
      /\ Delivered = [c \in Channels |-> Delivered[c]]
  BY DEF Waiting, Delivered
<1>4. (/\ Waiting = [c \in Channels |-> Waiting[c]]
       /\ Delivered = [c \in Channels |-> Delivered[c]])'
  BY DEF Waiting, Delivered
<1> QED
  BY <1>1, <1>2, <1>3, <1>4

(* What was delivered is a list of numbers. *)
LEMMA DeliveredNumbers ==
  TypeOK /\ LineInv => \A c \in Channels : Numbers(log, c) \in Seq(Nat)
BY NumbersType DEF LineInv, TypeOK

(* What the senders still expect on each channel, as lines and deliveries. *)
LEMMA OutstandingOf ==
  ASSUME BoxInv, TypeOK', OrderInv', LineInv', NEW c \in Channels
  PROVE  /\ Outstanding(c) = Len(Line(c)) + Len(Numbers(log, c))
         /\ Outstanding(c)' = Len(Line(c)') + Len(Numbers(log, c)')
         /\ Len(Line(c)) \in Nat /\ Len(Numbers(log, c)) \in Nat
         /\ Len(Line(c)') \in Nat /\ Numbers(log, c) \in Seq(Nat)
<1>1. /\ Waiting[c] = NumbersOf(Line(c)) /\ Waiting'[c] = NumbersOf(Line(c)')
      /\ Delivered[c] = Numbers(log, c) /\ Delivered'[c] = Numbers(log, c)'
      /\ Line(c) \in Seq(UserMessages) /\ Line(c)' \in Seq(UserMessages)
  BY MailboxOf
<1>2. /\ Len(NumbersOf(Line(c))) = Len(Line(c)) /\ Len(NumbersOf(Line(c)')) = Len(Line(c)')
  BY <1>1, NumbersOfLists
<1>3. Numbers(log, c) \in Seq(Nat)
  BY NumbersType DEF BoxInv, LineInv, TypeInv, TypeOK
<1>4. Outstanding(c)' = Len(Waiting'[c]) + Len(Delivered'[c])
  BY DEF Outstanding
<1>5. Outstanding(c) = Len(Waiting[c]) + Len(Delivered[c])
  BY DEF Outstanding
<1> QED
  BY <1>1, <1>2, <1>3, <1>4, <1>5, LenProperties

(* A step that moves nothing is a stutter. *)
LEMMA UnmovedMaps ==
  ASSUME BoxInv, TypeOK', OrderInv', LineInv', Unmoved
  PROVE  /\ UNCHANGED Promise!vars
         /\ \A c \in Channels : Outstanding(c)' = Outstanding(c)
<1>1. /\ \A c \in Channels : Line(c)' = Line(c) /\ Numbers(log, c)' = Numbers(log, c)
      /\ sent' = sent
  BY DEF Unmoved, SameLines, SameCounts
<1>2. Waiting' = Waiting /\ Delivered' = Delivered
  BY <1>1, MailboxOf
<1>3. UNCHANGED Promise!vars
  BY <1>1, <1>2 DEF Promise!vars
<1> QED
  BY <1>1, <1>3, OutstandingOf

(* steer(), followUp() and prompt() are Send. *)
LEMMA SendsMap ==
  ASSUME BoxInv, TypeOK', OrderInv', LineInv', Posts
  PROVE  /\ Promise!Next
         /\ \A c \in Channels : Outstanding(c)' >= Outstanding(c)
<1>1. PICK c \in Channels, k \in {1} \cup 1..MaxPromptBatch :
        /\ sent' = [sent EXCEPT ![c] = @ + k] /\ SameCounts
        /\ NumbersOf(Line(c)') = NumbersOf(Line(c)) \o [i \in 1..k |-> sent[c] + i]
        /\ \A d \in Channels \ {c} : Line(d)' = Line(d)
  BY DEF Posts
<1> DEFINE new == [i \in 1..k |-> sent[c] + i]
<1>2. Waiting' = [Waiting EXCEPT ![c] = @ \o new]
  <2>1. /\ NumbersOf(Line(c)') = NumbersOf(Line(c)) \o new
        /\ \A d \in Channels \ {c} : Line(d)' = Line(d)
    BY <1>1
  <2> HIDE DEF new
  <2>2. /\ Waiting = [d \in Channels |-> Waiting[d]]
        /\ Waiting' = [d \in Channels |-> Waiting'[d]]
    BY MailboxOf
  <2>3. \A d \in Channels : Waiting'[d] = NumbersOf(Line(d)') /\ Waiting[d] = NumbersOf(Line(d))
    BY MailboxOf
  <2>4. Waiting'[c] = Waiting[c] \o new /\ \A d \in Channels \ {c} : Waiting'[d] = Waiting[d]
    BY <2>1, <2>3
  <2> DEFINE w == Waiting[c] \o new
  <2> HIDE DEF w
  <2>5. Waiting' = [Waiting EXCEPT ![c] = w]
    BY <2>2, <2>4 DEF w
  <2> QED
    BY <2>5 DEF w
<1>3. Delivered' = Delivered
  BY <1>1, MailboxOf DEF SameCounts
<1>4. Promise!Send(c, k)
  BY <1>1, <1>2, <1>3 DEF Promise!Send
<1>5. Promise!Next
  BY <1>4 DEF Promise!Next
<1>6. k \in Nat /\ sent[c] \in Nat
  <2>1. MaxPromptBatch \in Nat
    BY ConstantsAssumption
  <2> QED
    BY <2>1 DEF BoxInv, TypeInv, TypeOK
<1>7. new \in Seq(Nat)
  <2>1. new \in [1..k -> Nat]
    BY <1>6
  <2> QED
    BY <1>6, <2>1, FunctionIsSeq
<1>8. Len(Line(c)') >= Len(Line(c))
  <2>1. Line(c) \in Seq(UserMessages) /\ Line(c)' \in Seq(UserMessages)
    BY MailboxOf
  <2>2. /\ NumbersOf(Line(c)) \in Seq(Nat) /\ Len(NumbersOf(Line(c))) = Len(Line(c))
        /\ Len(NumbersOf(Line(c)')) = Len(Line(c)')
    BY <2>1, NumbersOfLists
  <2> HIDE DEF new
  <2>3. /\ Len(NumbersOf(Line(c)) \o new) = Len(NumbersOf(Line(c))) + Len(new)
        /\ Len(new) \in Nat /\ Len(Line(c)) \in Nat
    BY <1>7, <2>1, <2>2, ConcatProperties, LenProperties
  <2>4. NumbersOf(Line(c)') = NumbersOf(Line(c)) \o new
    BY <1>1 DEF new
  <2> QED
    BY <2>2, <2>3, <2>4
<1>9. ASSUME NEW d \in Channels
      PROVE  Outstanding(d)' >= Outstanding(d)
  <2>1. Numbers(log, d)' = Numbers(log, d)
    BY <1>1 DEF SameCounts
  <2>2. Len(Line(d)') >= Len(Line(d))
    <3>1. CASE d = c
      BY <1>8, <3>1
    <3>2. CASE d # c
      BY <1>1, <3>2, OutstandingOf
    <3> QED
      BY <3>1, <3>2
  <2> QED
    BY <2>1, <2>2, OutstandingOf
<1> QED
  BY <1>5, <1>9

(* Emitting a drained message is Deliver. *)
LEMMA DeliversMap ==
  ASSUME BoxInv, TypeOK', OrderInv', LineInv', Delivers
  PROVE  /\ Promise!Next
         /\ \A c \in Channels : Outstanding(c)' = Outstanding(c)
<1>1. PICK c \in Channels :
        /\ Line(c) # <<>> /\ Line(c)' = Tail(Line(c))
        /\ Numbers(log, c)' = Append(Numbers(log, c), Head(Line(c)).n)
        /\ \A d \in Channels \ {c} : /\ Line(d)' = Line(d)
                                     /\ Numbers(log, d)' = Numbers(log, d)
  BY DEF Delivers
<1>2. Line(c) \in Seq(UserMessages)
  BY MailboxOf
<1>3. /\ NumbersOf(Line(c)) # <<>> /\ Head(NumbersOf(Line(c))) = Head(Line(c)).n
      /\ NumbersOf(Tail(Line(c))) = Tail(NumbersOf(Line(c)))
  BY <1>1, <1>2, NumbersOfLists
<1>4. Waiting[c] = NumbersOf(Line(c))
  BY MailboxOf
<1>5. Waiting' = [Waiting EXCEPT ![c] = Tail(@)]
  BY <1>1, <1>3, MailboxOf
<1>6. Delivered' = [Delivered EXCEPT ![c] = Append(@, Head(Waiting[c]))]
  BY <1>1, <1>3, <1>4, MailboxOf
<1>7. Promise!Deliver(c)
  BY <1>3, <1>4, <1>5, <1>6 DEF Promise!Deliver, Delivers
<1>8. Promise!Next
  BY <1>7 DEF Promise!Next
<1>9. /\ Len(Line(c)') = Len(Line(c)) - 1
      /\ Len(Numbers(log, c)') = Len(Numbers(log, c)) + 1
  <2>1. Len(Tail(Line(c))) = Len(Line(c)) - 1
    BY <1>1, <1>2, HeadTailProperties
  <2>2. Numbers(log, c) \in Seq(Nat) /\ Head(Line(c)).n \in Nat
    <3>1. Head(Line(c)) \in UserMessages
      BY <1>1, <1>2, HeadTailProperties
    <3> QED
      BY <3>1, OutstandingOf DEF UserMessages
  <2>3. Len(Append(Numbers(log, c), Head(Line(c)).n)) = Len(Numbers(log, c)) + 1
    BY <2>2, AppendProperties
  <2> QED
    BY <1>1, <2>1, <2>3
<1>10. ASSUME NEW d \in Channels
       PROVE  Outstanding(d)' = Outstanding(d)
  <2>1. CASE d = c
    BY <1>9, <2>1, OutstandingOf
  <2>2. CASE d # c
    BY <1>1, <2>2, OutstandingOf
  <2> QED
    BY <2>1, <2>2
<1> QED
  BY <1>8, <1>10

(* Emptying queues is Discard: what is left is the front of each line. *)
LEMMA TakesBackMaps ==
  ASSUME BoxInv, TypeOK', OrderInv', LineInv', TakesBack
  PROVE  Promise!Next
<1>1. Delivered' = Delivered /\ UNCHANGED sent
  BY MailboxOf DEF TakesBack, SameCounts
<1>2. ASSUME NEW c \in Channels
      PROVE  \E k \in 0..Len(Waiting[c]) : Waiting'[c] = SubSeq(Waiting[c], 1, k)
  <2> DEFINE ns == NumbersOf(Line(c))
             f == Front(pending, c)
  <2>1. /\ Line(c) \in Seq(UserMessages) /\ Waiting[c] = ns /\ Waiting'[c] = NumbersOf(Line(c)')
    BY MailboxOf
  <2>2. ns \in Seq(Nat) /\ Len(ns) = Len(Line(c)) /\ Len(ns) \in Nat
    BY <2>1, NumbersOfLists, LenProperties
  <2>3. CASE Line(c)' = Line(c)
    <3> HIDE DEF ns
    <3>1. SubSeq(ns, 1, Len(ns)) = ns
      BY <2>2
    <3>2. Waiting'[c] = SubSeq(Waiting[c], 1, Len(Waiting[c]))
      BY <2>1, <2>3, <3>1 DEF ns
    <3> QED
      BY <2>1, <2>2, <3>2
  <2>4. CASE Line(c)' = f
    <3>1. f \in Seq(UserMessages) /\ Rest(c) \in Seq(UserMessages) /\ Line(c) = f \o Rest(c)
      BY FrontType, LineType DEF BoxInv, TypeInv, TypeOK, Line
    <3> HIDE DEF f
    <3>2. /\ Len(Line(c)) = Len(f) + Len(Rest(c)) /\ Len(f) \in Nat /\ Len(Rest(c)) \in Nat
          /\ \A i \in 1..Len(f) : Line(c)[i] = f[i]
      BY <3>1, Joined
    <3>3. SubSeq(ns, 1, Len(f)) = [i \in 1..Len(f) |-> ns[i]]
      <4> HIDE DEF ns
      <4> QED
        BY <2>2, <3>2
    <3>4. \A i \in 1..Len(f) : ns[i] = f[i].n
      BY <2>2, <3>2 DEF NumbersOf
    <3>5. NumbersOf(f) = [i \in 1..Len(f) |-> ns[i]]
      BY <3>4 DEF NumbersOf
    <3>6. Waiting'[c] = SubSeq(Waiting[c], 1, Len(f)) /\ Len(f) \in 0..Len(Waiting[c])
      <4> HIDE DEF ns
      <4> QED
        BY <2>1, <2>2, <2>4, <3>2, <3>3, <3>5
    <3> QED
      BY <3>6
  <2> QED
    BY <2>3, <2>4 DEF TakesBack
<1>3. Waiting' = [c \in Channels |-> Waiting'[c]]
  BY DEF Waiting
<1> QED
  BY <1>1, <1>2, <1>3 DEF Promise!Next, Promise!Discard

(* Every step but a listener's throw keeps the promise, and a message leaves *)
(* the mailbox undelivered only when its caller takes it back.               *)
LEMMA PromiseStep ==
  ASSUME BoxInv, BoxInv', [Next]_vars, ~ListenerFault
  PROVE  /\ [Promise!Next]_(Promise!vars)
         /\ \A c \in Channels :
              Outstanding(c)' < Outstanding(c) => UNCHANGED <<pc, pending>>
<1>1. Unmoved \/ Posts \/ Delivers \/ TakesBack
  BY BoxStep
<1>2. /\ TypeOK' /\ OrderInv' /\ LineInv'
      /\ (\A c \in Channels : Numbers(log, c) \in Seq(Nat))'
  <2>1. TypeOK' /\ OrderInv' /\ LineInv'
    BY DEF BoxInv, TypeInv
  <2>2. (\A c \in Channels : Numbers(log, c) \in Seq(Nat))'
    BY <2>1, DeliveredNumbers, PTL
  <2> QED
    BY <2>1, <2>2
<1>3. ASSUME NEW c \in Channels
      PROVE  Outstanding(c) \in Int /\ Outstanding(c)' \in Int
  <2>1. Numbers(log, c)' \in Seq(Nat)
    BY <1>2
  <2>2. Len(Numbers(log, c)') \in Nat
    BY <2>1, LenProperties
  <2> QED
    BY <1>2, <2>2, OutstandingOf
<1>4. CASE Unmoved
  BY <1>2, <1>3, <1>4, UnmovedMaps
<1>5. CASE Posts
  BY <1>2, <1>3, <1>5, SendsMap
<1>6. CASE Delivers
  BY <1>2, <1>3, <1>6, DeliversMap
<1>7. CASE TakesBack
  BY <1>2, <1>7, TakesBackMaps DEF TakesBack
<1> QED
  BY <1>1, <1>4, <1>5, <1>6, <1>7

(* Nothing is sent, waiting or delivered at first. *)
LEMMA PromiseInit == Init => LineInv /\ Promise!Init
<1> SUFFICES ASSUME Init PROVE LineInv /\ Promise!Init
  OBVIOUS
<1>1. /\ pending = <<>> /\ log = <<>> /\ queue = [c \in Queues |-> <<>>]
      /\ sent = [c \in Channels |-> 0]
  BY DEF Init
<1>2. ASSUME NEW c
      PROVE  Places(<<>>, c) = {} /\ Numbers(<<>>, c) = <<>> /\ Counted(<<>>, c)
  <2>1. Places(<<>>, c) = {}
    BY DEF Places
  <2>2. Cardinality(Places(<<>>, c)) = 0
    BY <2>1, FS_EmptySet
  <2> QED
    BY <2>1, <2>2 DEF Numbers, Counted
<1>3. LineInv
  BY <1>1, <1>2 DEF LineInv, Uniform
<1>4. \A c \in Channels : pending \o (IF c \in Queues THEN queue[c] ELSE <<>>) = <<>>
  BY <1>1
<1>5. Waiting = [c \in Channels |-> <<>>]
  BY <1>2, <1>4 DEF Waiting
<1>6. Delivered = [c \in Channels |-> <<>>]
  BY <1>1, <1>2 DEF Delivered
<1> QED
  BY <1>1, <1>3, <1>5, <1>6 DEF Promise!Init

(* The invariant the refinement rests on. *)
LEMMA BoxHolds == Spec => []BoxInv
<1>1. Init => BoxInv
  <2>1. Init => WaitInv
    BY DEF Init, WaitInv, Waits, LastIsAssistant
  <2> QED
    BY <2>1, TypeInit, OrderInit, LogInit, PromiseInit DEF BoxInv
<1>2. BoxInv /\ [Next]_vars => BoxInv'
  <2>1. BoxInv /\ [Next]_vars => LineInv'
    BY BoxStep
  <2>2. BoxInv /\ [Next]_vars => TypeInv' /\ OrderInv' /\ LogInv' /\ WaitInv'
    BY TypeStep, OrderStep, LogStep, WaitStep DEF BoxInv
  <2> QED
    BY <2>1, <2>2 DEF BoxInv
<1> QED
  BY <1>1, <1>2, PTL DEF Spec

(* A listener that throws is all that can break the promise: every other    *)
(* step, failing callbacks and aborts included, is a step of the mailbox.    *)
THEOREM OnlyListenersBreakIt ==
  Spec => [][ListenerFault \/ [Promise!Next]_(Promise!vars)]_vars
<1>1. BoxInv /\ BoxInv' /\ [Next]_vars =>
        [ListenerFault \/ [Promise!Next]_(Promise!vars)]_vars
  BY PromiseStep
<1> QED
  BY <1>1, BoxHolds, PTL DEF Spec

(* As long as no listener throws, the loop, with whatever its callers do    *)
(* between its steps, is a mailbox: messages of a channel come out in the   *)
(* order they were sent, each once, and only clearing takes any away.       *)
THEOREM LoopIsAMailbox ==
  ASSUME ListenerFaults = FALSE
  PROVE  Spec => KeepsPromise
<1>1. Init => Promise!Init
  BY PromiseInit
<1>2. BoxInv /\ BoxInv' /\ [Next]_vars => [Promise!Next]_(Promise!vars)
  BY PromiseStep DEF ListenerFault
<1> QED
  BY <1>1, <1>2, BoxHolds, PTL DEF Spec, KeepsPromise, Promise!Spec

(* As long as no listener throws, a message that is neither waiting nor     *)
(* delivered was taken back by its sender: no step of the run drops one.    *)
THEOREM NothingIsLost ==
  ASSUME ListenerFaults = FALSE
  PROVE  Spec => LosesNothing
<1>1. BoxInv /\ BoxInv' /\ [Next]_vars =>
        [ \A c \in Channels :
            Outstanding(c)' < Outstanding(c) => UNCHANGED <<pc, pending>> ]_vars
  BY PromiseStep DEF ListenerFault
<1> QED
  BY <1>1, BoxHolds, PTL DEF Spec, LosesNothing
=============================================================================
