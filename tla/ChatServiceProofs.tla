-------------------------- MODULE ChatServiceProofs --------------------------
(* Proofs about ChatService and the sessions below it: types, that no       *)
(* message is left waiting in a session at rest, and that a session has the *)
(* tools of the mode.                                                       *)
EXTENDS ChatService, TLAPS

-----------------------------------------------------------------------------
(* The inductive invariant *)

Dozing == {"sleeping", "cancelled", "compacting", "recovering", "recoveringCut"}
Working == Dozing \cup {"running"}
Ended == {"settling", "failing"}
InSession == Working \cup Ended \cup {"input", "preflight"}

(* A prompt that has come to a session has one. *)
Placed == \A m \in Messages : pc[m] \in InSession => at[m] \in Sessions

(* The run of a session belongs to the one prompt that is running there. *)
Owned ==
  /\ \A s \in Sessions : sess[s].runner # Nobody =>
       pc[sess[s].runner] = "running" /\ at[sess[s].runner] = s
  /\ \A m \in Messages : pc[m] = "running" => sess[at[m]].runner = m

(* A session that is not idle has a prompt at work. *)
Alive ==
  \A s \in Sessions : sess[s].active =>
    \E m \in Messages : at[m] = s /\ pc[m] \in Working

(* What follows a run knows of the response it ended with. *)
Heeds(r) == r.stage \in {"more", "stopped", "ending"} /\ ~r.gone =>
              r.outcome # "none"
Heeded == \A s \in Sessions : Heeds(sess[s])

Links == SessionTypes /\ Placed /\ Owned /\ Alive /\ Heeded /\ NothingStranded

(* What an order may still have to do, and when it has nothing yet. *)
Errands == Works \cup {<<>>, <<"dispose">>}
Ordered ==
  \A o \in Orders :
    /\ todo[o] \in Errands
    /\ Creating(o) => Doing(o, "ensure")
    /\ pc[o] = "unsent" => todo[o] = <<>>

(* A session that is being made has been given the tools of the mode so     *)
(* far, unless the mode has changed meanwhile.                              *)
Chosen(a) ==
  /\ Creating(a) /\ ~plan[a].crossed => plan[a].custom = mode
  /\ pc[a] = "binding" /\ ~plan[a].crossed => plan[a].builtin = mode

Service ==
  /\ ServiceTypes
  /\ Ordered
  /\ \A a \in Callers : Chosen(a)
  /\ ToolsMatchMode

IInv == Links /\ Service

(* r2 and p are a session and a prompt after the prompt m has gone on from  *)
(* the session r.                                                           *)
After(m, r, r2, p) ==
  /\ Sound(r2)
  /\ Heeds(r2)
  /\ p \in Working \cup Ended
  /\ p = "running" => r2.runner = m /\ r.runner = Nobody
  /\ p # "running" => r2.runner = r.runner
  /\ p \in Ended =>
       ~r2.active /\ (r2.gone \/ ~HasQueued(r2) \/ r2.runner # Nobody)

GoesOn(m, r) ==
  \E r2 \in Records : \E p \in Pcs :
    After(m, r, r2, p) /\ Becomes(at[m], r2) /\ Goes(m, p)

-----------------------------------------------------------------------------
(* What follows a run *)

(* Taking a message from a queue. *)
LEMMA TakenSound ==
  ASSUME NEW r \in Records, NEW k \in Channels, r.queue[k] # <<>>
  PROVE  /\ Taken(r, k) \in Records
         /\ Len(Taken(r, k).pending) = 1
         /\ Taken(r, k) = [r EXCEPT !.pending = Taken(r, k).pending,
                                    !.queue = Taken(r, k).queue]
<1>1. r.queue \in [Channels -> Seq(Messages)]
  BY DEF Records
<1>2. Head(r.queue[k]) \in Messages /\ Tail(r.queue[k]) \in Seq(Messages)
  BY <1>1
<1>3. <<Head(r.queue[k])>> \in Seq(Messages) /\ Len(<<Head(r.queue[k])>>) = 1
  BY <1>2
<1>4. [r.queue EXCEPT ![k] = Tail(@)] \in [Channels -> Seq(Messages)]
  BY <1>1, <1>2
<1>5. Taken(r, k) = [r EXCEPT !.pending = <<Head(r.queue[k])>>,
                              !.queue = [r.queue EXCEPT ![k] = Tail(@)]]
  BY DEF Taken, Records
<1> QED BY <1>3, <1>4, <1>5 DEF Records

(* A prompt settles with nothing queued, or with another's run to see to it. *)
LEMMA SettleGoesOn ==
  ASSUME NEW m \in Messages, NEW r, Sound(r), Heeds(r), NEW p \in Ended,
         Settle(m, r, p),
         r.gone \/ ~HasQueued(r) \/ r.runner # Nobody
  PROVE  GoesOn(m, r)
<1> DEFINE r2 == [r EXCEPT !.active = FALSE]
<1>1. r2 \in Records /\ Sound(r2)
  BY DEF Sound, Records
<1>2. r2.queue = r.queue /\ r2.gone = r.gone /\ r2.runner = r.runner /\ ~r2.active
      /\ r2.stage = r.stage /\ r2.outcome = r.outcome
  BY DEF Sound, Records
<1>3. After(m, r, r2, p)
  BY <1>1, <1>2 DEF After, Heeds, HasQueued, Ended, Working, Dozing
<1>4. p \in Pcs
  BY DEF Ended, Pcs
<1> QED BY <1>1, <1>3, <1>4 DEF GoesOn, Settle

(* A run that starts for a prompt. *)
LEMMA RunGoesOn ==
  ASSUME NEW m \in Messages, NEW r \in Records, NEW q \in Records,
         NEW g \in {"begin", "poll"}, RunsFrom(m, q, g), ~Busy(r),
         Len(q.pending) = IF g = "begin" THEN 1 ELSE 0
  PROVE  GoesOn(m, r)
<1> USE SessionAssumption
<1> DEFINE r2 == [q EXCEPT !.runner = m, !.stage = g, !.aborted = FALSE]
<1>1. m # Nobody
  BY DEF Callers
<1>2. r2 \in Records /\ Sound(r2)
  BY <1>1 DEF Sound, Records, Stages
<1>3. r2.runner = m /\ r2.stage = g
  BY DEF Records
<1>4. After(m, r, r2, "running")
  BY <1>2, <1>3 DEF After, Heeds, Working, Ended, Busy
<1>5. "running" \in Pcs
  BY DEF Pcs
<1> QED BY <1>2, <1>4, <1>5 DEF GoesOn, RunsFrom

(* agent.continue() *)
LEMMA ContinueGoesOn ==
  ASSUME NEW m \in Messages, NEW r, Sound(r), Heeds(r), Continue(m, r)
  PROVE  GoesOn(m, r)
<1>1. r \in Records
  BY DEF Sound
<1>2. CASE Busy(r)
  <2>1. Settle(m, r, "failing")
    BY <1>2 DEF Continue
  <2> QED BY <2>1, <1>2, SettleGoesOn DEF Busy, Ended
<1>3. CASE ~Busy(r) /\ r.last = "user"
  <2> DEFINE q == [r EXCEPT !.skip = FALSE]
  <2>1. RunsFrom(m, q, "poll")
    BY <1>3 DEF Continue
  <2>2. q \in Records /\ Len(q.pending) = 0
    BY <1>3 DEF Busy, Sound, Records
  <2>3. Len(q.pending) = IF "poll" = "begin" THEN 1 ELSE 0
    BY <2>2
  <2> HIDE DEF q
  <2> QED BY <1>1, <1>3, <2>1, <2>2, <2>3, RunGoesOn
<1>4. ASSUME ~Busy(r), NEW k \in Channels, r.queue[k] # <<>>, NEW b \in BOOLEAN,
             RunsFrom(m, [Taken(r, k) EXCEPT !.skip = b], "begin")
      PROVE  GoesOn(m, r)
  <2> DEFINE q == [Taken(r, k) EXCEPT !.skip = b]
  <2>1. Taken(r, k) \in Records /\ Len(Taken(r, k).pending) = 1
    BY <1>1, <1>4, TakenSound
  <2>2. q \in Records /\ Len(q.pending) = 1
    BY <2>1 DEF Records
  <2>3. RunsFrom(m, q, "begin") /\ Len(q.pending) = IF "begin" = "begin" THEN 1 ELSE 0
    BY <1>4, <2>2
  <2> HIDE DEF q
  <2> QED BY <1>1, <1>4, <2>2, <2>3, RunGoesOn
<1>5. CASE ~Busy(r) /\ r.last = "assistant" /\ HasQueued(r)
  BY <1>4, <1>5 DEF Continue, HasQueued, Channels
<1>6. CASE ~Busy(r) /\ r.last = "assistant" /\ ~HasQueued(r)
  <2>1. Settle(m, r, "failing")
    BY <1>6 DEF Continue, HasQueued, Channels
  <2> QED BY <2>1, <1>6, SettleGoesOn DEF Ended
<1>7. r.last \in {"user", "assistant"}
  BY <1>1 DEF Records
<1> QED BY <1>2, <1>3, <1>5, <1>6, <1>7

(* Nothing is left in the queue by a prompt that settles. *)
LEMMA ContinueOrSettleGoesOn ==
  ASSUME NEW m \in Messages, NEW r, Sound(r), Heeds(r), ContinueOrSettle(m, r)
  PROVE  GoesOn(m, r)
BY ContinueGoesOn, SettleGoesOn DEF ContinueOrSettle, Ended

(* A prompt that waits: the session has changed in what no link speaks of. *)
LEMMA DozeGoesOn ==
  ASSUME NEW m \in Messages, NEW r, NEW r2, Sound(r2), Heeds(r2), NEW p \in Dozing,
         Becomes(at[m], r2), Goes(m, p), r2.runner = r.runner
  PROVE  GoesOn(m, r)
BY DEF GoesOn, After, Sound, Dozing, Working, Ended, Pcs

(* _checkCompaction() *)
LEMMA CheckCompactionGoesOn ==
  ASSUME NEW m \in Messages, NEW r, Sound(r), Heeds(r), NEW o,
         CheckCompaction(m, r, o)
  PROVE  GoesOn(m, r)
<1>1. CASE ContinueOrSettle(m, r)
  BY <1>1, ContinueOrSettleGoesOn
<1>2. CASE Becomes(at[m], r) /\ Goes(m, "compacting")
  BY <1>2, DozeGoesOn DEF Dozing
<1>3. ASSUME NEW p \in {"recovering", "recoveringCut"}, Goes(m, p),
             Becomes(at[m], [r EXCEPT !.recovered = TRUE, !.last = "user"])
      PROVE  GoesOn(m, r)
  <2> DEFINE r2 == [r EXCEPT !.recovered = TRUE, !.last = "user"]
  <2>1. Sound(r2) /\ Heeds(r2) /\ r2.runner = r.runner
    BY DEF Sound, Heeds, Records
  <2>2. Becomes(at[m], r2) /\ p \in Dozing
    BY <1>3 DEF Dozing
  <2> HIDE DEF r2
  <2> QED BY <1>3, <2>1, <2>2, DozeGoesOn
<1> QED BY <1>1, <1>2, <1>3 DEF CheckCompaction

Woken(r, a, l, w) ==
  [r EXCEPT !.outcome = "none", !.attempt = a, !.last = l, !.sleeper = w]

(* Neither the outcome, the attempt, the role of the last message nor who   *)
(* sleeps is what a link speaks of.                                         *)
LEMMA HeardSound ==
  ASSUME NEW r, Sound(r), r.stage = "idle", NEW a \in 0..MaxRetries,
         NEW l \in {"user", "assistant"}, NEW w \in Messages \cup {Nobody}
  PROVE  LET r2 == Woken(r, a, l, w)
         IN  Sound(r2) /\ Heeds(r2) /\ r2.runner = r.runner /\ r2.gone = r.gone
<1> DEFINE r2 == [r EXCEPT !.outcome = "none", !.attempt = a, !.last = l, !.sleeper = w]
<1>1. "none" \in Outcomes
  BY DEF Outcomes
<1>2. r \in Records
  BY DEF Sound
<1>3. r2 \in Records
  BY <1>1, <1>2 DEF Records
<1>4. r2.runner = r.runner /\ r2.gone = r.gone /\ r2.stage = r.stage
      /\ r2.pending = r.pending
  BY <1>2 DEF Records
<1>5. Sound(r2)
  BY <1>3, <1>4 DEF Sound
<1>6. Heeds(r2)
  BY <1>4 DEF Heeds
<1> QED BY <1>4, <1>5, <1>6 DEF Woken

(* _handlePostAgentRun(), after a run whose response it knows. *)
LEMMA PostRunGoesOn ==
  ASSUME NEW m \in Messages, NEW r, Sound(r), r.stage = "idle",
         r.gone \/ r.outcome # "none", PostRun(m, r)
  PROVE  GoesOn(m, r)
<1> USE SessionAssumption
<1> DEFINE reset == IF r.outcome \in Errors THEN 0 ELSE r.attempt
<1>1. /\ r \in Records
      /\ r.attempt \in 0..MaxRetries
      /\ r.last \in {"user", "assistant"}
      /\ r.sleeper \in Messages \cup {Nobody}
  BY DEF Sound, Records
<1>2. [r EXCEPT !.outcome = "none"] = Woken(r, r.attempt, r.last, r.sleeper)
  BY <1>1 DEF Records, Woken
<1>3. [[r EXCEPT !.outcome = "none"] EXCEPT !.attempt = @ + 1, !.last = "user",
                                            !.sleeper = m]
      = Woken(r, r.attempt + 1, "user", m)
  BY <1>1 DEF Records, Woken
<1>4. [[r EXCEPT !.outcome = "none"] EXCEPT
         !.attempt = IF r.outcome \in Errors THEN 0 ELSE @]
      = Woken(r, reset, r.last, r.sleeper)
  BY <1>1 DEF Records, Woken
<1>5. reset \in 0..MaxRetries
  BY <1>1
<1>6. ASSUME NEW a \in 0..MaxRetries, NEW l \in {"user", "assistant"},
             NEW w \in Messages \cup {Nobody}
      PROVE  /\ Sound(Woken(r, a, l, w)) /\ Heeds(Woken(r, a, l, w))
             /\ Woken(r, a, l, w).runner = r.runner /\ Woken(r, a, l, w).gone = r.gone
  BY HeardSound
<1> HIDE DEF reset
<1>7. CASE r.outcome = "none" /\ Settle(m, Woken(r, r.attempt, r.last, r.sleeper), "settling")
  <2>1. GoesOn(m, Woken(r, r.attempt, r.last, r.sleeper))
    BY <1>1, <1>6, <1>7, SettleGoesOn DEF Ended
  <2> QED BY <1>1, <1>6, <2>1 DEF GoesOn, After
<1>8. CASE /\ r.attempt < MaxRetries
           /\ Becomes(at[m], Woken(r, r.attempt + 1, "user", m)) /\ Goes(m, "sleeping")
  <2>1. r.attempt + 1 \in 0..MaxRetries
    BY <1>1, <1>8
  <2> QED BY <1>6, <1>8, <2>1, DozeGoesOn DEF Dozing
<1>9. CASE CheckCompaction(m, Woken(r, reset, r.last, r.sleeper), r.outcome)
  <2>1. GoesOn(m, Woken(r, reset, r.last, r.sleeper))
    BY <1>1, <1>5, <1>6, <1>9, CheckCompactionGoesOn
  <2> QED BY <1>1, <1>5, <1>6, <2>1 DEF GoesOn, After
<1> QED BY <1>2, <1>3, <1>4, <1>7, <1>8, <1>9 DEF PostRun

-----------------------------------------------------------------------------
(* The links of sessions and prompts are kept *)

(* A prompt goes on, and with it the run it owns.                           *)
LEMMA GoingOnKeepsLinks ==
  ASSUME Links, NEW m \in Messages, at[m] \in Sessions, NEW r, GoesOn(m, r),
         \/ r.runner = sess[at[m]].runner /\ pc[m] # "running"
         \/ r.runner = Nobody /\ sess[at[m]].runner = m,
         UNCHANGED <<at, delivered, restored, tools>>
  PROVE  Links'
<1> USE SessionAssumption
<1> DEFINE s == at[m]
<1>1. PICK r2 \in Records, p \in Pcs :
        After(m, r, r2, p) /\ Becomes(s, r2) /\ Goes(m, p)
  BY DEF GoesOn
<1>2. /\ sess \in [Sessions -> Records] /\ pc \in [Callers -> Pcs]
      /\ m \in Callers /\ m # Nobody /\ Messages \subseteq Callers
      /\ s \in Sessions
  BY DEF Links, SessionTypes, Callers
<1>3. /\ sess' = [sess EXCEPT ![s] = r2] /\ pc' = [pc EXCEPT ![m] = p] /\ at' = at
      /\ sess'[s] = r2 /\ pc'[m] = p
      /\ \A t \in Sessions : t # s => sess'[t] = sess[t]
      /\ \A n \in Callers : n # m => pc'[n] = pc[n]
  BY <1>1, <1>2 DEF Becomes, Goes
<1> HIDE DEF s
<1>4. SessionTypes'
  <2>1. sess' \in [Sessions -> Records] /\ pc' \in [Callers -> Pcs]
    BY <1>1, <1>2, <1>3
  <2>2. \A t \in Sessions : Sound(sess'[t])
    BY <1>1, <1>3 DEF Links, SessionTypes, After
  <2> QED BY <2>1, <2>2 DEF Links, SessionTypes, Sound
<1>5. Placed'
  BY <1>2, <1>3 DEF Links, Placed, s
<1>6. Owned'
  <2>1. ASSUME NEW t \in Sessions, sess'[t].runner # Nobody
        PROVE  pc'[sess'[t].runner] = "running" /\ at'[sess'[t].runner] = t
    <3>1. CASE t # s
      <4>1. sess[t].runner # Nobody /\ sess'[t].runner = sess[t].runner
        BY <1>3, <2>1, <3>1
      <4>2. pc[sess[t].runner] = "running" /\ at[sess[t].runner] = t
        BY <4>1 DEF Links, Owned
      <4>3. sess[t].runner # m /\ sess[t].runner \in Callers
        BY <1>2, <3>1, <4>1, <4>2 DEF Records, s
      <4> QED BY <1>3, <4>1, <4>2, <4>3
    <3>2. CASE t = s /\ p = "running"
      BY <1>1, <1>3, <3>2 DEF After, s
    <3>3. CASE t = s /\ p # "running"
      <4>1. sess'[t].runner = r.runner /\ r.runner # Nobody
        BY <1>1, <1>3, <2>1, <3>3 DEF After
      <4>2. r.runner = sess[s].runner /\ pc[m] # "running"
        BY <4>1 DEF s
      <4>3. pc[r.runner] = "running" /\ at[r.runner] = s
        BY <1>2, <4>1, <4>2 DEF Links, Owned
      <4>4. r.runner # m /\ r.runner \in Callers
        BY <1>2, <4>1, <4>2, <4>3 DEF Records
      <4> QED BY <1>3, <3>3, <4>1, <4>3, <4>4
    <3> QED BY <3>1, <3>2, <3>3
  <2>2. ASSUME NEW n \in Messages, pc'[n] = "running"
        PROVE  sess'[at'[n]].runner = n
    <3>1. CASE n = m
      BY <1>1, <1>3, <2>2, <3>1 DEF After, s
    <3>2. CASE n # m
      <4>1. pc[n] = "running" /\ at[n] \in Sessions /\ n # Nobody
        BY <1>2, <1>3, <2>2, <3>2 DEF Links, Placed, InSession, Working, Callers
      <4>2. sess[at[n]].runner = n
        BY <4>1 DEF Links, Owned
      <4>3. CASE at[n] # s
        BY <1>3, <4>1, <4>2, <4>3
      <4>4. CASE at[n] = s
        <5>1. r.runner = n
          BY <3>2, <4>2, <4>4 DEF s
        <5>2. p # "running" /\ r2.runner = r.runner
          BY <1>1, <4>1, <5>1 DEF After
        <5> QED BY <1>3, <4>4, <5>1, <5>2
      <4> QED BY <4>3, <4>4
    <3> QED BY <3>1, <3>2
  <2> QED BY <2>1, <2>2 DEF Owned
<1>7. ASSUME NEW t \in Sessions, t # s, NEW n \in Messages, at[n] = t
      PROVE  pc'[n] = pc[n]
  BY <1>2, <1>3, <1>7 DEF s
<1>8. Alive'
  <2> SUFFICES ASSUME NEW t \in Sessions, sess'[t].active
               PROVE  \E n \in Messages : at'[n] = t /\ pc'[n] \in Working
    BY DEF Alive
  <2>1. CASE t # s
    BY <1>3, <1>7, <2>1 DEF Links, Alive
  <2>2. CASE t = s
    BY <1>1, <1>3, <2>2 DEF After, s
  <2> QED BY <2>1, <2>2
<1>9. Heeded'
  BY <1>1, <1>3 DEF Links, Heeded, After
<1>10. NothingStranded'
  <2> SUFFICES ASSUME NEW t \in Sessions, HasQueued(sess'[t])
               PROVE  \/ sess'[t].gone
                      \/ sess'[t].runner # Nobody
                      \/ \E n \in Messages : at'[n] = t /\ pc'[n] \in Dozing
    BY DEF NothingStranded, Dozing
  <2>1. CASE t # s
    BY <1>3, <1>7, <2>1 DEF Links, NothingStranded, Dozing
  <2>2. CASE t = s /\ p \in Ended
    BY <1>1, <1>3, <2>2 DEF After
  <2>3. CASE t = s /\ p = "running"
    BY <1>1, <1>2, <1>3, <2>3 DEF After
  <2>4. CASE t = s /\ p \in Dozing
    BY <1>3, <2>4 DEF s
  <2> QED BY <1>1, <2>1, <2>2, <2>3, <2>4 DEF After, Working
<1> QED BY <1>4, <1>5, <1>6, <1>8, <1>9, <1>10 DEF Links

(* Every other step: no run changes hands, and a queue grows only in a      *)
(* session that is at work.                                                 *)
LEMMA OthersKeepLinks ==
  ASSUME Links, SessionTypes', Placed', Heeded',
         \A s \in Sessions :
           /\ sess'[s].runner = sess[s].runner
           /\ sess'[s].active => sess[s].active
           /\ sess[s].gone => sess'[s].gone
           /\ HasQueued(sess'[s]) => \/ HasQueued(sess[s])
                                     \/ sess[s].active
                                     \/ sess[s].runner # Nobody,
         \A m \in Messages :
           /\ pc[m] \in Working => at'[m] = at[m]
           /\ pc'[m] = "running" <=> pc[m] = "running"
           /\ pc[m] \in Dozing => pc'[m] \in Dozing
  PROVE  Links'
<1> USE SessionAssumption
<1>1. Owned'
  <2>1. ASSUME NEW s \in Sessions, sess'[s].runner # Nobody
        PROVE  pc'[sess'[s].runner] = "running" /\ at'[sess'[s].runner] = s
    <3>1. pc[sess[s].runner] = "running" /\ at[sess[s].runner] = s
      BY <2>1 DEF Links, Owned
    <3>2. sess[s].runner \in Messages
      BY <2>1 DEF Links, SessionTypes, Records
    <3> QED BY <3>1, <3>2 DEF Working
  <2>2. ASSUME NEW m \in Messages, pc'[m] = "running"
        PROVE  sess'[at'[m]].runner = m
    <3>1. pc[m] = "running" /\ at[m] \in Sessions /\ at'[m] = at[m]
      BY <2>2 DEF Links, Placed, InSession, Working
    <3> QED BY <3>1 DEF Links, Owned
  <2> QED BY <2>1, <2>2 DEF Owned
<1>2. ASSUME NEW m \in Messages, pc[m] \in Working
      PROVE  pc'[m] \in Working /\ at'[m] = at[m]
  BY <1>2 DEF Working
<1>3. Alive'
  BY <1>2 DEF Links, Alive
<1>4. NothingStranded'
  <2> SUFFICES ASSUME NEW s \in Sessions, HasQueued(sess'[s])
               PROVE  \/ sess'[s].gone
                      \/ sess'[s].runner # Nobody
                      \/ \E m \in Messages : at'[m] = s /\ pc'[m] \in Dozing
    BY DEF NothingStranded, Dozing
  <2>1. \/ sess[s].gone \/ sess[s].runner # Nobody
        \/ \E m \in Messages : at[m] = s /\ pc[m] \in Dozing
    <3>1. CASE HasQueued(sess[s])
      BY <3>1 DEF Links, NothingStranded, Dozing
    <3>2. CASE sess[s].active
      <4>1. PICK m \in Messages : at[m] = s /\ pc[m] \in Working
        BY <3>2 DEF Links, Alive
      <4>2. CASE pc[m] = "running"
        BY <4>1, <4>2 DEF Links, Owned, Callers
      <4> QED BY <4>1, <4>2 DEF Working
    <3> QED BY <3>1, <3>2
  <2> QED BY <1>2, <2>1 DEF Working
<1> QED BY <1>1, <1>3, <1>4 DEF Links

-----------------------------------------------------------------------------
(* The steps of a prompt and of its run *)

(* What a prompt knows of its session. *)
LEMMA Comes ==
  ASSUME Links, NEW m \in Messages, pc[m] \in InSession
  PROVE  /\ at[m] \in Sessions /\ sess[at[m]] \in Records
         /\ Sound(sess[at[m]]) /\ Heeds(sess[at[m]])
BY DEF Links, SessionTypes, Placed, Heeded

(* agent.prompt(): the prompt owns the run, or is refused. *)
LEMMA StartRunKeepsLinks ==
  ASSUME Links, NEW m \in Messages, StartRun(m)
  PROVE  Links'
<1> DEFINE r == [sess[at[m]] EXCEPT !.active = TRUE]
           q == [r EXCEPT !.pending = <<m>>, !.skip = FALSE]
<1>1. pc[m] = "preflight"
  BY DEF StartRun
<1>2. /\ at[m] \in Sessions /\ sess[at[m]] \in Records
      /\ Sound(sess[at[m]]) /\ Heeds(sess[at[m]])
  BY <1>1, Comes DEF InSession
<1>3. r \in Records /\ Sound(r) /\ Heeds(r) /\ r.runner = sess[at[m]].runner
  BY <1>2 DEF Records, Sound, Heeds
<1>4. \/ Busy(r) /\ Settle(m, r, "failing")
      \/ ~Busy(r) /\ RunsFrom(m, q, "begin")
  BY DEF StartRun
<1>5. q \in Records /\ Len(q.pending) = 1
  <2>1. <<m>> \in Seq(Messages) /\ Len(<<m>>) = 1
    OBVIOUS
  <2> HIDE DEF r
  <2>2. q \in Records /\ q.pending = <<m>>
    BY <1>3, <2>1 DEF Records
  <2> QED BY <2>1, <2>2
<1>6. Len(q.pending) = IF "begin" = "begin" THEN 1 ELSE 0
  BY <1>5
<1>7. UNCHANGED <<at, delivered, restored, tools>>
  BY DEF StartRun
<1> HIDE DEF r, q
<1>8. GoesOn(m, r)
  BY <1>3, <1>4, <1>5, <1>6, SettleGoesOn, RunGoesOn DEF Busy, Ended
<1> QED BY <1>1, <1>2, <1>3, <1>7, <1>8, GoingOnKeepsLinks

(* The steps after the sleep, the retry's end and the summaries. *)
LEMMA DozingKeepsLinks ==
  ASSUME Links, NEW m \in Messages,
         Wakes(m) \/ RetryCancelled(m) \/ CompactionEnds(m) \/ RecoveryEnds(m)
  PROVE  Links'
<1> USE SessionAssumption
<1> DEFINE r == sess[at[m]]
<1>1. pc[m] \in Dozing
  BY DEF Wakes, RetryCancelled, CompactionEnds, RecoveryEnds, Dozing
<1>2. at[m] \in Sessions /\ r \in Records /\ Sound(r) /\ Heeds(r)
  BY <1>1, Comes DEF InSession, Working
<1>3. UNCHANGED <<at, delivered, restored, tools>>
  BY DEF Wakes, RetryCancelled, CompactionEnds, RecoveryEnds
<1>4. ASSUME NEW q, q.runner = r.runner, GoesOn(m, q)
      PROVE  Links'
  BY <1>1, <1>2, <1>3, <1>4, GoingOnKeepsLinks DEF Dozing
<1>5. CASE Wakes(m)
  <2> DEFINE q == [r EXCEPT !.sleeper = Nobody]
  <2>1. Sound(q) /\ Heeds(q) /\ q.runner = r.runner
    BY <1>2 DEF Records, Sound, Heeds
  <2>2. Continue(m, q)
    BY <1>5 DEF Wakes
  <2> HIDE DEF q, r
  <2> QED BY <1>4, <2>1, <2>2, ContinueGoesOn
<1>6. CASE RetryCancelled(m)
  <2> DEFINE q == [r EXCEPT !.sleeper = Nobody, !.attempt = 0]
  <2>1. Sound(q) /\ Heeds(q) /\ q.runner = r.runner
    <3>1. 0 \in 0..MaxRetries
      OBVIOUS
    <3> HIDE DEF r
    <3>2. /\ q \in Records /\ q.stage = r.stage /\ q.gone = r.gone
          /\ q.outcome = r.outcome /\ q.pending = r.pending /\ q.runner = r.runner
      BY <1>2, <3>1 DEF Records
    <3> HIDE DEF q
    <3> QED BY <1>2, <3>2 DEF Sound, Heeds
  <2>2. CheckCompaction(m, q, "retryable")
    BY <1>6 DEF RetryCancelled
  <2> HIDE DEF q, r
  <2> QED BY <1>4, <2>1, <2>2, CheckCompactionGoesOn
<1>7. ASSUME NEW l \in {"user", "assistant"}
      PROVE  LET q == [r EXCEPT !.last = l]
             IN  Sound(q) /\ Heeds(q) /\ q.runner = r.runner
  BY <1>2 DEF Records, Sound, Heeds
<1>8. CASE CompactionEnds(m)
  <2>1. ContinueOrSettle(m, r) \/ ContinueOrSettle(m, [r EXCEPT !.last = "assistant"])
    BY <1>8 DEF CompactionEnds
  <2> HIDE DEF r
  <2> QED BY <1>2, <1>4, <1>7, <2>1, ContinueOrSettleGoesOn
<1>9. CASE RecoveryEnds(m)
  <2>1. \/ ContinueOrSettle(m, r)
        \/ \E l \in {"user", "assistant"} : Continue(m, [r EXCEPT !.last = l])
    BY <1>9 DEF RecoveryEnds
  <2> HIDE DEF r
  <2> QED BY <1>2, <1>4, <1>7, <2>1, ContinueGoesOn, ContinueOrSettleGoesOn
<1> QED BY <1>5, <1>6, <1>8, <1>9

(* finishRun() and what follows the run. *)
LEMMA RunEndsKeepsLinks ==
  ASSUME Links, NEW s \in Sessions, RunEnds(s)
  PROVE  Links'
<1> USE SessionAssumption
<1> DEFINE r == sess[s]
           m == r.runner
           q == FinishRun(r)
<1>1. r \in Records /\ Sound(r) /\ Heeds(r)
  BY DEF Links, SessionTypes, Heeded
<1>2. r.stage = "ending" /\ PostRun(m, q) /\ UNCHANGED <<at, delivered, restored, tools>>
  BY DEF RunEnds
<1>3. m \in Messages /\ at[m] = s /\ m # Nobody
  BY <1>1, <1>2 DEF Sound, Records, Links, Owned
<1>4. /\ q \in Records /\ q.runner = Nobody /\ q.stage = "idle"
      /\ q.pending = r.pending /\ q.gone = r.gone /\ q.outcome = r.outcome
  BY <1>1 DEF Records, FinishRun, Stages
<1>5. Sound(q)
  BY <1>1, <1>2, <1>4 DEF Sound
<1>6. q.gone \/ q.outcome # "none"
  BY <1>1, <1>2, <1>4 DEF Heeds
<1> HIDE DEF q
<1>7. GoesOn(m, q)
  BY <1>2, <1>3, <1>4, <1>5, <1>6, PostRunGoesOn
<1> QED BY <1>2, <1>3, <1>4, <1>7, GoingOnKeepsLinks

(* A step of a run that is under way. *)
LEMMA StepOfARun ==
  ASSUME Links, NEW s \in Sessions, sess[s].runner # Nobody,
         NEW r2, Sound(r2), Heeds(r2), Becomes(s, r2),
         r2.runner = sess[s].runner, r2.active = sess[s].active,
         r2.gone = sess[s].gone,
         delivered' \in [Messages -> Nat], tools' \in 0..MaxTools,
         UNCHANGED <<pc, at, restored>>
  PROVE  Links'
<1>1. /\ sess \in [Sessions -> Records] /\ sess' = [sess EXCEPT ![s] = r2]
      /\ sess'[s] = r2 /\ \A t \in Sessions : t # s => sess'[t] = sess[t]
  BY DEF Links, SessionTypes, Becomes
<1>2. sess' \in [Sessions -> Records] /\ \A t \in Sessions : Sound(sess'[t])
  BY <1>1 DEF Links, SessionTypes, Sound
<1>3. SessionTypes'
  BY <1>2 DEF Links, SessionTypes, Sound
<1>4. Placed' /\ Heeded'
  BY <1>1 DEF Links, Placed, Heeded
<1>5. \A t \in Sessions : /\ sess'[t].runner = sess[t].runner
                          /\ sess'[t].active = sess[t].active
                          /\ sess'[t].gone = sess[t].gone
                          /\ sess'[t] = sess[t] \/ sess[t].runner # Nobody
  BY <1>1
<1> QED BY <1>3, <1>4, <1>5, OthersKeepLinks

(* A session with an owner, in words its lemmas need. *)
LEMMA UnderWay ==
  ASSUME Links, NEW s \in Sessions, sess[s].stage # "idle"
  PROVE  /\ sess[s] \in Records /\ Sound(sess[s]) /\ sess[s].runner # Nobody
         /\ delivered \in [Messages -> Nat] /\ tools \in 0..MaxTools
BY DEF Links, SessionTypes, Sound

(* The next request. *)
LEMMA RequestSound ==
  ASSUME NEW r \in Records, r.runner # Nobody, Len(r.pending) = 0
  PROVE  /\ Sound(Request(r)) /\ Heeds(Request(r))
         /\ Request(r).runner = r.runner /\ Request(r).active = r.active
         /\ Request(r).gone = r.gone
<1> DEFINE g == IF r.aborted THEN "refused" ELSE "stream"
           q == Request(r)
<1>1. /\ q = [r EXCEPT !.stage = g]
      /\ g \in Stages /\ g \notin {"idle", "begin", "inject", "more", "stopped", "ending"}
  BY DEF Request, Stages
<1> HIDE DEF g
<1>2. /\ q \in Records /\ q.stage = g /\ q.runner = r.runner
      /\ q.active = r.active /\ q.gone = r.gone /\ q.pending = r.pending
  BY <1>1 DEF Records
<1> HIDE DEF q
<1> QED BY <1>1, <1>2 DEF Sound, Heeds, q

(* A poll that finds a message. *)
LEMMA TakenKeepsLinks ==
  ASSUME Links, NEW s \in Sessions, sess[s].stage # "idle", NEW k \in Channels,
         sess[s].queue[k] # <<>>,
         Becomes(s, [Taken(sess[s], k) EXCEPT !.stage = "inject"]),
         UNCHANGED <<pc, at, delivered, restored, tools>>
  PROVE  Links'
<1> DEFINE r == sess[s]
           t == Taken(r, k)
           q == [t EXCEPT !.stage = "inject"]
<1>1. r \in Records /\ r.runner # Nobody
      /\ delivered \in [Messages -> Nat] /\ tools \in 0..MaxTools
  BY UnderWay
<1> HIDE DEF r
<1>2. /\ t \in Records /\ Len(t.pending) = 1
      /\ t = [r EXCEPT !.pending = t.pending, !.queue = t.queue]
  BY <1>1, TakenSound DEF r
<1> HIDE DEF t
<1>3. t.runner = r.runner /\ t.active = r.active /\ t.gone = r.gone
  BY <1>1, <1>2 DEF Records
<1>4. /\ q \in Records /\ q.stage = "inject" /\ q.pending = t.pending
      /\ q.runner = t.runner /\ q.active = t.active /\ q.gone = t.gone
  BY <1>2 DEF Records, Stages
<1>5. Becomes(s, q)
  BY DEF q, t, r
<1> HIDE DEF q
<1>6. Sound(q) /\ Heeds(q)
  BY <1>1, <1>2, <1>3, <1>4 DEF Sound, Heeds
<1> QED BY <1>1, <1>3, <1>4, <1>5, <1>6, StepOfARun DEF r

(* A list of messages without one of them. *)
LEMMA WithoutSeq ==
  ASSUME NEW q \in Seq(Messages), NEW m
  PROVE  Without(q, m) \in Seq(Messages)
<1>1. CASE Has(q, m)
  <2>1. Len(q) - 1 \in Nat
    BY <1>1 DEF Has
  <2>2. \A j \in 1..(Len(q) - 1) :
          (IF j < IndexOf(q, m) THEN q[j] ELSE q[j + 1]) \in Messages
    OBVIOUS
  <2> QED BY <1>1, <2>1, <2>2 DEF Without
<1>2. CASE ~Has(q, m)
  BY <1>2 DEF Without
<1> QED BY <1>1, <1>2

(* A list that is shown loses a message, and nothing else changes. *)
LEMMA UnshownSound ==
  ASSUME NEW r \in Records, NEW m
  PROVE  /\ Unshown(r, m) \in Records
         /\ Unshown(r, m).runner = r.runner /\ Unshown(r, m).active = r.active
         /\ Unshown(r, m).gone = r.gone /\ Unshown(r, m).stage = r.stage
<1> DEFINE k == IF Has(r.shown["steer"], m) THEN "steer" ELSE "followUp"
           x == [r.shown EXCEPT ![k] = Without(@, m)]
<1>1. r.shown \in [Channels -> Seq(Messages)] /\ k \in Channels
  BY DEF Records, Channels
<1>2. Unshown(r, m) = [r EXCEPT !.recovered = FALSE, !.shown = x]
  BY DEF Unshown, Records
<1> HIDE DEF k
<1>3. Without(r.shown[k], m) \in Seq(Messages)
  BY <1>1, WithoutSeq
<1>4. x \in [Channels -> Seq(Messages)]
  BY <1>1, <1>3
<1> HIDE DEF x
<1> QED BY <1>2, <1>4 DEF Records

(* message_start and message_end of a user message. *)
LEMMA InjectKeepsLinks ==
  ASSUME Links, NEW s \in Sessions, Inject(s)
  PROVE  Links'
<1> DEFINE r == sess[s]
           m == Head(r.pending)
           h == IF r.gone THEN r ELSE Unshown(r, m)
           e == [h EXCEPT !.pending = <<>>, !.last = "user"]
           b == [e EXCEPT !.stage = "poll"]
<1>1. /\ r.stage \in {"begin", "inject"}
      /\ Becomes(s, IF r.stage = "begin" THEN b ELSE Request(e))
      /\ delivered' = [delivered EXCEPT ![m] = @ + 1]
      /\ UNCHANGED <<pc, at, restored, tools>>
  BY DEF Inject
<1>2. /\ r \in Records /\ Sound(r) /\ r.runner # Nobody
      /\ delivered \in [Messages -> Nat] /\ tools \in 0..MaxTools
  BY <1>1, UnderWay
<1> HIDE DEF r
<1>3. m \in Messages
  BY <1>1, <1>2 DEF Sound, Records
<1>4. delivered' \in [Messages -> Nat] /\ tools' \in 0..MaxTools
  BY <1>1, <1>2, <1>3
<1> HIDE DEF m
<1>5. h \in Records /\ h.runner = r.runner /\ h.active = r.active /\ h.gone = r.gone
  BY <1>2, UnshownSound
<1> HIDE DEF h
<1>6. /\ e \in Records /\ e.runner = r.runner /\ e.active = r.active
      /\ e.gone = r.gone /\ Len(e.pending) = 0
  <2>1. <<>> \in Seq(Messages) /\ Len(<<>>) = 0
    OBVIOUS
  <2> QED BY <1>5, <2>1 DEF Records
<1> HIDE DEF e
<1>7. CASE r.stage = "begin"
  <2>1. /\ b \in Records /\ b.runner = r.runner /\ b.active = r.active
        /\ b.gone = r.gone /\ Len(b.pending) = 0 /\ b.stage = "poll"
    BY <1>6 DEF Records, Stages
  <2>2. Becomes(s, b)
    BY <1>1, <1>7
  <2> HIDE DEF b
  <2>3. Sound(b) /\ Heeds(b)
    BY <1>2, <2>1 DEF Sound, Heeds
  <2> QED BY <1>1, <1>2, <1>4, <2>1, <2>2, <2>3, StepOfARun DEF r
<1>8. CASE r.stage = "inject"
  <2>1. Becomes(s, Request(e))
    BY <1>1, <1>8
  <2> QED BY <1>1, <1>2, <1>4, <1>6, <2>1, RequestSound, StepOfARun DEF r
<1> QED BY <1>1, <1>7, <1>8

(* The poll that begins a run. *)
LEMMA InitialPollKeepsLinks ==
  ASSUME Links, NEW s \in Sessions, InitialPoll(s)
  PROVE  Links'
<1> DEFINE r == sess[s]
           q == [r EXCEPT !.skip = FALSE]
<1>1. r.stage = "poll" /\ UNCHANGED <<pc, at, delivered, restored, tools>>
  BY DEF InitialPoll
<1>2. /\ r \in Records /\ Sound(r) /\ r.runner # Nobody
      /\ delivered \in [Messages -> Nat] /\ tools \in 0..MaxTools
  BY <1>1, UnderWay
<1>3. \/ Becomes(s, Request(q))
      \/ r.queue["steer"] # <<>> /\ Becomes(s, [Taken(r, "steer") EXCEPT !.stage = "inject"])
      \/ Becomes(s, Request(r))
  BY DEF InitialPoll
<1>4. /\ q \in Records /\ q.runner = r.runner /\ q.active = r.active
      /\ q.gone = r.gone /\ q.pending = r.pending
  BY <1>2 DEF Records
<1>5. Len(r.pending) = 0
  BY <1>1, <1>2 DEF Sound
<1> HIDE DEF q
<1>6. ASSUME NEW x \in Records, Becomes(s, Request(x)), x.runner = r.runner,
             x.active = r.active, x.gone = r.gone, x.pending = r.pending
      PROVE  Links'
  BY <1>1, <1>2, <1>5, <1>6, RequestSound, StepOfARun
<1> QED BY <1>1, <1>2, <1>3, <1>4, <1>6, TakenKeepsLinks DEF Channels

(* The polls after a turn. *)
LEMMA PollQueuesKeepsLinks ==
  ASSUME Links, NEW s \in Sessions, PollQueues(s)
  PROVE  Links'
<1> DEFINE r == sess[s]
           q == [r EXCEPT !.stage = "ending"]
<1>1. r.stage \in {"more", "stopped"} /\ UNCHANGED <<pc, at, delivered, restored, tools>>
  BY DEF PollQueues
<1>2. /\ r \in Records /\ Sound(r) /\ r.runner # Nobody /\ Heeds(r)
      /\ delivered \in [Messages -> Nat] /\ tools \in 0..MaxTools
  BY <1>1, UnderWay DEF Links, Heeded
<1>3. \/ Becomes(s, Request(r))
      \/ Becomes(s, q)
      \/ \E k \in Channels :
           /\ r.queue[k] # <<>>
           /\ Becomes(s, [Taken(r, k) EXCEPT !.stage = "inject"])
  BY DEF PollQueues, Channels
<1>4. Len(r.pending) = 0
  BY <1>1, <1>2 DEF Sound
<1>5. CASE Becomes(s, Request(r))
  BY <1>1, <1>2, <1>4, <1>5, RequestSound, StepOfARun
<1>6. CASE Becomes(s, q)
  <2>1. /\ q \in Records /\ q.runner = r.runner /\ q.active = r.active
        /\ q.gone = r.gone /\ q.pending = r.pending /\ q.stage = "ending"
        /\ q.outcome = r.outcome
    BY <1>2 DEF Records, Stages
  <2> HIDE DEF q
  <2>2. Sound(q) /\ Heeds(q)
    BY <1>1, <1>2, <1>4, <2>1 DEF Sound, Heeds
  <2> QED BY <1>1, <1>2, <1>6, <2>1, <2>2, StepOfARun
<1> QED BY <1>1, <1>3, <1>5, <1>6, TakenKeepsLinks

(* A response: while the session listens, it is told the outcome. *)
LEMMA RespondKeepsLinks ==
  ASSUME Links, NEW s \in Sessions, Respond(s)
  PROVE  Links'
<1> USE SessionAssumption
<1> DEFINE r == sess[s]
<1>1. r.stage \in {"stream", "refused"} /\ UNCHANGED <<pc, at, delivered, restored>>
  BY DEF Respond
<1>2. /\ r \in Records /\ Sound(r) /\ r.runner # Nobody
      /\ delivered \in [Messages -> Nat] /\ tools \in 0..MaxTools
  BY <1>1, UnderWay
<1>3. PICK o \in Answers(r) :
        /\ tools' = IF o = "tools" THEN tools + 1 ELSE tools
        /\ tools' <= MaxTools
        /\ Becomes(s,
             [IF r.gone THEN r ELSE Heard(r, o) EXCEPT
               !.last = IF o = "tools" THEN "user" ELSE "assistant",
               !.stage = CASE o = "tools" -> "more"
                           [] o \in {"stop", "cut"} -> "stopped"
                           [] OTHER -> "ending"])
  BY DEF Respond
<1>4. tools' \in 0..MaxTools
  BY <1>2, <1>3
<1>5. o \in Outcomes /\ o # "none"
  BY DEF Answers, Outcomes, Errors
<1> HIDE DEF r
<1> DEFINE h == IF r.gone THEN r ELSE Heard(r, o)
           l == IF o = "tools" THEN "user" ELSE "assistant"
           g == CASE o = "tools" -> "more"
                  [] o \in {"stop", "cut"} -> "stopped"
                  [] OTHER -> "ending"
           q == [h EXCEPT !.last = l, !.stage = g]
<1>6. Becomes(s, q)
  BY <1>3
<1>7. /\ h \in Records /\ h.runner = r.runner /\ h.active = r.active
      /\ h.gone = r.gone /\ h.pending = r.pending /\ (h.gone \/ h.outcome # "none")
  <2>1. CASE r.gone
    BY <1>2, <2>1
  <2>2. CASE ~r.gone
    <3> DEFINE b == o \in Errors /\ r.recovered
               a == IF o \in Errors THEN r.attempt ELSE 0
    <3>1. b \in BOOLEAN /\ a \in 0..MaxRetries
      <4>1. r.attempt \in 0..MaxRetries /\ 0 \in 0..MaxRetries
        BY <1>2 DEF Records
      <4>2. r.recovered \in BOOLEAN
        BY <1>2 DEF Records
      <4> QED BY <4>1, <4>2
    <3>2. h = [r EXCEPT !.outcome = o, !.recovered = b, !.attempt = a]
      BY <1>2, <2>2 DEF Heard, Records
    <3> HIDE DEF a, b, h
    <3> QED BY <1>2, <1>5, <3>1, <3>2 DEF Records
  <2> QED BY <2>1, <2>2
<1>8. /\ l \in {"user", "assistant"}
      /\ g \in Stages /\ g \in {"more", "stopped", "ending"}
  BY DEF Stages
<1> HIDE DEF h, l, g
<1>9. /\ q \in Records /\ q.runner = r.runner /\ q.active = r.active
      /\ q.gone = r.gone /\ q.pending = r.pending /\ q.stage = g
      /\ (q.gone \/ q.outcome # "none")
  BY <1>7, <1>8 DEF Records
<1> HIDE DEF q
<1>10. Sound(q) /\ Heeds(q)
  BY <1>1, <1>2, <1>8, <1>9 DEF Sound, Heeds
<1> QED BY <1>1, <1>2, <1>4, <1>6, <1>9, <1>10, StepOfARun DEF r

-----------------------------------------------------------------------------
(* Steps that no run takes *)

(* Nothing but what a prompt or an order is doing changes.                  *)
LEMMA CallersKeepLinks ==
  ASSUME Links, UNCHANGED <<sess, delivered, restored, tools>>,
         pc' \in [Callers -> Pcs], at' \in [Callers -> Sessions \cup {None}],
         Placed',
         \A m \in Messages :
           /\ pc[m] \in Working => at'[m] = at[m]
           /\ pc'[m] = "running" <=> pc[m] = "running"
           /\ pc[m] \in Dozing => pc'[m] \in Dozing
  PROVE  Links'
<1>1. SessionTypes' /\ Heeded'
  BY DEF Links, SessionTypes, Heeded, Sound, Heeds
<1>2. \A s \in Sessions : sess'[s] = sess[s]
  OBVIOUS
<1> QED BY <1>1, <1>2, OthersKeepLinks

(* One caller goes on, by itself.                                           *)
LEMMA CallerKeepsLinks ==
  ASSUME Links, NEW a \in Callers, NEW p \in Pcs, Goes(a, p),
         pc[a] \notin Working, p # "running", NEW s \in Sessions \cup {None},
         at' = [at EXCEPT ![a] = s], p \in InSession => s \in Sessions,
         UNCHANGED <<sess, delivered, restored, tools>>
  PROVE  Links'
<1> USE SessionAssumption
<1>1. pc \in [Callers -> Pcs] /\ at \in [Callers -> Sessions \cup {None}]
  BY DEF Links, SessionTypes
<1>2. /\ pc' = [pc EXCEPT ![a] = p] /\ pc'[a] = p /\ at'[a] = s
      /\ \A m \in Callers : m # a => pc'[m] = pc[m] /\ at'[m] = at[m]
  BY <1>1 DEF Goes
<1>3. pc' \in [Callers -> Pcs] /\ at' \in [Callers -> Sessions \cup {None}]
  BY <1>1, <1>2
<1>4. Placed'
  BY <1>2 DEF Links, Placed, Callers
<1>5. ASSUME NEW m \in Messages
      PROVE  /\ pc[m] \in Working => at'[m] = at[m]
             /\ pc'[m] = "running" <=> pc[m] = "running"
             /\ pc[m] \in Dozing => pc'[m] \in Dozing
  BY <1>2 DEF Callers, Working
<1> QED BY <1>3, <1>4, <1>5, CallersKeepLinks

(* ... and stays where it was.                                              *)
LEMMA CallerStaysAndKeepsLinks ==
  ASSUME Links, NEW a \in Callers, NEW p \in Pcs, Goes(a, p),
         pc[a] \notin Working, p # "running", p \in InSession => at[a] \in Sessions,
         UNCHANGED <<sess, at, delivered, restored, tools>>
  PROVE  Links'
<1>1. at \in [Callers -> Sessions \cup {None}]
  BY DEF Links, SessionTypes
<1>2. at' = [at EXCEPT ![a] = at[a]] /\ at[a] \in Sessions \cup {None}
  BY <1>1
<1> QED BY <1>2, CallerKeepsLinks

(* Steps of callers on their own. *)
LEMMA CallerStepKeepsLinks ==
  ASSUME Links, made \in 0..MaxSessions, current \in Sessions \cup {None},
         \/ \E m \in Messages : Handled(m) \/ Preflight(m) \/ PreflightFails(m)
         \/ \E a \in Callers : Reloaded(a) \/ Created(a) \/ CreateFails(a)
         \/ \E m \in Messages : Send(m)
         \/ \E o \in Orders : Order(o) \/ OrderEnsures(o)
  PROVE  Links'
<1> USE SessionAssumption
<1>1. Messages \subseteq Callers /\ Orders \subseteq Callers
  BY DEF Callers
<1>2. {"handled", "preflight", "reported", "binding", "creating", "ready", "input"}
        \subseteq Pcs
  BY DEF Pcs, Final
<1>3. ASSUME NEW m \in Messages, Handled(m) \/ Preflight(m) \/ PreflightFails(m)
      PROVE  Links'
  <2>1. pc[m] \in {"input", "preflight"} /\ at[m] \in Sessions
    BY <1>3 DEF Handled, Preflight, PreflightFails, Links, Placed, InSession
  <2>2. \E p \in {"handled", "preflight", "reported"} : Goes(m, p)
    BY <1>3 DEF Handled, Preflight, PreflightFails
  <2>3. UNCHANGED <<sess, at, delivered, restored, tools>>
    BY <1>3 DEF Handled, Preflight, PreflightFails
  <2> QED BY <1>1, <1>2, <2>1, <2>2, <2>3, CallerStaysAndKeepsLinks
            DEF Working, Dozing
<1>4. ASSUME NEW a \in Callers, BeginCreating(a), pc[a] \in {"unsent", "ready"}
      PROVE  Links'
  BY <1>2, <1>4, CallerStaysAndKeepsLinks
     DEF BeginCreating, Working, Dozing, InSession, Ended
<1>5. ASSUME NEW a \in Callers, Reloaded(a)
      PROVE  Links'
  BY <1>2, <1>5, CallerStaysAndKeepsLinks
     DEF Reloaded, Working, Dozing, InSession, Ended
<1>6. ASSUME NEW a \in Callers, CreateFails(a)
      PROVE  Links'
  <2>1. pc[a] \in {"creating", "binding"} /\ UNCHANGED <<sess, at, delivered, restored, tools>>
    BY <1>6 DEF CreateFails, Creating
  <2>2. Goes(a, "reported") \/ Goes(a, "ready")
    BY <1>6 DEF CreateFails
  <2> QED BY <1>2, <2>1, <2>2, CallerStaysAndKeepsLinks
            DEF Working, Dozing, InSession, Ended
<1>7. ASSUME NEW a \in Callers, Created(a)
      PROVE  Links'
  <2>1. /\ pc[a] = "binding" /\ made' \in Sessions
        /\ UNCHANGED <<sess, delivered, restored, tools>>
    BY <1>7 DEF Created, Sessions
  <2>2. CASE Goes(a, "input") /\ at' = [at EXCEPT ![a] = made']
    BY <1>2, <2>1, <2>2, CallerKeepsLinks DEF Working, Dozing
  <2>3. CASE Goes(a, "ready") /\ UNCHANGED at
    BY <1>2, <2>1, <2>3, CallerStaysAndKeepsLinks
       DEF Working, Dozing, InSession, Ended
  <2> QED BY <1>7, <2>2, <2>3 DEF Created, Enters
<1>8. ASSUME NEW m \in Messages, Send(m)
      PROVE  Links'
  <2>1. CASE BeginCreating(m)
    BY <1>1, <1>4, <1>8, <2>1 DEF Send
  <2>2. CASE current # None /\ Enters(m, current)
            /\ UNCHANGED <<sess, delivered, restored, tools>>
    <3>1. pc[m] = "unsent" /\ Goes(m, "input") /\ at' = [at EXCEPT ![m] = current]
      BY <1>8, <2>2 DEF Send, Enters
    <3> QED BY <1>1, <1>2, <2>2, <3>1, CallerKeepsLinks DEF Working, Dozing
  <2> QED BY <1>8, <2>1, <2>2 DEF Send
<1>9. ASSUME NEW o \in Orders, Order(o)
      PROVE  Links'
  BY <1>1, <1>2, <1>9, CallerStaysAndKeepsLinks
     DEF Order, Working, Dozing, InSession, Ended
<1>10. ASSUME NEW o \in Orders, OrderEnsures(o)
       PROVE  Links'
  <2>1. CASE UNCHANGED sessionVars
    BY <2>1, CallersKeepLinks DEF sessionVars, Links, SessionTypes, Placed
  <2>2. CASE BeginCreating(o)
    BY <1>1, <1>4, <1>10, <2>2 DEF OrderEnsures
  <2> QED BY <1>10, <2>1, <2>2 DEF OrderEnsures
<1> QED BY <1>3, <1>5, <1>6, <1>7, <1>8, <1>9, <1>10

(* A session is changed by a caller, in nothing that makes a run.           *)
LEMMA SessionKeepsLinks ==
  ASSUME Links, NEW s \in Sessions, NEW r2, Sound(r2), Heeds(r2), Becomes(s, r2),
         r2.runner = sess[s].runner, r2.active = sess[s].active,
         sess[s].gone => r2.gone,
         HasQueued(r2) => HasQueued(sess[s]) \/ sess[s].active,
         pc' \in [Callers -> Pcs], at' \in [Callers -> Sessions \cup {None}],
         restored' \subseteq Messages, UNCHANGED <<delivered, tools>>,
         Placed',
         \A m \in Messages :
           /\ pc[m] \in Working => at'[m] = at[m]
           /\ pc'[m] = "running" <=> pc[m] = "running"
           /\ pc[m] \in Dozing => pc'[m] \in Dozing
  PROVE  Links'
<1>1. /\ sess \in [Sessions -> Records] /\ sess' = [sess EXCEPT ![s] = r2]
      /\ sess'[s] = r2 /\ \A t \in Sessions : t # s => sess'[t] = sess[t]
  BY DEF Links, SessionTypes, Becomes
<1>2. sess' \in [Sessions -> Records] /\ \A t \in Sessions : Sound(sess'[t])
  BY <1>1 DEF Links, SessionTypes, Sound
<1>3. SessionTypes'
  BY <1>2 DEF Links, SessionTypes, Sound
<1>4. Heeded'
  BY <1>1 DEF Links, Heeded
<1>5. \A t \in Sessions :
        /\ sess'[t].runner = sess[t].runner
        /\ sess'[t].active => sess[t].active
        /\ sess[t].gone => sess'[t].gone
        /\ HasQueued(sess'[t]) => HasQueued(sess[t]) \/ sess[t].active
  BY <1>1
<1> QED BY <1>3, <1>4, <1>5, OthersKeepLinks

(* A message waits in a session that is at work. *)
LEMMA QueueKeepsLinks ==
  ASSUME Links, NEW m \in Messages, NEW k \in Channels, Queue(m, k)
  PROVE  Links'
<1> USE SessionAssumption
<1> DEFINE s == at[m]
           r == sess[s]
           x == [r.queue EXCEPT ![k] = Append(@, m)]
           y == [r.shown EXCEPT ![k] = Append(@, m)]
           q == [r EXCEPT !.queue = x, !.shown = y]
<1>1. pc[m] = "input" /\ r.active /\ Goes(m, "queued")
      /\ UNCHANGED <<at, delivered, restored, tools>>
  BY DEF Queue
<1>2. s \in Sessions /\ r \in Records /\ Sound(r) /\ Heeds(r)
  BY <1>1, Comes DEF InSession
<1>3. sess \in [Sessions -> Records]
  BY DEF Links, SessionTypes
<1>4. Becomes(s, q)
  BY <1>2, <1>3 DEF Queue, Becomes, Records
<1>5. x \in [Channels -> Seq(Messages)] /\ y \in [Channels -> Seq(Messages)]
  BY <1>2 DEF Records
<1> HIDE DEF x, y
<1>6. /\ q \in Records /\ q.runner = r.runner /\ q.active = r.active
      /\ q.gone = r.gone /\ q.pending = r.pending /\ q.stage = r.stage
      /\ q.outcome = r.outcome
  BY <1>2, <1>5 DEF Records
<1> HIDE DEF q
<1>7. Sound(q) /\ Heeds(q)
  BY <1>2, <1>6 DEF Sound, Heeds
<1>8. pc \in [Callers -> Pcs] /\ "queued" \in Pcs /\ restored \subseteq Messages
      /\ at \in [Callers -> Sessions \cup {None}] /\ m \in Callers
  BY DEF Links, SessionTypes, Pcs, Final, Callers
<1>9. /\ pc' = [pc EXCEPT ![m] = "queued"] /\ pc'[m] = "queued"
      /\ \A n \in Messages : n # m => pc'[n] = pc[n]
  BY <1>1, <1>8 DEF Goes, Callers
<1>10. pc' \in [Callers -> Pcs]
  BY <1>8, <1>9
<1>11. Placed'
  BY <1>1, <1>9 DEF Links, Placed, InSession, Working, Dozing, Ended
<1>12. ASSUME NEW n \in Messages
       PROVE  /\ pc[n] \in Working => at'[n] = at[n]
              /\ pc'[n] = "running" <=> pc[n] = "running"
              /\ pc[n] \in Dozing => pc'[n] \in Dozing
  BY <1>1, <1>9 DEF Dozing
<1> QED BY <1>1, <1>2, <1>4, <1>6, <1>7, <1>8, <1>10, <1>11, <1>12, SessionKeepsLinks

(* agent_settled. *)
LEMMA SettledKeepsLinks ==
  ASSUME Links, NEW m \in Messages, Settled(m)
  PROVE  Links'
<1> USE SessionAssumption
<1>1. /\ pc[m] \in Ended /\ UNCHANGED <<sess, at, delivered, restored, tools>>
      /\ pc' = [a \in Callers |->
                 IF a = m THEN IF pc[m] = "settling" THEN "done" ELSE "reported"
                 ELSE IF a \in Resolved(at[m]) THEN "idle" ELSE pc[a]]
  BY DEF Settled, Ended
<1>2. /\ pc \in [Callers -> Pcs] /\ at \in [Callers -> Sessions \cup {None}]
      /\ {"done", "reported", "idle"} \subseteq Pcs
  BY DEF Links, SessionTypes, Pcs, Final
<1>3. pc' \in [Callers -> Pcs]
  BY <1>1, <1>2
<1>4. \A n \in Messages : n # m => pc'[n] = pc[n]
  BY <1>1 DEF Resolved, Callers
<1>5. pc'[m] \in {"done", "reported"}
  BY <1>1 DEF Callers
<1>6. Placed'
  BY <1>1, <1>4, <1>5 DEF Links, Placed, InSession, Working, Dozing, Ended
<1>7. ASSUME NEW n \in Messages
      PROVE  /\ pc'[n] = "running" <=> pc[n] = "running"
             /\ pc[n] \in Dozing => pc'[n] \in Dozing
  BY <1>1, <1>4, <1>5 DEF Dozing, Ended
<1> QED BY <1>1, <1>2, <1>3, <1>6, <1>7, CallersKeepLinks

(* abort(): a session told of it. *)
LEMMA AbortedSound ==
  ASSUME NEW r, Sound(r), Heeds(r), NEW g \in BOOLEAN, r.gone => g
  PROVE  LET q == [Aborted(r) EXCEPT !.gone = g]
         IN  /\ Sound(q) /\ Heeds(q) /\ q.runner = r.runner /\ q.active = r.active
             /\ q.queue = r.queue /\ (r.gone => q.gone)
             /\ (g = r.gone => q = Aborted(r))
<1> DEFINE b == r.runner # Nobody
           q == [Aborted(r) EXCEPT !.gone = g]
<1>1. r \in Records /\ b \in BOOLEAN
  BY DEF Sound
<1>2. q = [r EXCEPT !.aborted = b, !.gone = g]
  BY <1>1 DEF Aborted, Records
<1>3. Aborted(r) = [r EXCEPT !.aborted = b]
  BY DEF Aborted
<1> HIDE DEF b, q
<1>4. /\ q \in Records /\ q.runner = r.runner /\ q.active = r.active
      /\ q.gone = g /\ q.pending = r.pending /\ q.stage = r.stage
      /\ q.outcome = r.outcome /\ q.queue = r.queue
      /\ (g = r.gone => q = Aborted(r))
  BY <1>1, <1>2, <1>3 DEF Records
<1>5. Sound(q) /\ Heeds(q)
  BY <1>4 DEF Sound, Heeds
<1> QED BY <1>4, <1>5 DEF q

(* The same, with what it does to the prompts that sleep.                   *)
LEMMA AbortKeepsLinks ==
  ASSUME Links, NEW s \in Sessions, NEW o \in Orders, NEW g \in BOOLEAN,
         sess[s].gone => g, NEW p \in {"waiting", "idle", "ready"},
         Becomes(s, [Aborted(sess[s]) EXCEPT !.gone = g]),
         pc' = [a \in Callers |-> IF a = o THEN p
                                  ELSE IF a \in Cut(s) THEN "cancelled" ELSE pc[a]],
         NEW t \in Sessions \cup {None}, at' = [at EXCEPT ![o] = t],
         UNCHANGED <<delivered, restored, tools>>
  PROVE  Links'
<1> USE SessionAssumption
<1> DEFINE q == [Aborted(sess[s]) EXCEPT !.gone = g]
<1>1. /\ pc \in [Callers -> Pcs] /\ at \in [Callers -> Sessions \cup {None}]
      /\ restored \subseteq Messages /\ o \in Callers /\ o \notin Messages
      /\ {"waiting", "idle", "ready", "cancelled"} \subseteq Pcs
      /\ Messages \subseteq Callers
  BY DEF Links, SessionTypes, Pcs, Callers
<1>2. Sound(sess[s]) /\ Heeds(sess[s])
  BY DEF Links, SessionTypes, Heeded
<1>3. /\ Sound(q) /\ Heeds(q) /\ q.runner = sess[s].runner
      /\ q.active = sess[s].active /\ q.queue = sess[s].queue
      /\ (sess[s].gone => q.gone)
  BY <1>2, AbortedSound
<1> HIDE DEF q
<1>4. Becomes(s, q) /\ (HasQueued(q) => HasQueued(sess[s]))
  BY <1>3 DEF q, HasQueued
<1>5. pc' \in [Callers -> Pcs] /\ at' \in [Callers -> Sessions \cup {None}]
  BY <1>1
<1>6. ASSUME NEW m \in Messages
      PROVE  /\ at'[m] = at[m]
             /\ pc'[m] = pc[m] \/ (pc[m] = "sleeping" /\ pc'[m] = "cancelled")
  BY <1>1 DEF Cut
<1>7. Placed'
  BY <1>6 DEF Links, Placed, InSession, Working, Dozing
<1>8. ASSUME NEW m \in Messages
      PROVE  /\ pc'[m] = "running" <=> pc[m] = "running"
             /\ pc[m] \in Dozing => pc'[m] \in Dozing
  BY <1>6 DEF Dozing
<1> QED BY <1>1, <1>3, <1>4, <1>5, <1>6, <1>7, <1>8, SessionKeepsLinks

(* clearQueue() of the session in use. *)
LEMMA ClearsKeepsLinks ==
  ASSUME Links, current \in Sessions \cup {None}, ClearsQueue,
         NEW o \in Orders, UNCHANGED pc \/ (Goes(o, "ready") /\ pc[o] # "running"),
         UNCHANGED <<at, delivered, tools>>
  PROVE  Links'
<1> USE SessionAssumption
<1>1. /\ pc \in [Callers -> Pcs] /\ at \in [Callers -> Sessions \cup {None}]
      /\ restored \subseteq Messages /\ o \in Callers /\ o \notin Messages
      /\ "ready" \in Pcs /\ Messages \subseteq Callers
  BY DEF Links, SessionTypes, Pcs, Callers
<1>2. pc' \in [Callers -> Pcs] /\ \A m \in Messages : pc'[m] = pc[m]
  BY <1>1 DEF Goes
<1>3. Placed'
  BY <1>2 DEF Links, Placed
<1>4. CASE UNCHANGED <<sess, restored>>
  BY <1>1, <1>2, <1>3, <1>4, CallersKeepLinks
<1>5. CASE current # None /\ Becomes(current, Cleared(sess[current]))
           /\ restored' = restored \cup Texts(sess[current])
  <2> DEFINE r == sess[current]
             q == Cleared(r)
  <2>1. current \in Sessions /\ r \in Records /\ Sound(r) /\ Heeds(r)
    BY <1>5 DEF Links, SessionTypes, Heeded
  <2>2. Texts(r) \subseteq Messages
    BY <2>1 DEF Texts, Records
  <2>3. [k \in Channels |-> <<>>] \in [Channels -> Seq(Messages)]
    OBVIOUS
  <2>4. /\ q \in Records /\ q.runner = r.runner /\ q.active = r.active
        /\ q.gone = r.gone /\ q.pending = r.pending /\ q.stage = r.stage
        /\ q.outcome = r.outcome /\ ~HasQueued(q)
    BY <2>1, <2>3 DEF Cleared, Records, HasQueued
  <2>5. Becomes(current, q) /\ restored' \subseteq Messages
    BY <1>1, <1>5, <2>2
  <2> HIDE DEF q
  <2>6. Sound(q) /\ Heeds(q)
    BY <2>1, <2>4 DEF Sound, Heeds
  <2> QED BY <1>1, <1>2, <1>3, <2>1, <2>4, <2>5, <2>6, SessionKeepsLinks
<1> QED BY <1>4, <1>5 DEF ClearsQueue

(* The orders that stop, clear and dispose. *)
LEMMA OrderKeepsLinks ==
  ASSUME Links, current \in Sessions \cup {None}, NEW o \in Orders,
         OrderClears(o) \/ Stop(o) \/ Stopped(o) \/ ChangeMode(o)
           \/ Dispose(o) \/ Disposed(o)
  PROVE  Links'
<1> USE SessionAssumption
<1>1. /\ pc \in [Callers -> Pcs] /\ at \in [Callers -> Sessions \cup {None}]
      /\ o \in Callers /\ sess \in [Sessions -> Records]
  BY DEF Links, SessionTypes, Callers
<1>2. CASE ClearsQueue /\ UNCHANGED <<at, delivered, tools>>
           /\ (UNCHANGED pc \/ (pc[o] = "idle" /\ Goes(o, "ready")))
  BY <1>2, ClearsKeepsLinks
<1>3. CASE current # None /\ Aborts(o, current) /\ UNCHANGED <<delivered, restored, tools>>
  <2> DEFINE p == IF sess[current].active THEN "waiting" ELSE "idle"
             g == sess[current].gone
  <2>1. current \in Sessions /\ g \in BOOLEAN /\ p \in {"waiting", "idle", "ready"}
        /\ Sound(sess[current]) /\ Heeds(sess[current])
    BY <1>1, <1>3 DEF Records, Links, SessionTypes, Heeded
  <2>2. Aborted(sess[current]) = [Aborted(sess[current]) EXCEPT !.gone = g]
    BY <2>1, AbortedSound
  <2>3. /\ Becomes(current, [Aborted(sess[current]) EXCEPT !.gone = g])
        /\ at' = [at EXCEPT ![o] = current]
        /\ pc' = [a \in Callers |-> IF a = o THEN p
                    ELSE IF a \in Cut(current) THEN "cancelled" ELSE pc[a]]
    BY <1>3, <2>2 DEF Aborts
  <2> HIDE DEF p, g
  <2> QED BY <1>3, <2>1, <2>3, AbortKeepsLinks DEF g
<1>4. CASE Disposes(o) /\ UNCHANGED <<at, delivered, restored, tools>>
  <2>1. CASE current = None
    <3>1. UNCHANGED sess /\ pc' = [a \in Callers |-> IF a = o THEN "ready" ELSE pc[a]]
      BY <1>4, <2>1 DEF Disposes
    <3>2. pc' \in [Callers -> Pcs] /\ \A m \in Messages : pc'[m] = pc[m]
      BY <1>1, <3>1 DEF Pcs, Callers
    <3>3. Placed'
      BY <1>4, <3>2 DEF Links, Placed
    <3> QED BY <1>1, <1>4, <3>1, <3>2, <3>3, CallersKeepLinks
  <2>2. CASE current # None
    <3>1. /\ Becomes(current, [Aborted(sess[current]) EXCEPT !.gone = TRUE])
          /\ pc' = [a \in Callers |-> IF a = o THEN "ready"
                      ELSE IF a \in Cut(current) THEN "cancelled" ELSE pc[a]]
      BY <1>4, <2>2 DEF Disposes
    <3>2. at' = [at EXCEPT ![o] = at[o]] /\ at[o] \in Sessions \cup {None}
      BY <1>1, <1>4
    <3> QED BY <1>4, <2>2, <3>1, <3>2, AbortKeepsLinks
  <2> QED BY <2>1, <2>2
<1>5. CASE UNCHANGED sessionVars
  BY <1>1, <1>5, CallersKeepLinks DEF sessionVars, Links, Placed
<1> QED BY <1>2, <1>3, <1>4, <1>5
        DEF OrderClears, Stop, Stopped, ChangeMode, Dispose, Disposed

-----------------------------------------------------------------------------
(* The service *)

(* An errand is a list of things to do. *)
LEMMA ErrandsAreLists ==
  Errands \subseteq Seq({"stop", "clear", "mode", "dispose", "ensure"})
BY DEF Errands, Works

(* What is left of an order's errand is an errand.                          *)
LEMMA ErrandsGoOn ==
  ASSUME NEW w \in Errands, w # <<>>
  PROVE  /\ Tail(w) \in Errands
         /\ Head(w) = "mode" => Tail(w) = <<"dispose">>
<1>1. ASSUME NEW x, NEW y, w = <<x, y>>
      PROVE  Tail(w) = <<y>> /\ Head(w) = x
  BY <1>1
<1>2. ASSUME NEW x, w = <<x>>
      PROVE  Tail(w) = <<>> /\ Head(w) = x
  BY <1>2
<1>3. ASSUME NEW x, NEW y, NEW z, w = <<x, y, z>>
      PROVE  Tail(w) = <<y, z>> /\ Head(w) = x
  BY <1>3
<1>4. <<>> \in Errands /\ <<"dispose">> \in Errands /\ <<"ensure">> \in Errands
      /\ <<"dispose", "ensure">> \in Errands
  BY Zenon DEF Errands, Works
<1>5. "mode" # "dispose" /\ "mode" # "ensure" /\ "mode" # "stop" /\ "mode" # "clear"
  OBVIOUS
<1>6. \/ w = <<"stop">> \/ w = <<"clear">> \/ w = <<"ensure">> \/ w = <<"dispose">>
      \/ w = <<"mode", "dispose">> \/ w = <<"dispose", "ensure">>
      \/ w = <<"ensure", "dispose", "ensure">>
  BY Zenon DEF Errands, Works
<1> QED BY <1>1, <1>2, <1>3, <1>4, <1>5, <1>6, Zenon

(* No caller begins to make a session, and none is given another errand.    *)
LEMMA ServiceStays ==
  ASSUME Service, UNCHANGED <<mode, current, kit, made, plan, todo>>,
         running' \in BOOLEAN,
         \A a \in Callers : pc'[a] = pc[a] \/ pc'[a] \notin {"creating", "binding", "unsent"}
  PROVE  Service'
<1>1. \A a \in Callers : Creating(a)' => Creating(a)
  BY DEF Creating
<1>2. ServiceTypes' /\ ToolsMatchMode'
  BY DEF Service, ServiceTypes, ToolsMatchMode, Doing
<1>3. Ordered'
  BY <1>1 DEF Service, Ordered, Doing, Callers
<1>4. \A a \in Callers : Chosen(a)'
  BY <1>1 DEF Service, Chosen
<1> QED BY <1>2, <1>3, <1>4 DEF Service

(* An order has done the next part of its errand.                           *)
LEMMA ServiceDid ==
  ASSUME Service, NEW o \in Orders, todo[o] # <<>>, Did(o),
         UNCHANGED <<mode, made, plan>>,
         current' \in Sessions \cup {None}, kit' \in Plans, running' \in BOOLEAN,
         \A a \in Callers : pc'[a] = pc[a] \/ pc'[a] \notin {"creating", "binding", "unsent"},
         pc'[o] \notin {"creating", "binding", "unsent"},
         \/ UNCHANGED <<current, kit>> /\ ~Doing(o, "dispose")
         \/ current' = None
  PROVE  Service'
<1>1. /\ todo \in [Orders -> Seq({"stop", "clear", "mode", "dispose", "ensure"})]
      /\ todo' = [todo EXCEPT ![o] = Tail(@)] /\ todo[o] \in Errands
      /\ todo'[o] = Tail(todo[o]) /\ \A n \in Orders : n # o => todo'[n] = todo[n]
  BY DEF Service, ServiceTypes, Ordered, Did
<1>2. todo'[o] \in Errands
      /\ todo'[o] \in Seq({"stop", "clear", "mode", "dispose", "ensure"})
  BY <1>1, ErrandsGoOn, ErrandsAreLists
<1>3. \A a \in Callers : Creating(a)' => Creating(a)
  BY DEF Creating
<1>4. todo' \in [Orders -> Seq({"stop", "clear", "mode", "dispose", "ensure"})]
  BY <1>1, <1>2
<1>5. ServiceTypes'
  BY <1>4 DEF Service, ServiceTypes
<1>6. Ordered'
  <2> SUFFICES ASSUME NEW n \in Orders
               PROVE  /\ todo'[n] \in Errands
                      /\ Creating(n)' => Doing(n, "ensure")'
                      /\ pc'[n] = "unsent" => todo'[n] = <<>>
    BY DEF Ordered
  <2>1. CASE n = o
    BY <1>2, <2>1 DEF Creating
  <2>2. CASE n # o
    BY <1>1, <1>3, <2>2 DEF Service, Ordered, Doing, Callers
  <2> QED BY <2>1, <2>2
<1>7. \A a \in Callers : Chosen(a)'
  BY <1>3 DEF Service, Chosen
<1>8. ToolsMatchMode'
  <2>1. CASE current' = None
    BY <2>1 DEF ToolsMatchMode
  <2>2. CASE UNCHANGED <<current, kit>> /\ ~Doing(o, "dispose")
    BY <1>1, <2>2 DEF Service, ToolsMatchMode, Doing
  <2> QED BY <2>1, <2>2
<1> QED BY <1>5, <1>6, <1>7, <1>8 DEF Service

(* Prompts and runs leave the service as it is.                             *)
LEMMA PromptsKeepService ==
  ASSUME Service, running' \in BOOLEAN,
         UNCHANGED <<mode, current, kit, made, plan, todo>>,
         \/ \E m \in Messages : \/ SessionStep(m) \/ RetryCancelled(m)
                                \/ PreflightFails(m) \/ Settled(m)
         \/ \E s \in Sessions : RunStep(s) \/ RunEnds(s)
  PROVE  Service'
<1> DEFINE Apart == {"creating", "binding", "unsent"}
           Moves == \E x, p : p \notin Apart /\ Goes(x, p)
<1>1. ASSUME NEW x, NEW p, p \notin Apart, Goes(x, p)
      PROVE  \A a \in Callers : pc'[a] = pc[a] \/ pc'[a] \notin Apart
  BY <1>1 DEF Goes
<1>2. CASE Moves
  BY <1>1, <1>2, ServiceStays
<1>3. ASSUME NEW m, NEW r, NEW p \in Ended, Settle(m, r, p)
      PROVE  Moves
  BY <1>3 DEF Settle, Ended
<1>4. ASSUME NEW m, NEW r, NEW g, RunsFrom(m, r, g)
      PROVE  Moves
  BY <1>4 DEF RunsFrom
<1> HIDE DEF Moves
<1>5. ASSUME NEW m, NEW r, Continue(m, r)
      PROVE  Moves
  BY <1>3, <1>4, <1>5 DEF Continue, Ended
<1>6. ASSUME NEW m, NEW r, ContinueOrSettle(m, r)
      PROVE  Moves
  BY <1>3, <1>5, <1>6 DEF ContinueOrSettle, Ended
<1>7. ASSUME NEW m, NEW r, NEW o, CheckCompaction(m, r, o)
      PROVE  Moves
  BY <1>6, <1>7 DEF CheckCompaction, Moves
<1>8. ASSUME NEW m \in Messages, SessionStep(m) \/ RetryCancelled(m) \/ PreflightFails(m)
      PROVE  Moves
  <2>1. CASE Handled(m) \/ Preflight(m) \/ PreflightFails(m) \/ \E k \in Channels : Queue(m, k)
    BY <2>1 DEF Handled, Preflight, PreflightFails, Queue, Moves
  <2>2. CASE StartRun(m)
    BY <1>3, <1>4, <2>2 DEF StartRun, Ended
  <2>3. CASE Wakes(m) \/ RetryCancelled(m) \/ CompactionEnds(m) \/ RecoveryEnds(m)
    BY <1>5, <1>6, <1>7, <2>3 DEF Wakes, RetryCancelled, CompactionEnds, RecoveryEnds
  <2> QED BY <1>8, <2>1, <2>2, <2>3 DEF SessionStep
<1>9. ASSUME NEW s \in Sessions, RunEnds(s)
      PROVE  Moves
  BY <1>3, <1>7, <1>9 DEF RunEnds, PostRun, Ended, Moves
<1>10. ASSUME NEW m \in Messages, Settled(m)
       PROVE  Service'
  BY <1>10, ServiceStays DEF Settled
<1>11. ASSUME NEW s \in Sessions, RunStep(s)
       PROVE  Service'
  BY <1>11, ServiceStays DEF RunStep, Inject, InitialPoll, Respond, PollQueues
<1> QED BY <1>2, <1>8, <1>9, <1>10, <1>11

(* A caller is on its way to a session: what it has read of the mode.       *)
LEMMA CreatingKeepsService ==
  ASSUME IInv, NEW a \in Callers, NEW p \in {"creating", "binding"}, Goes(a, p),
         a \in Orders => Doing(a, "ensure"),
         NEW q \in Plans, plan' = [plan EXCEPT ![a] = q],
         ~q.crossed => q.custom = mode /\ (p = "binding" => q.builtin = mode),
         UNCHANGED <<mode, current, kit, running, made, todo>>
  PROVE  Service'
<1>1. pc \in [Callers -> Pcs] /\ plan \in [Callers -> Plans]
  BY DEF IInv, Links, SessionTypes, Service, ServiceTypes
<1>2. /\ pc'[a] = p /\ plan'[a] = q /\ plan' \in [Callers -> Plans]
      /\ \A b \in Callers : b # a => pc'[b] = pc[b] /\ plan'[b] = plan[b]
  BY <1>1 DEF Goes
<1>3. ServiceTypes' /\ ToolsMatchMode'
  BY <1>2 DEF IInv, Service, ServiceTypes, ToolsMatchMode, Doing
<1>4. Ordered'
  BY <1>2 DEF IInv, Service, Ordered, Doing, Creating, Callers
<1>5. ASSUME NEW b \in Callers
      PROVE  Chosen(b)'
  BY <1>2 DEF IInv, Service, Chosen, Creating
<1> QED BY <1>3, <1>4, <1>5 DEF Service

(* A caller reads the mode on its way to a session. *)
LEMMA BeginCreatingKeepsService ==
  ASSUME IInv, NEW a \in Callers, BeginCreating(a), a \in Orders => Doing(a, "ensure")
  PROVE  Service'
<1> DEFINE q == [NoPlan EXCEPT !.custom = mode]
<1>1. /\ Goes(a, "creating") /\ plan' = [plan EXCEPT ![a] = q]
      /\ UNCHANGED <<mode, current, kit, running, made, todo>>
  BY DEF BeginCreating
<1>2. mode \in Modes
  BY DEF IInv, Service, ServiceTypes
<1>3. q \in Plans /\ q.custom = mode
  BY <1>2 DEF NoPlan, Plans, Modes
<1> HIDE DEF q
<1> QED BY <1>1, <1>3, CreatingKeepsService

(* It reads the mode again for the built-in tools. *)
LEMMA ReloadedKeepsService ==
  ASSUME IInv, NEW a \in Callers, Reloaded(a)
  PROVE  Service'
<1> DEFINE q == [plan[a] EXCEPT !.builtin = mode]
<1>1. /\ pc[a] = "creating" /\ Goes(a, "binding")
      /\ UNCHANGED <<mode, current, kit, running, made, todo>>
  BY DEF Reloaded
<1>2. mode \in Modes /\ plan \in [Callers -> Plans] /\ plan[a] \in Plans
  BY DEF IInv, Service, ServiceTypes
<1>3. plan' = [plan EXCEPT ![a] = q]
  BY <1>2 DEF Reloaded, Plans
<1>4. q \in Plans /\ q.custom = plan[a].custom /\ q.builtin = mode
      /\ q.crossed = plan[a].crossed
  BY <1>2 DEF Plans
<1>5. Creating(a) /\ Chosen(a)
  BY <1>1 DEF Creating, IInv, Service
<1>6. ~q.crossed => q.custom = mode
  BY <1>4, <1>5 DEF Chosen
<1>7. a \in Orders => Doing(a, "ensure")
  BY <1>5 DEF IInv, Service, Ordered
<1> HIDE DEF q
<1> QED BY <1>1, <1>3, <1>4, <1>6, <1>7, CreatingKeepsService

(* A session is made: it has the tools that were chosen on the way.         *)
LEMMA CreatedKeepsService ==
  ASSUME IInv, NEW a \in Callers, Created(a)
  PROVE  Service'
<1> USE SessionAssumption
<1>1. /\ pc \in [Callers -> Pcs] /\ plan \in [Callers -> Plans] /\ running \in BOOLEAN
      /\ todo \in [Orders -> Seq({"stop", "clear", "mode", "dispose", "ensure"})]
      /\ made \in 0..MaxSessions /\ mode \in Modes
  BY DEF IInv, Links, SessionTypes, Service, ServiceTypes
<1>2. NoPlan \in Plans
  BY DEF NoPlan, Plans, Modes
<1>3. /\ pc[a] = "binding" /\ mode' = mode /\ kit' = plan[a]
      /\ made' = made + 1 /\ current' = made' /\ made' \in 0..MaxSessions
      /\ current' \in Sessions
      /\ plan' = [plan EXCEPT ![a] = NoPlan]
  BY <1>1 DEF Created, Sessions
<1>4. Creating(a) /\ Chosen(a)
  BY <1>3 DEF Creating, IInv, Service
<1>5. ToolsMatchMode'
  BY <1>3, <1>4 DEF Chosen, ToolsMatchMode
<1>6. /\ plan' \in [Callers -> Plans] /\ kit' \in Plans
      /\ \A b \in Callers : b # a => plan'[b] = plan[b]
  BY <1>1, <1>2, <1>3
<1>7. PICK p \in {"input", "ready"} : Goes(a, p)
  BY DEF Created, Enters
<1>8. pc'[a] = p /\ \A b \in Callers : b # a => pc'[b] = pc[b]
  BY <1>1, <1>7 DEF Goes
<1>9. ASSUME NEW b \in Callers
      PROVE  Chosen(b)'
  BY <1>3, <1>6, <1>8 DEF IInv, Service, Chosen, Creating
<1>10. CASE a \in Messages
  <2>1. todo' = todo /\ running' \in BOOLEAN
    BY <1>10 DEF Created, Enters, Callers
  <2>2. Ordered'
    BY <1>8, <1>10, <2>1 DEF IInv, Service, Ordered, Doing, Creating, Callers
  <2> QED BY <1>1, <1>3, <1>5, <1>6, <1>9, <2>1, <2>2 DEF Service, ServiceTypes
<1>11. CASE a \in Orders
  <2>1. running' = running /\ todo' = [todo EXCEPT ![a] = Tail(@)]
    BY <1>11 DEF Created, Callers
  <2>2. todo[a] # <<>> /\ todo[a] \in Errands
    BY <1>4, <1>11 DEF IInv, Service, Ordered, Doing
  <2>3. /\ Tail(todo[a]) \in Errands
        /\ Tail(todo[a]) \in Seq({"stop", "clear", "mode", "dispose", "ensure"})
    BY <2>2, ErrandsGoOn, ErrandsAreLists
  <2>4. /\ todo'[a] = Tail(todo[a]) /\ \A n \in Orders : n # a => todo'[n] = todo[n]
        /\ todo' \in [Orders -> Seq({"stop", "clear", "mode", "dispose", "ensure"})]
    BY <1>1, <1>11, <2>1, <2>3
  <2>5. Ordered'
    BY <1>7, <1>8, <1>11, <2>3, <2>4
       DEF IInv, Service, Ordered, Doing, Creating, Callers
  <2> QED BY <1>1, <1>3, <1>5, <1>6, <1>9, <2>1, <2>4, <2>5 DEF Service, ServiceTypes
<1> QED BY <1>10, <1>11 DEF Callers

(* A session is not made: the order is given up, or the prompt fails. *)
LEMMA CreateFailsKeepsService ==
  ASSUME IInv, NEW a \in Callers, CreateFails(a)
  PROVE  Service'
<1> USE SessionAssumption
<1>1. /\ pc \in [Callers -> Pcs] /\ running \in BOOLEAN
      /\ todo \in [Orders -> Seq({"stop", "clear", "mode", "dispose", "ensure"})]
  BY DEF IInv, Links, SessionTypes, Service, ServiceTypes
<1>2. Creating(a) /\ UNCHANGED <<mode, current, kit, made, plan>>
  BY DEF CreateFails
<1>3. PICK p \in {"reported", "ready"} : Goes(a, p)
  BY DEF CreateFails
<1>4. pc'[a] = p /\ \A b \in Callers : b # a => pc'[b] = pc[b]
  BY <1>1, <1>3 DEF Goes
<1>5. CASE a \in Messages
  <2>1. todo' = todo /\ running' \in BOOLEAN
    BY <1>5 DEF CreateFails, Callers
  <2> QED BY <1>2, <1>4, <2>1, ServiceStays DEF IInv
<1>6. CASE a \in Orders
  <2>1. running' = running /\ todo' = [todo EXCEPT ![a] = <<>>]
    BY <1>6 DEF CreateFails, Callers
  <2>2. Doing(a, "ensure")
    BY <1>2, <1>6 DEF IInv, Service, Ordered
  <2>3. <<>> \in Errands
    BY DEF Errands
  <2>4. /\ todo'[a] = <<>> /\ \A n \in Orders : n # a => todo'[n] = todo[n]
        /\ todo' \in [Orders -> Seq({"stop", "clear", "mode", "dispose", "ensure"})]
    BY <1>1, <1>6, <2>1
  <2>5. Ordered'
    BY <1>3, <1>4, <1>6, <2>3, <2>4
       DEF IInv, Service, Ordered, Doing, Creating, Callers
  <2>6. ServiceTypes'
    BY <1>2, <2>1, <2>4 DEF IInv, Service, ServiceTypes
  <2>7. ToolsMatchMode'
    BY <1>2, <2>2, <2>4 DEF IInv, Service, ToolsMatchMode, Doing
  <2>8. \A b \in Callers : Chosen(b)'
    BY <1>2, <1>3, <1>4 DEF IInv, Service, Chosen, Creating
  <2> QED BY <2>5, <2>6, <2>7, <2>8 DEF Service
<1> QED BY <1>5, <1>6 DEF Callers

(* "send" and the other messages of the view. *)
LEMMA UserKeepsService ==
  ASSUME IInv, (\E m \in Messages : Send(m)) \/ (\E o \in Orders : Order(o))
  PROVE  Service'
<1> USE SessionAssumption
<1>1. ASSUME NEW m \in Messages, Send(m)
      PROVE  Service'
  <2>1. m \in Callers /\ m \notin Orders
    BY DEF Callers
  <2>2. CASE BeginCreating(m)
    BY <2>1, <2>2, BeginCreatingKeepsService
  <2>3. CASE Enters(m, current) /\ UNCHANGED <<mode, current, kit, made, plan, todo>>
    <3>1. running' \in BOOLEAN
      BY <2>3 DEF Enters
    <3>2. \A a \in Callers : pc'[a] = pc[a] \/ pc'[a] \notin {"creating", "binding", "unsent"}
      BY <2>3 DEF Enters, Goes
    <3> QED BY <2>3, <3>1, <3>2, ServiceStays DEF IInv
  <2> QED BY <1>1, <2>2, <2>3 DEF Send
<1>2. ASSUME NEW o \in Orders, Order(o)
      PROVE  Service'
  <2>1. /\ pc[o] = "unsent" /\ Goes(o, "ready")
        /\ UNCHANGED <<mode, current, kit, running, made, plan>>
    BY <1>2 DEF Order
  <2>2. PICK w \in Works : todo' = [todo EXCEPT ![o] = w]
    BY <1>2 DEF Order
  <2>3. /\ pc \in [Callers -> Pcs]
        /\ todo \in [Orders -> Seq({"stop", "clear", "mode", "dispose", "ensure"})]
    BY DEF IInv, Links, SessionTypes, Service, ServiceTypes
  <2>4. w \in Errands /\ w \in Seq({"stop", "clear", "mode", "dispose", "ensure"})
    BY ErrandsAreLists DEF Errands
  <2>5. /\ todo'[o] = w /\ \A n \in Orders : n # o => todo'[n] = todo[n]
        /\ todo' \in [Orders -> Seq({"stop", "clear", "mode", "dispose", "ensure"})]
        /\ pc'[o] = "ready" /\ \A a \in Callers : a # o => pc'[a] = pc[a]
    BY <2>1, <2>2, <2>3, <2>4 DEF Goes, Callers
  <2>6. ServiceTypes'
    BY <2>1, <2>5 DEF IInv, Service, ServiceTypes
  <2>7. Ordered'
    BY <2>4, <2>5 DEF IInv, Service, Ordered, Doing, Creating, Callers
  <2>8. \A a \in Callers : Chosen(a)'
    BY <2>1, <2>5 DEF IInv, Service, Chosen, Creating
  <2>9. ToolsMatchMode'
    <3>1. ~Doing(o, "dispose")
      BY <2>1 DEF IInv, Service, Ordered, Doing
    <3> QED BY <2>1, <2>5, <3>1 DEF IInv, Service, ToolsMatchMode, Doing
  <2> QED BY <2>6, <2>7, <2>8, <2>9 DEF Service
<1> QED BY <1>1, <1>2

(* The mode changes: whoever makes a session is behind it from now on, and  *)
(* the order goes on to dispose of the session there is.                    *)
LEMMA ChangeModeKeepsService ==
  ASSUME IInv, NEW o \in Orders, ChangeMode(o)
  PROVE  Service'
<1>1. /\ Doing(o, "mode") /\ mode' = OtherMode /\ Did(o)
      /\ plan' = [a \in Callers |-> [plan[a] EXCEPT !.crossed = @ \/ Creating(a)]]
      /\ UNCHANGED <<pc, current, kit, running, made>>
  BY DEF ChangeMode, sessionVars
<1>2. /\ todo \in [Orders -> Seq({"stop", "clear", "mode", "dispose", "ensure"})]
      /\ plan \in [Callers -> Plans] /\ todo[o] \in Errands
  BY DEF IInv, Service, ServiceTypes, Ordered
<1>3. /\ Tail(todo[o]) \in Errands /\ Tail(todo[o]) = <<"dispose">>
      /\ Tail(todo[o]) \in Seq({"stop", "clear", "mode", "dispose", "ensure"})
  BY <1>1, <1>2, ErrandsGoOn, ErrandsAreLists DEF Doing
<1>4. /\ todo'[o] = Tail(todo[o]) /\ \A n \in Orders : n # o => todo'[n] = todo[n]
      /\ todo' \in [Orders -> Seq({"stop", "clear", "mode", "dispose", "ensure"})]
  BY <1>1, <1>2, <1>3 DEF Did
<1>5. ASSUME NEW a \in Callers
      PROVE  /\ plan'[a] \in Plans
             /\ plan'[a].crossed = (plan[a].crossed \/ Creating(a))
  <2>1. plan[a] \in Plans /\ (plan[a].crossed \/ Creating(a)) \in BOOLEAN
    BY <1>2 DEF Plans
  <2>2. plan'[a] = [plan[a] EXCEPT !.crossed = plan[a].crossed \/ Creating(a)]
    BY <1>1
  <2> QED BY <2>1, <2>2 DEF Plans
<1>6. plan' \in [Callers -> Plans]
  BY <1>1, <1>5
<1>7. mode' \in Modes
  BY <1>1 DEF OtherMode, Modes
<1>8. ServiceTypes'
  BY <1>1, <1>4, <1>6, <1>7 DEF IInv, Service, ServiceTypes
<1>9. Ordered'
  <2> SUFFICES ASSUME NEW n \in Orders
               PROVE  /\ todo'[n] \in Errands
                      /\ Creating(n)' => Doing(n, "ensure")'
                      /\ pc'[n] = "unsent" => todo'[n] = <<>>
    BY DEF Ordered
  <2>1. CASE n = o
    BY <1>1, <1>3, <1>4, <2>1 DEF ChangeMode, Creating
  <2>2. CASE n # o
    BY <1>1, <1>4, <2>2 DEF IInv, Service, Ordered, Doing, Creating
  <2> QED BY <2>1, <2>2
<1>10. \A a \in Callers : Chosen(a)'
  BY <1>1, <1>5 DEF Chosen, Creating
<1>11. Doing(o, "dispose")'
  <2>1. todo'[o] = <<"dispose">>
    BY <1>3, <1>4
  <2>2. ASSUME NEW w, w = <<"dispose">>
        PROVE  w # <<>> /\ Head(w) = "dispose"
    BY <2>2
  <2> QED BY <2>1, <2>2 DEF Doing
<1> QED BY <1>8, <1>9, <1>10, <1>11 DEF Service, ToolsMatchMode

(* Each part of an order's errand. *)
LEMMA OrdersKeepService ==
  ASSUME IInv, NEW o \in Orders, OrderStep(o)
  PROVE  Service'
<1> USE SessionAssumption
<1>1. /\ pc \in [Callers -> Pcs] /\ o \in Callers
      /\ current \in Sessions \cup {None} /\ kit \in Plans /\ running \in BOOLEAN
      /\ NoPlan \in Plans
  BY DEF IInv, Links, SessionTypes, Service, ServiceTypes, Callers,
         NoPlan, Plans, Modes
<1>2. "dispose" # "ensure" /\ "dispose" # "stop" /\ "dispose" # "clear"
  OBVIOUS
<1>3. CASE OrderEnsures(o)
  <2>1. pc[o] = "ready" /\ Doing(o, "ensure")
    BY <1>3 DEF OrderEnsures
  <2>2. CASE BeginCreating(o)
    BY <1>1, <2>1, <2>2, BeginCreatingKeepsService
  <2>3. CASE Did(o) /\ UNCHANGED <<sessionVars, mode, current, kit, running, made, plan>>
    BY <1>1, <1>2, <2>1, <2>3, ServiceDid DEF IInv, Doing, sessionVars
  <2> QED BY <1>3, <2>2, <2>3 DEF OrderEnsures
<1>4. CASE OrderClears(o)
  BY <1>1, <1>2, <1>4, ServiceDid DEF OrderClears, IInv, Doing
<1>5. ASSUME Aborts(o, current), UNCHANGED serviceVars
      PROVE  Service'
  <2>1. \A a \in Callers : pc'[a] = pc[a] \/ pc'[a] \notin {"creating", "binding", "unsent"}
    BY <1>5 DEF Aborts
  <2> QED BY <1>1, <1>5, <2>1, ServiceStays DEF IInv, serviceVars
<1>6. CASE Stop(o)
  <2>1. CASE Aborts(o, current) /\ UNCHANGED serviceVars
    BY <1>5, <2>1
  <2>2. CASE Did(o) /\ UNCHANGED <<pc, mode, current, kit, running, made, plan>>
    BY <1>1, <1>2, <1>6, <2>2, ServiceDid DEF Stop, IInv, Doing
  <2> QED BY <1>6, <2>1, <2>2 DEF Stop
<1>7. CASE Stopped(o)
  <2>1. /\ Doing(o, "stop") /\ Did(o) /\ Goes(o, "ready") /\ running' = FALSE
        /\ UNCHANGED <<mode, current, kit, made, plan>>
    BY <1>7 DEF Stopped
  <2>2. pc'[o] = "ready" /\ \A a \in Callers : a # o => pc'[a] = pc[a]
    BY <1>1, <2>1 DEF Goes
  <2> QED BY <1>1, <1>2, <2>1, <2>2, ServiceDid DEF IInv, Doing
<1>8. ASSUME Disposes(o), Doing(o, "dispose"), UNCHANGED <<mode, made, plan>>
      PROVE  Service'
  <2>1. /\ Did(o) /\ current' = None /\ kit' \in Plans /\ running' \in BOOLEAN
    BY <1>1, <1>8 DEF Disposes, NextSession
  <2>2. /\ \A a \in Callers : pc'[a] = pc[a] \/ pc'[a] \notin {"creating", "binding", "unsent"}
        /\ pc'[o] = "ready"
    BY <1>1, <1>8 DEF Disposes
  <2> QED BY <1>8, <2>1, <2>2, ServiceDid DEF IInv, Doing
<1>9. CASE Dispose(o)
  BY <1>5, <1>8, <1>9 DEF Dispose
<1>10. CASE Disposed(o)
  BY <1>8, <1>10 DEF Disposed
<1>11. CASE ChangeMode(o)
  BY <1>11, ChangeModeKeepsService
<1> QED BY <1>3, <1>4, <1>6, <1>7, <1>9, <1>10, <1>11 DEF OrderStep

-----------------------------------------------------------------------------
(* The invariant *)

(* At first no session is in use and nobody is on the way. *)
LEMMA InitInvariant ==
  ASSUME Init
  PROVE  IInv
<1> USE SessionAssumption DEF Init
<1>1. Unused \in Records /\ Sound(Unused) /\ Heeds(Unused) /\ ~HasQueued(Unused)
  <2>1. /\ [k \in Channels |-> <<>>] \in [Channels -> Seq(Messages)]
        /\ <<>> \in Seq(Messages) /\ 0 \in 0..MaxRetries
    OBVIOUS
  <2>2. Unused \in Records
    BY <2>1 DEF Unused, Records, Stages, Outcomes
  <2> QED BY <2>2 DEF Unused, Sound, Heeds, HasQueued
<1>2. Unused.runner = Nobody /\ ~Unused.active
  BY DEF Unused
<1>3. SessionTypes
  <2>1. 0 \in 0..MaxTools /\ "unsent" \in Pcs
    BY DEF Pcs
  <2> QED BY <1>1, <2>1 DEF SessionTypes
<1>4. \A m \in Messages : pc[m] = "unsent"
  BY DEF Callers
<1>5. Placed /\ Alive /\ Heeded /\ Owned /\ NothingStranded
  BY <1>1, <1>2, <1>4
     DEF Placed, Alive, Heeded, Owned, NothingStranded, InSession, Working, Dozing, Ended
<1>6. NoPlan \in Plans
  BY DEF NoPlan, Plans, Modes
<1>7. ServiceTypes
  <2>1. /\ 0 \in 0..MaxSessions /\ "code" \in Modes
        /\ <<>> \in Seq({"stop", "clear", "mode", "dispose", "ensure"})
    BY DEF Modes
  <2> QED BY <1>6, <2>1 DEF ServiceTypes
<1>8. Ordered
  BY DEF Ordered, Errands, Creating, Callers
<1>9. \A a \in Callers : Chosen(a)
  BY DEF Chosen, Creating
<1>10. ToolsMatchMode
  BY DEF ToolsMatchMode
<1> QED BY <1>3, <1>5, <1>7, <1>8, <1>9, <1>10 DEF IInv, Links, Service

(* Every step keeps the invariant. *)
LEMMA Inductive ==
  ASSUME IInv, [Next]_vars
  PROVE  IInv'
<1>1. /\ Links /\ Service /\ made \in 0..MaxSessions
      /\ current \in Sessions \cup {None} /\ running \in BOOLEAN
  BY DEF IInv, Service, ServiceTypes
<1>2. CASE UNCHANGED vars
  <2>1. UNCHANGED <<sess, pc, at, delivered, restored, tools>>
        /\ UNCHANGED <<mode, current, kit, running, made, plan, todo>>
    BY <1>2 DEF vars, sessionVars, serviceVars
  <2>2. Links'
    BY <1>1, <2>1, CallersKeepLinks DEF Links, SessionTypes, Placed
  <2>3. Service'
    BY <1>1, <2>1, ServiceStays
  <2> QED BY <2>2, <2>3 DEF IInv
<1>3. ASSUME NEW m \in Messages, RetryCancelled(m), UNCHANGED serviceVars
      PROVE  IInv'
  BY <1>1, <1>3, DozingKeepsLinks, PromptsKeepService DEF IInv, serviceVars
<1>4. ASSUME NEW o \in Orders, OrderStep(o)
      PROVE  IInv'
  <2>1. Links'
    BY <1>1, <1>4, OrderKeepsLinks, CallerStepKeepsLinks DEF OrderStep
  <2> QED BY <1>4, <2>1, OrdersKeepService DEF IInv
<1>5. ASSUME NEW a \in Callers, Reloaded(a) \/ Created(a) \/ CreateFails(a)
      PROVE  IInv'
  BY <1>1, <1>5, CallerStepKeepsLinks, ReloadedKeepsService, CreatedKeepsService,
     CreateFailsKeepsService DEF IInv
<1>6. ASSUME NEW m \in Messages, SessionStep(m), UNCHANGED serviceVars
      PROVE  IInv'
  <2>1. Links'
    BY <1>1, <1>6, CallerStepKeepsLinks, QueueKeepsLinks, StartRunKeepsLinks,
       DozingKeepsLinks DEF SessionStep
  <2>2. Service'
    BY <1>1, <1>6, PromptsKeepService DEF serviceVars
  <2> QED BY <2>1, <2>2 DEF IInv
<1>7. ASSUME NEW m \in Messages, PromptFails(m)
      PROVE  IInv'
  BY <1>1, <1>7, CallerStepKeepsLinks, PromptsKeepService DEF IInv, PromptFails
<1>8. ASSUME NEW s \in Sessions, RunStep(s), UNCHANGED serviceVars
      PROVE  IInv'
  <2>1. Links'
    BY <1>1, <1>8, InjectKeepsLinks, InitialPollKeepsLinks, RespondKeepsLinks,
       PollQueuesKeepsLinks DEF RunStep
  <2>2. Service'
    BY <1>1, <1>8, PromptsKeepService DEF serviceVars
  <2> QED BY <2>1, <2>2 DEF IInv
<1>9. ASSUME NEW s \in Sessions, RunEndHeard(s)
      PROVE  IInv'
  <2>1. RunEnds(s) /\ running' \in BOOLEAN
        /\ UNCHANGED <<mode, current, kit, made, plan, todo>>
    <3>1. sess[s].gone \in BOOLEAN
      BY <1>1 DEF Links, SessionTypes, Records
    <3> QED BY <1>1, <1>9, <3>1 DEF RunEndHeard, Hears
  <2> QED BY <1>1, <2>1, RunEndsKeepsLinks, PromptsKeepService DEF IInv
<1>10. ASSUME NEW m \in Messages, SettledHeard(m)
       PROVE  IInv'
  <2>1. Settled(m) /\ UNCHANGED <<mode, current, kit, made, plan, todo>>
    BY <1>10 DEF SettledHeard
  <2>2. running' \in BOOLEAN
    BY <1>1, <1>10 DEF SettledHeard, Hears
  <2> QED BY <1>1, <2>1, <2>2, SettledKeepsLinks, PromptsKeepService DEF IInv
<1>11. CASE User
  BY <1>1, <1>11, CallerStepKeepsLinks, UserKeepsService DEF IInv, User
<1> QED BY <1>2, <1>3, <1>4, <1>5, <1>6, <1>7, <1>8, <1>9, <1>10, <1>11
        DEF Next, Host, React

(* Sessions, prompts and the service stay within their types; a run has an  *)
(* owner exactly while it is under way.                                     *)
THEOREM TypeCorrect == Spec => []TypeOK
<1>1. IInv => TypeOK
  BY DEF IInv, Links, Service, TypeOK
<1> QED BY InitInvariant, Inductive, <1>1, PTL DEF Spec

(* No message is left waiting in a session in use at which nothing is under *)
(* way that will look at the queue again (hasQueuedMessages() in            *)
(* _handlePostAgentRun and _prepareRetry).                                  *)
THEOREM NoneStranded == Spec => []NothingStranded
<1>1. IInv => NothingStranded
  BY DEF IInv, Links
<1> QED BY InitInvariant, Inductive, <1>1, PTL DEF Spec

(* The session in use has the tools of the permission mode, unless the mode *)
(* was changed while it was being made (setPermissionMode,                  *)
(* createCustomTools, disposeSession).                                      *)
THEOREM ToolsOfTheMode == Spec => []ToolsMatchMode
<1>1. IInv => ToolsMatchMode
  BY DEF IInv, Service
<1> QED BY InitInvariant, Inductive, <1>1, PTL DEF Spec
=============================================================================
