------------------------ MODULE AgentLoopBatchProofs -------------------------
(***************************************************************************)
(* What a run of AgentLoop writes into the log: the answers, the results   *)
(* of their tool calls and the messages between them, with the copies the  *)
(* loop keeps, the calls shown as pending and what an abort still lets     *)
(* start.  The invariants say for every place of the run what the batch    *)
(* under way has written so far.                                           *)
(***************************************************************************)
EXTENDS AgentLoopOrderProofs

(* The parts of the properties that speak of one list of messages. *)
Placed(s) ==
  \A k \in DOMAIN s : s[k].role = "toolResult" =>
    /\ s[k].call < k /\ s[k - s[k].call].role = "assistant"
    /\ s[k - s[k].call].turn = s[k].turn /\ s[k].call <= s[k - s[k].call].calls
    /\ \A j \in 1..(s[k].call - 1) : /\ s[k - j].role = "toolResult"
                                     /\ s[k - j].call = s[k].call - j

Whole(s) ==
  \A i, k \in DOMAIN s :
    /\ s[i].role = "assistant" /\ s[i].stop # "stop"
    /\ s[k].role = "toolResult" /\ s[k].turn = s[i].turn
    => s[k].out = "refused" /\ s[i].stop = "length"

Numbered(s, t) ==
  /\ \A i \in DOMAIN s : s[i].role # "user" => s[i].turn <= t
  /\ \A i, j \in DOMAIN s :
       i < j /\ s[i].role = "assistant" /\ s[j].role = "assistant" => s[i].turn < s[j].turn

(* A batch keeps its calls only while its tools run. *)
BatchShape ==
  /\ pc # "tools" => calls = <<>> /\ recorded = 0
  /\ pc = "tools" => Len(calls) > 0
  /\ mode = "truncated" => \A i \in DOMAIN calls : calls[i] \in {"waiting", "preparing", "refused"}

(* Its answer and the results emitted so far end the log. *)
BatchLogged ==
  pc = "tools" =>
    LET p == Len(log) - recorded IN
    /\ p > 0
    /\ log[p].role = "assistant" /\ log[p].turn = turns /\ log[p].calls = Len(calls)
    /\ log[p].stop = IF mode = "truncated" THEN "length" ELSE "stop"
    /\ \A j \in 1..recorded : log[p + j] = Result(turns, j, calls[j])

LogInv == /\ BatchShape /\ BatchLogged /\ Numbered(log, turns)
          /\ Placed(log) /\ Whole(log)

-----------------------------------------------------------------------------
(* Follow-ups *)

EndsTerminated(s) ==
  s # <<>> /\ s[Len(s)].role = "toolResult" =>
    \A j \in 1..s[Len(s)].call : s[Len(s) + 1 - j].out = "terminate"

Waits(s) ==
  \A k \in DOMAIN s :
    /\ k > 1 /\ s[k].role = "user" /\ s[k].chan = "followUp"
    /\ s[k - 1].role = "toolResult"
    => \A j \in 1..s[k - 1].call : s[k - j].out = "terminate"

WaitInv ==
  /\ Waits(log)
  /\ pc \notin {"announce", "inject"} => pending = <<>>
  /\ \A i \in DOMAIN pending : pending[i].chan = "followUp" => EndsTerminated(log)
  /\ pc \in {"turnEnd", "pollFollowUp"} /\ ~more => EndsTerminated(log)
  /\ pc = "pollFollowUp" => ~more
  /\ LastIsAssistant(messages) => LastIsAssistant(log)

-----------------------------------------------------------------------------
(* Failures, copies, answers and pending calls *)

Over == {"ending", "failed", "idle"} \cup Failing

FailInv ==
  /\ runStart <= Len(log)
  /\ FailureIsFinal
  /\ \A i \in DOMAIN log : i > runStart /\ Failed(log[i]) => pc \in Over

BatchResults == [i \in 1..recorded |-> Result(turns, i, calls[i])]

CopyInv ==
  /\ pc = "announce" =>
       newMessages = RunLog \o pending /\ (resets = 0 => context = messages \o pending)
  /\ pc = "tools" =>
       RunLog = newMessages \o BatchResults /\ (resets = 0 => messages = context \o BatchResults)
  /\ pc \in {"inject", "stream", "doomed", "turnEnd", "pollFollowUp", "ending"} =>
       newMessages = RunLog /\ (resets = 0 => context = messages)

AnswersFor(s, k) ==
  \A i \in 1..s[k].calls :
    /\ k + i \in DOMAIN s
    /\ s[k + i].role = "toolResult" /\ s[k + i].turn = s[k].turn /\ s[k + i].call = i
Answered(s) == \A k \in DOMAIN s : s[k].role = "assistant" => AnswersFor(s, k)

AnswerInv ==
  /\ pc = "stream" \/ (~aborted /\ pc \in {"announce", "inject", "turnEnd", "pollFollowUp"}) =>
       Answered(newMessages)
  /\ pc = "tools" /\ ~aborted =>
       /\ newMessages # <<>>
       /\ newMessages[Len(newMessages)].role = "assistant"
       /\ newMessages[Len(newMessages)].turn = turns
       /\ newMessages[Len(newMessages)].calls = Len(calls)
       /\ \A k \in DOMAIN newMessages :
            k # Len(newMessages) /\ newMessages[k].role = "assistant" => AnswersFor(newMessages, k)

PendingInv ==
  /\ PendingCallsExact
  /\ \A o \in orphans : o[1] <= turns /\ (pc = "tools" => o[1] < turns)

-----------------------------------------------------------------------------
(* Lists with one more message *)

(* What a result needs to find before it. *)
Follows(s, m) ==
  /\ m.call \in 1..Len(s)
  /\ s[Len(s) + 1 - m.call].role = "assistant"
  /\ s[Len(s) + 1 - m.call].turn = m.turn
  /\ m.call <= s[Len(s) + 1 - m.call].calls
  /\ \A j \in 1..(m.call - 1) : /\ s[Len(s) + 1 - j].role = "toolResult"
                                /\ s[Len(s) + 1 - j].call = m.call - j

(* The fields of a message. *)
LEMMA MessageFields ==
  ASSUME NEW m \in Messages
  PROVE  /\ m.role \in {"user", "assistant", "toolResult"}
         /\ m.role = "toolResult" => m.turn \in Nat /\ m.call \in Nat /\ m.out \in Outcomes
         /\ m.role = "assistant" => m.turn \in Nat /\ m.calls \in Nat /\ m.stop \in Stops
         /\ m.role = "user" => m.chan \in Channels
<1>1. CASE m \in UserMessages
  BY <1>1 DEF UserMessages
<1>2. CASE m \in AssistantMessages
  BY <1>2 DEF AssistantMessages
<1>3. CASE m \in ResultMessages
  BY <1>3 DEF ResultMessages
<1> QED
  BY <1>1, <1>2, <1>3 DEF Messages

(* The messages of a list have their fields. *)
LEMMA ListFields ==
  ASSUME NEW s \in Seq(Messages)
  PROVE  /\ DOMAIN s = 1..Len(s) /\ Len(s) \in Nat
         /\ \A i \in 1..Len(s) :
              /\ s[i].role \in {"user", "assistant", "toolResult"}
              /\ s[i].role = "toolResult" =>
                   s[i].turn \in Nat /\ s[i].call \in Nat /\ s[i].out \in Outcomes
              /\ s[i].role = "assistant" =>
                   s[i].turn \in Nat /\ s[i].calls \in Nat /\ s[i].stop \in Stops
<1>1. DOMAIN s = 1..Len(s) /\ Len(s) \in Nat
  BY LenProperties
<1>2. \A i \in 1..Len(s) : s[i] \in Messages
  BY ElementOfSeq
<1> QED
  BY <1>1, <1>2, MessageFields

(* The results of a list stay in place when a message is added. *)
LEMMA PlacedEmit ==
  ASSUME NEW s \in Seq(Messages), NEW m \in Messages, Placed(s),
         m.role = "toolResult" => Follows(s, m)
  PROVE  Placed(s \o <<m>>)
<1> DEFINE n == Len(s)
           e == s \o <<m>>
<1>1. /\ DOMAIN e = 1..(n + 1) /\ DOMAIN s = 1..n /\ n \in Nat
      /\ \A i \in 1..n : e[i] = s[i]
      /\ e[n + 1] = m
  BY Extended
<1>2. \A k \in 1..n : s[k].role = "toolResult" => s[k].call \in Nat
  BY ListFields
<1>0. m.role = "toolResult" =>
        /\ m.call \in 1..n /\ s[n + 1 - m.call].role = "assistant"
        /\ s[n + 1 - m.call].turn = m.turn /\ m.call <= s[n + 1 - m.call].calls
        /\ \A j \in 1..(m.call - 1) : /\ s[n + 1 - j].role = "toolResult"
                                      /\ s[n + 1 - j].call = m.call - j
  BY DEF Follows
<1> HIDE DEF e, n
<1> SUFFICES ASSUME NEW k \in 1..(n + 1), e[k].role = "toolResult"
             PROVE  /\ e[k].call < k /\ e[k - e[k].call].role = "assistant"
                    /\ e[k - e[k].call].turn = e[k].turn
                    /\ e[k].call <= e[k - e[k].call].calls
                    /\ \A j \in 1..(e[k].call - 1) : /\ e[k - j].role = "toolResult"
                                                     /\ e[k - j].call = e[k].call - j
  BY <1>1 DEF Placed, e
<1>3. CASE k \in 1..n
  <2>1. /\ s[k].call \in Nat /\ s[k].call < k /\ s[k - s[k].call].role = "assistant"
        /\ s[k - s[k].call].turn = s[k].turn /\ s[k].call <= s[k - s[k].call].calls
        /\ \A j \in 1..(s[k].call - 1) : /\ s[k - j].role = "toolResult"
                                         /\ s[k - j].call = s[k].call - j
    <3>1. k \in DOMAIN s /\ s[k].role = "toolResult"
      BY <1>1, <1>3
    <3> QED
      BY <1>2, <1>3, <3>1 DEF Placed
  <2>2. e[k] = s[k] /\ k - s[k].call \in 1..n
    BY <1>1, <1>3, <2>1
  <2>3. \A j \in 1..(s[k].call - 1) : k - j \in 1..n
    BY <1>1, <1>3, <2>1
  <2> QED
    BY <1>1, <2>1, <2>2, <2>3
<1>4. CASE k = n + 1
  <2> DEFINE c == m.call
  <2>1. /\ c \in 1..n /\ s[n + 1 - c].role = "assistant" /\ s[n + 1 - c].turn = m.turn
        /\ c <= s[n + 1 - c].calls
        /\ \A j \in 1..(c - 1) : s[n + 1 - j].role = "toolResult" /\ s[n + 1 - j].call = c - j
    BY <1>0, <1>1, <1>4
  <2> HIDE DEF c
  <2>2. n + 1 - c \in 1..n /\ \A j \in 1..(c - 1) : n + 1 - j \in 1..n
    BY <1>1, <2>1
  <2>3. e[k].call = c /\ e[k].turn = m.turn
    BY <1>1, <1>4 DEF c
  <2> QED
    BY <1>1, <1>4, <2>1, <2>2, <2>3
<1> QED
  BY <1>1, <1>3, <1>4

(* A new answer has no results yet; a new result fits its answer. *)
LEMMA WholeEmit ==
  ASSUME NEW s \in Seq(Messages), NEW m \in Messages, Whole(s),
         m.role = "assistant" =>
           \A k \in DOMAIN s : s[k].role = "toolResult" => s[k].turn # m.turn,
         m.role = "toolResult" =>
           \A i \in DOMAIN s :
             s[i].role = "assistant" /\ s[i].stop # "stop" /\ m.turn = s[i].turn
             => m.out = "refused" /\ s[i].stop = "length"
  PROVE  Whole(s \o <<m>>)
<1> DEFINE n == Len(s)
           e == s \o <<m>>
<1>1. /\ DOMAIN e = 1..(n + 1) /\ DOMAIN s = 1..n /\ n \in Nat
      /\ \A i \in 1..n : e[i] = s[i]
      /\ e[n + 1] = m
  BY Extended
<1> HIDE DEF n, e
<1> SUFFICES ASSUME NEW i \in 1..(n + 1), NEW k \in 1..(n + 1),
                    e[i].role = "assistant", e[i].stop # "stop",
                    e[k].role = "toolResult", e[k].turn = e[i].turn
             PROVE  e[k].out = "refused" /\ e[i].stop = "length"
  BY <1>1 DEF Whole, e
<1>2. (i \in 1..n \/ i = n + 1) /\ (k \in 1..n \/ k = n + 1)
  BY <1>1
<1>3. CASE i \in 1..n /\ k \in 1..n
  BY <1>1, <1>3 DEF Whole
<1>4. CASE i = n + 1 \/ k = n + 1
  BY <1>1, <1>2, <1>4
<1> QED
  BY <1>2, <1>3, <1>4

(* Answers are numbered as they come. *)
LEMMA NumberedEmit ==
  ASSUME NEW s \in Seq(Messages), NEW m \in Messages, NEW t \in Nat, NEW u \in Nat,
         Numbered(s, t), t <= u, m.role # "user" => m.turn <= u,
         m.role = "assistant" => t < m.turn
  PROVE  Numbered(s \o <<m>>, u)
<1> DEFINE n == Len(s)
           e == s \o <<m>>
<1>1. /\ DOMAIN e = 1..(n + 1) /\ DOMAIN s = 1..n /\ n \in Nat
      /\ \A i \in 1..n : e[i] = s[i]
      /\ e[n + 1] = m
  BY Extended
<1>2. \A i \in 1..n : s[i].role # "user" => s[i].turn \in Nat /\ s[i].turn <= t
  BY <1>1, ListFields DEF Numbered
<1>3. m.role # "user" => m.turn \in Nat
  BY MessageFields
<1> HIDE DEF n, e
<1>4. \A i \in 1..(n + 1) : e[i].role # "user" => e[i].turn <= u
  BY <1>1, <1>2, <1>3
<1>5. ASSUME NEW i \in 1..(n + 1), NEW j \in 1..(n + 1), i < j,
             e[i].role = "assistant", e[j].role = "assistant"
      PROVE  e[i].turn < e[j].turn
  <2>1. i \in 1..n /\ (j \in 1..n \/ j = n + 1)
    BY <1>1, <1>5
  <2>2. CASE j \in 1..n
    BY <1>1, <1>5, <2>1, <2>2 DEF Numbered
  <2>3. CASE j = n + 1
    BY <1>1, <1>2, <1>3, <1>5, <2>1, <2>3
  <2> QED
    BY <2>1, <2>2, <2>3
<1> QED
  BY <1>1, <1>4, <1>5 DEF Numbered, e

-----------------------------------------------------------------------------
(* The log *)

(* Nothing is logged at first. *)
LEMMA LogInit == Init => LogInv
<1> SUFFICES ASSUME Init PROVE LogInv
  OBVIOUS
<1>1. log = <<>> /\ calls = <<>> /\ recorded = 0 /\ pc = "idle" /\ mode = "parallel"
  BY DEF Init
<1>2. BatchShape /\ BatchLogged
  BY <1>1 DEF BatchShape, BatchLogged
<1>3. Numbered(log, turns) /\ Placed(log) /\ Whole(log)
  BY <1>1 DEF Numbered, Placed, Whole
<1> QED
  BY <1>2, <1>3 DEF LogInv

(* The properties of the log do not depend on anything else. *)
LEMMA LogSame ==
  ASSUME LogInv, log' = log, turns' = turns, BatchShape', BatchLogged'
  PROVE  LogInv'
BY DEF LogInv, Numbered, Placed, Whole

(* Outside a batch nothing is under way. *)
LEMMA LogQuiet ==
  ASSUME LogInv, pc # "tools", pc' # "tools", UNCHANGED <<log, turns, calls, mode, recorded>>
  PROVE  LogInv'
<1>1. BatchShape' /\ BatchLogged'
  BY DEF LogInv, BatchShape, BatchLogged
<1> QED
  BY <1>1, LogSame

(* A batch that ends or is abandoned. *)
LEMMA LogLeave ==
  ASSUME LogInv, pc' # "tools", calls' = <<>>, recorded' = 0, UNCHANGED <<log, turns, mode>>
  PROVE  LogInv'
<1>1. BatchShape' /\ BatchLogged'
  BY DEF LogInv, BatchShape, BatchLogged
<1> QED
  BY <1>1, LogSame

(* Emitting outside a batch: a user message, or an answer of the next turn. *)
LEMMA LogEmit ==
  ASSUME TypeOK, LogInv, NEW m \in Messages, Emit(<<m>>), turns' \in Nat,
         \/ m.role = "user" /\ turns' = turns
         \/ m.role = "assistant" /\ m.turn = turns + 1 /\ turns' = turns + 1
  PROVE  Numbered(log, turns)' /\ Placed(log)' /\ Whole(log)'
<1>1. log' = log \o <<m>> /\ log \in Seq(Messages) /\ turns \in Nat
  BY DEF Emit, TypeOK
<1>2. Numbered(log, turns) /\ Placed(log) /\ Whole(log)
  BY DEF LogInv
<1>3. Placed(log \o <<m>>)
  BY <1>1, <1>2, PlacedEmit
<1>4. \A k \in DOMAIN log : log[k].role = "toolResult" => log[k].turn \in Nat /\ log[k].turn <= turns
  BY <1>1, <1>2, ListFields DEF Numbered
<1>5. m.role = "assistant" =>
        \A k \in DOMAIN log : log[k].role = "toolResult" => log[k].turn # m.turn
  BY <1>1, <1>4
<1>6. Whole(log \o <<m>>)
  BY <1>1, <1>2, <1>5, WholeEmit
<1>7. Numbered(log \o <<m>>, turns')
  BY <1>1, <1>2, NumberedEmit
<1> DEFINE e == log \o <<m>>
<1>8. log' = e /\ Placed(e) /\ Whole(e) /\ Numbered(e, turns')
  BY <1>1, <1>3, <1>6, <1>7
<1> HIDE DEF e
<1> QED
  BY <1>8 DEF Numbered, Placed, Whole

(* A call of the batch changes its state before its result is recorded. *)
LEMMA LogCall ==
  ASSUME TypeInv, LogInv, pc = "tools", pc' = pc, NEW i \in DOMAIN calls,
         NEW st \in Statuses, calls' = [calls EXCEPT ![i] = st], calls[i] \notin Outcomes,
         mode = "truncated" => st \in {"waiting", "preparing", "refused"},
         UNCHANGED <<log, turns, mode, recorded>>
  PROVE  LogInv'
<1>1. /\ calls' \in Seq(Statuses) /\ Len(calls') = Len(calls) /\ Len(calls) \in Nat
      /\ DOMAIN calls = 1..Len(calls) /\ DOMAIN calls' = 1..Len(calls)
      /\ \A j \in 1..Len(calls) : calls'[j] = IF j = i THEN st ELSE calls[j]
  BY ExceptSeq, LenProperties DEF TypeInv, TypeOK
<1>2. recorded \in Nat /\ recorded <= Len(calls) /\ \A j \in 1..recorded : calls[j] \in Outcomes
  BY DEF TypeInv, TypeOK, RecordedDone
<1>3. \A j \in 1..recorded : calls'[j] = calls[j]
  BY <1>1, <1>2
<1>4. BatchShape'
  BY <1>1 DEF LogInv, BatchShape
<1>5. BatchLogged'
  BY <1>1, <1>3 DEF LogInv, BatchLogged, Result
<1> QED
  BY <1>4, <1>5, LogSame

(* The tools of a parallel batch start. *)
LEMMA LogLaunch ==
  ASSUME TypeInv, LogInv, LaunchCalls
  PROVE  LogInv'
<1>1. /\ calls' = [j \in 1..Len(calls) |-> IF calls[j] = "ready" THEN "executing" ELSE calls[j]]
      /\ DOMAIN calls = 1..Len(calls) /\ Len(calls) \in Nat
      /\ calls \in Seq(Statuses)
  BY LenProperties DEF LaunchCalls, TypeInv, TypeOK
<1>2. calls' \in [1..Len(calls) -> Statuses]
  BY <1>1, ElementOfSeq DEF Statuses
<1>3. Len(calls') = Len(calls)
  BY <1>1, <1>2, FunctionIsSeq, LenProperties
<1>4. recorded \in Nat /\ recorded <= Len(calls) /\ \A j \in 1..recorded : calls[j] \in Outcomes
  BY DEF TypeInv, TypeOK, RecordedDone
<1>5. \A j \in 1..recorded : calls'[j] = calls[j]
  BY <1>1, <1>4 DEF Outcomes
<1>6. pc = "tools" /\ mode = "parallel" /\ UNCHANGED <<pc, log, turns, mode, recorded>>
  BY DEF LaunchCalls, copies, counters
<1>7. BatchShape'
  BY <1>3, <1>6 DEF LogInv, BatchShape
<1>8. BatchLogged'
  BY <1>3, <1>5, <1>6 DEF LogInv, BatchLogged, Result
<1> QED
  BY <1>6, <1>7, <1>8, LogSame

(* A response begins a batch, or none. *)
LEMMA LogRespond ==
  ASSUME TypeInv, LogInv, NEW s \in Stops, NEW k \in 0..MaxCalls, Respond(s, k)
  PROVE  LogInv'
<1> USE DEF TypeInv
<1> DEFINE m == Assistant(turns + 1, s, k)
<1>1. k \in Nat /\ turns \in Nat /\ log \in Seq(Messages)
  BY ConstantsAssumption DEF TypeOK
<1>2. m \in Messages /\ m.role = "assistant" /\ m.turn = turns + 1 /\ m.stop = s /\ m.calls = k
  BY <1>1, AssistantType DEF Assistant
<1>3. Emit(<<m>>) /\ turns' = turns + 1 /\ pc \in {"stream", "doomed"}
  BY DEF Respond
<1>4. Numbered(log, turns)' /\ Placed(log)' /\ Whole(log)'
  BY <1>1, <1>2, <1>3, LogEmit
<1>5. CASE pc' # "tools"
  <2>1. UNCHANGED batchVars
    BY <1>5 DEF Respond
  <2>2. BatchShape' /\ BatchLogged'
    BY <1>3, <1>5, <2>1 DEF LogInv, BatchShape, BatchLogged, batchVars
  <2> QED
    BY <1>4, <2>2 DEF LogInv
<1>6. CASE pc' = "tools"
  <2>1. /\ ~Failed(m) /\ k > 0 /\ recorded' = 0
        /\ calls' = [i \in 1..k |-> "waiting"]
        /\ mode' \in IF s = "length" THEN {"truncated"} ELSE BatchModes
    BY <1>6 DEF Respond
  <2>2. s \in {"stop", "length"}
    BY <1>2, <2>1 DEF Failed, Stops
  <2>3. s = "length" <=> mode' = "truncated"
    BY <2>1, ConstantsAssumption
  <2>4. calls' \in [1..k -> Statuses]
    BY <2>1 DEF Statuses
  <2>5. Len(calls') = k
    BY <1>1, <2>4, FunctionIsSeq, LenProperties
  <2>6. BatchShape'
    BY <1>1, <1>6, <2>1, <2>5 DEF BatchShape
  <2>7. /\ Len(log') = Len(log) + 1 /\ Len(log) \in Nat /\ log'[Len(log) + 1] = m
    <3>1. log' = log \o <<m>> /\ log \in Seq(Messages)
      BY <1>1, <1>3 DEF Emit
    <3>2. log \o <<m>> \in Seq(Messages)
      BY <1>2, <3>1, ConcatProperties
    <3> QED
      BY <1>1, <1>2, <3>1, <3>2, Extended, LenProperties
  <2>8. BatchLogged'
    <3>1. Len(log') - recorded' = Len(log) + 1
      BY <2>1, <2>7
    <3>2. m.stop = IF mode' = "truncated" THEN "length" ELSE "stop"
      BY <1>2, <2>2, <2>3
    <3>3. \A j \in 1..recorded' : FALSE
      BY <2>1
    <3> QED
      BY <1>2, <1>3, <2>5, <2>7, <3>1, <3>2, <3>3 DEF BatchLogged
  <2> QED
    BY <1>4, <2>6, <2>8 DEF LogInv
<1> QED
  BY <1>5, <1>6

(* What the log ends with while tools run: the answer, then its results. *)
LEMMA BatchEnd ==
  ASSUME TypeInv, LogInv, pc = "tools"
  PROVE  /\ recorded \in Nat /\ recorded < Len(log) /\ Len(log) \in Nat /\ Len(calls) \in Nat
         /\ recorded <= Len(calls) /\ Len(calls) > 0 /\ turns \in Nat
         /\ log[Len(log) - recorded].role = "assistant"
         /\ log[Len(log) - recorded].turn = turns
         /\ log[Len(log) - recorded].calls = Len(calls)
         /\ log[Len(log) - recorded].stop = IF mode = "truncated" THEN "length" ELSE "stop"
         /\ \A j \in 1..recorded :
              /\ log[Len(log) - recorded + j].role = "toolResult"
              /\ log[Len(log) - recorded + j].turn = turns
              /\ log[Len(log) - recorded + j].call = j
              /\ log[Len(log) - recorded + j].out = calls[j]
<1>1. /\ recorded \in Nat /\ Len(log) \in Nat /\ Len(calls) \in Nat
      /\ recorded <= Len(calls) /\ turns \in Nat
  BY LenProperties DEF TypeInv, TypeOK, RecordedDone
<1>2. Len(calls) > 0
  BY DEF LogInv, BatchShape
<1> DEFINE p == Len(log) - recorded
<1>3. /\ p > 0 /\ log[p].role = "assistant" /\ log[p].turn = turns /\ log[p].calls = Len(calls)
      /\ log[p].stop = IF mode = "truncated" THEN "length" ELSE "stop"
      /\ \A j \in 1..recorded : log[p + j] = Result(turns, j, calls[j])
  BY DEF LogInv, BatchLogged
<1>4. recorded < Len(log)
  BY <1>1, <1>3
<1> HIDE DEF p
<1>5. \A j \in 1..recorded :
        /\ log[p + j].role = "toolResult" /\ log[p + j].turn = turns
        /\ log[p + j].call = j /\ log[p + j].out = calls[j]
  <2> SUFFICES ASSUME NEW j \in 1..recorded
               PROVE  /\ log[p + j].role = "toolResult" /\ log[p + j].turn = turns
                      /\ log[p + j].call = j /\ log[p + j].out = calls[j]
    OBVIOUS
  <2>1. log[p + j] = Result(turns, j, calls[j])
    BY <1>3
  <2> QED
    BY <2>1 DEF Result
<1> QED
  BY <1>1, <1>2, <1>3, <1>4, <1>5 DEF p

(* The next result of a batch. *)
LEMMA LogRecord ==
  ASSUME TypeInv, LogInv, RecordResult
  PROVE  LogInv'
<1> DEFINE i == recorded + 1
           n == Len(log)
           m == Result(turns, i, calls[i])
<1>1. /\ pc = "tools" /\ i \in DOMAIN calls /\ calls[i] \in Outcomes
      /\ Emit(<<m>>) /\ recorded' = i /\ UNCHANGED <<pc, calls, mode, turns>>
  BY DEF RecordResult, InState, counters
<1>2. /\ recorded \in Nat /\ recorded < n /\ n \in Nat /\ Len(calls) \in Nat
      /\ recorded <= Len(calls) /\ Len(calls) > 0 /\ turns \in Nat
      /\ log[n - recorded].role = "assistant"
      /\ log[n - recorded].turn = turns
      /\ log[n - recorded].calls = Len(calls)
      /\ log[n - recorded].stop = IF mode = "truncated" THEN "length" ELSE "stop"
      /\ \A j \in 1..recorded :
           /\ log[n - recorded + j].role = "toolResult"
           /\ log[n - recorded + j].call = j
  BY <1>1, BatchEnd
<1>3. i \in 1..Len(calls)
  BY <1>1, LenProperties DEF TypeInv, TypeOK
<1>4. m \in Messages /\ m.role = "toolResult" /\ m.turn = turns /\ m.call = i /\ m.out = calls[i]
  <2>1. turns \in Nat /\ i \in Nat /\ calls[i] \in Outcomes
    BY <1>1, <1>2
  <2>2. m \in Messages
    BY <2>1, ResultType
  <2> QED
    BY <2>2 DEF Result
<1>5. log \in Seq(Messages) /\ log' = log \o <<m>>
  BY <1>1 DEF Emit, TypeInv, TypeOK
<1> HIDE DEF m
<1>6. Follows(log, m)
  <2>1. m.call \in 1..n /\ n + 1 - m.call = n - recorded
    BY <1>2, <1>4
  <2>2. \A j \in 1..(m.call - 1) : /\ i - j \in 1..recorded
                                   /\ n + 1 - j = n - recorded + (i - j)
    BY <1>2, <1>4
  <2>3. \A j \in 1..(m.call - 1) : /\ log[n + 1 - j].role = "toolResult"
                                   /\ log[n + 1 - j].call = m.call - j
    BY <1>2, <1>4, <2>2
  <2> QED
    BY <1>2, <1>3, <1>4, <2>1, <2>3 DEF Follows
<1>7. \A j \in DOMAIN log :
        log[j].role = "assistant" /\ log[j].stop # "stop" /\ m.turn = log[j].turn
        => m.out = "refused" /\ log[j].stop = "length"
  <2> SUFFICES ASSUME NEW j \in 1..n, log[j].role = "assistant", log[j].stop # "stop",
                      log[j].turn = turns
               PROVE  calls[i] = "refused" /\ log[j].stop = "length"
    BY <1>4, <1>5, ListFields
  <2> DEFINE p == n - recorded
  <2>1. p \in 1..n /\ p \in DOMAIN log /\ j \in DOMAIN log
    BY <1>2, <1>5, ListFields
  <2>2. ~(j < p) /\ ~(p < j /\ log[p].turn < log[j].turn)
    BY <1>2, <2>1 DEF LogInv, Numbered
  <2>3. ~(p < j)
    BY <1>2, <2>1 DEF LogInv, Numbered
  <2>4. j = p
    BY <1>2, <2>1, <2>2, <2>3
  <2>5. mode = "truncated" /\ log[j].stop = "length"
    BY <1>2, <2>4
  <2>6. calls[i] \in {"waiting", "preparing", "refused"}
    BY <1>1, <2>5 DEF LogInv, BatchShape
  <2> QED
    BY <1>1, <2>5, <2>6 DEF Outcomes
<1> DEFINE e == log \o <<m>>
<1>8. Placed(e) /\ Whole(e) /\ Numbered(e, turns)
  <2>1. Placed(log) /\ Whole(log) /\ Numbered(log, turns)
    BY DEF LogInv
  <2> QED
    BY <1>2, <1>4, <1>5, <1>6, <1>7, <2>1, PlacedEmit, WholeEmit, NumberedEmit
<1>9. BatchLogged'
  <2>1. /\ Len(log') = n + 1 /\ log'[n + 1] = m /\ \A j \in 1..n : log'[j] = log[j]
    <3>1. e \in Seq(Messages)
      BY <1>4, <1>5, ConcatProperties
    <3> QED
      BY <1>2, <1>4, <1>5, <3>1, Extended, LenProperties
  <2>2. Len(log') - recorded' = n - recorded /\ n - recorded \in 1..n
    BY <1>1, <1>2, <2>1
  <2>3. ASSUME NEW j \in 1..i
        PROVE  log'[n - recorded + j] = Result(turns, j, calls[j])
    <3>1. CASE j \in 1..recorded
      <4>1. n - recorded + j \in 1..n
        BY <1>2, <3>1
      <4> QED
        BY <1>1, <2>1, <3>1, <4>1 DEF LogInv, BatchLogged
    <3>2. CASE j = i
      <4>1. n - recorded + j = n + 1
        BY <1>2, <3>2
      <4> QED
        BY <2>1, <3>2, <4>1 DEF m
    <3> QED
      BY <1>2, <3>1, <3>2
  <2>4. log'[n - recorded] = log[n - recorded]
    BY <2>1, <2>2
  <2> HIDE DEF n
  <2>5. \A j \in 1..recorded' : log'[Len(log') - recorded' + j] = Result(turns', j, calls'[j])
    BY <1>1, <2>2, <2>3 DEF Result
  <2> QED
    BY <1>1, <1>2, <2>2, <2>4, <2>5 DEF BatchLogged
<1>10. BatchShape'
  BY <1>1 DEF LogInv, BatchShape
<1> HIDE DEF e
<1>11. log' = e /\ turns' = turns
  BY <1>1, <1>5 DEF e
<1> QED
  BY <1>8, <1>9, <1>10, <1>11 DEF LogInv, Numbered, Placed, Whole

(* A run that failed adds one answer of its own. *)
LEMMA LogFail ==
  ASSUME TypeInv, LogInv, FailRun
  PROVE  LogInv'
<1>1. \E s \in {"aborted", "error"} : Emit(<<Assistant(turns + 1, s, 0)>>)
  BY DEF FailRun
<1>2. PICK s \in {"aborted", "error"} : Emit(<<Assistant(turns + 1, s, 0)>>)
  BY <1>1
<1> DEFINE m == Assistant(turns + 1, s, 0)
<1>3. turns \in Nat /\ turns' = turns + 1
  BY DEF FailRun, TypeInv, TypeOK
<1>4. m \in Messages /\ m.role = "assistant" /\ m.turn = turns + 1
  BY <1>3, AssistantType DEF Assistant, Stops
<1>5. Numbered(log, turns)' /\ Placed(log)' /\ Whole(log)'
  BY <1>2, <1>3, <1>4, LogEmit DEF TypeInv
<1>6. pc # "tools" /\ pc' # "tools" /\ UNCHANGED <<calls, mode, recorded>>
  BY DEF FailRun, Failing, batchVars
<1>7. BatchShape' /\ BatchLogged'
  BY <1>6 DEF LogInv, BatchShape, BatchLogged
<1> QED
  BY <1>5, <1>7 DEF LogInv

(* Every step keeps the log and the batch in order. *)
LEMMA LogStep == TypeInv /\ LogInv /\ [Next]_vars => LogInv'
<1> SUFFICES ASSUME TypeInv, LogInv, [Next]_vars PROVE LogInv'
  OBVIOUS
<1> USE DEF queueVars, copies, batchVars, counters
<1>1. ASSUME NEW m \in UserMessages, Emit(<<m>>), pc # "tools", pc' = pc,
             UNCHANGED <<calls, mode, recorded, turns>>
      PROVE  LogInv'
  <2>1. m \in Messages /\ m.role = "user"
    BY DEF Messages, UserMessages
  <2>2. turns' = turns /\ turns' \in Nat /\ TypeOK
    BY <1>1 DEF TypeInv, TypeOK
  <2>3. Numbered(log, turns)' /\ Placed(log)' /\ Whole(log)'
    BY <1>1, <2>1, <2>2, LogEmit
  <2>4. BatchShape' /\ BatchLogged'
    BY <1>1 DEF LogInv, BatchShape, BatchLogged
  <2> QED
    BY <2>3, <2>4 DEF LogInv
<1>2. CASE Announce \/ Inject
  <2>1. Head(pending) \in UserMessages
    BY <1>2, HeadTailProperties DEF Announce, Inject, TypeInv, TypeOK
  <2> QED
    BY <1>1, <1>2, <2>1 DEF Announce, Inject
<1>3. CASE \/ Abort \/ Reset \/ DropFailure \/ \E c \in Queues : Enqueue(c)
           \/ \E cs \in SUBSET Queues : Clear(cs)
           \/ \E c \in Queues, m \in QueueModes : SetMode(c, m)
           \/ \E o \in orphans : OrphanEnds(o)
           \/ UNCHANGED vars
  <2>1. UNCHANGED <<pc, log, turns, calls, mode, recorded>>
    BY <1>3 DEF Abort, Reset, DropFailure, Enqueue, Clear, SetMode, OrphanEnds, vars
  <2> QED
    BY <2>1 DEF LogInv, BatchShape, BatchLogged, Numbered, Placed, Whole, Result
<1>4. CASE \/ \E k \in 1..MaxPromptBatch : Prompt(k)
           \/ \E c \in Queues : ContinueQueued(c)
           \/ ContinueTranscript
           \/ InitialPoll \/ Request \/ PollSteering \/ PollFollowUp \/ FinishRun
  <2>1. /\ pc # "tools" /\ pc' # "tools"
        /\ UNCHANGED <<log, turns, calls, mode, recorded>>
    BY <1>4 DEF Prompt, ContinueQueued, ContinueTranscript, BeginRun, Active, InitialPoll,
                Request, PollSteering, PollFollowUp, FinishRun, Failing
  <2> QED
    BY <2>1, LogQuiet
<1>5. ASSUME NEW i \in DOMAIN calls, StartCall(i) \/ RefuseCall(i) \/ AdmitCall(i)
      PROVE  LogInv'
  <2>1. \E st \in Statuses :
          /\ calls' = [calls EXCEPT ![i] = st]
          /\ mode = "truncated" => st \in {"waiting", "preparing", "refused"}
    BY <1>5 DEF StartCall, RefuseCall, AdmitCall, Admits, Statuses, Outcomes
  <2>2. /\ pc = "tools" /\ calls[i] \notin Outcomes
        /\ UNCHANGED <<pc, log, turns, mode, recorded>>
    BY <1>5 DEF StartCall, RefuseCall, AdmitCall, Outcomes
  <2> QED
    BY <2>1, <2>2, LogCall
<1>6. ASSUME NEW i \in DOMAIN calls, NEW o \in {"ok", "terminate"}, CompleteCall(i, o)
      PROVE  LogInv'
  <2>1. /\ pc = "tools" /\ calls[i] = "executing" /\ calls' = [calls EXCEPT ![i] = o]
        /\ UNCHANGED <<pc, log, turns, mode, recorded>>
    BY <1>6 DEF CompleteCall
  <2>2. mode # "truncated"
    BY <2>1 DEF LogInv, BatchShape
  <2>3. calls[i] \notin Outcomes /\ o \in Statuses
    BY <2>1 DEF Outcomes, Statuses
  <2> QED
    BY <2>1, <2>2, <2>3, LogCall
<1>7. CASE EndBatch
  BY <1>7, LogLeave DEF EndBatch
<1>8. CASE LoopFault \/ ListenerFault
  <2>1. Abandon
    BY <1>8 DEF LoopFault, ListenerFault
  <2> QED
    BY <2>1, LogLeave DEF Abandon
<1> QED
  BY <1>2, <1>3, <1>4, <1>5, <1>6, <1>7, <1>8, LogRespond, LogLaunch, LogRecord, LogFail
     DEF Next, Caller, Loop, Faults

(* Tool results reach the log right behind their assistant message, in call *)
(* order and without a gap, however the tools of a batch end, and only as   *)
(* refusals if the response was cut off; a failed response has none.        *)
THEOREM BatchesInPlace ==
  Spec => []ResultsInPlace /\ []OnlyWholeResponsesRunTools
<1>1. Spec => [](TypeInv /\ LogInv)
  BY TypeInit, TypeStep, LogInit, LogStep, PTL DEF Spec
<1>2. LogInv => ResultsInPlace
  BY DEF LogInv, Placed, ResultsInPlace
<1>3. LogInv => OnlyWholeResponsesRunTools
  BY DEF LogInv, Whole, OnlyWholeResponsesRunTools
<1> QED
  BY <1>1, <1>2, <1>3, PTL

-----------------------------------------------------------------------------
(* Failures *)

(* Steps that emit nothing and do not leave a failed run. *)
LEMMA FailFrame ==
  ASSUME FailInv, UNCHANGED <<log, runStart>>, pc \in Over => pc' \in Over
  PROVE  FailInv'
BY DEF FailInv, FailureIsFinal, Failed

(* Emitting: nothing but the run's own failure follows a failure. *)
LEMMA FailEmit ==
  ASSUME TypeOK, FailInv, NEW m \in Messages, Emit(<<m>>), runStart' = runStart,
         pc \in Over => pc' \in Over /\ Failed(m) /\ m.calls = 0,
         Failed(m) => pc' \in Over
  PROVE  FailInv'
<1> DEFINE n == Len(log)
<1>1. log \in Seq(Messages) /\ log' = log \o <<m>> /\ runStart \in Nat
  BY DEF Emit, TypeOK
<1>2. log' \in Seq(Messages)
  BY <1>1, ConcatProperties
<1>3. /\ DOMAIN log' = 1..(n + 1) /\ DOMAIN log = 1..n /\ n \in Nat /\ Len(log') = n + 1
      /\ \A i \in 1..n : log'[i] = log[i]
      /\ log'[n + 1] = m
  BY <1>1, <1>2, Extended, LenProperties
<1>4. Failed(m) => m.calls \in Nat
  BY MessageFields DEF Failed
<1>5. runStart <= n
  BY DEF FailInv
<1> HIDE DEF n
<1>6. ASSUME NEW i \in 1..(n + 1), i > runStart, Failed(log'[i])
      PROVE  pc' \in Over
  <2>1. CASE i = n + 1
    BY <1>3, <1>6, <2>1
  <2>2. CASE i \in 1..n
    BY <1>3, <1>6, <2>2 DEF FailInv, Failed
  <2> QED
    BY <1>3, <2>1, <2>2
<1>7. ASSUME NEW i \in 1..(n + 1), i > runStart, Failed(log'[i]), NEW j \in i..(n + 1)
      PROVE  Failed(log'[j]) /\ log'[j].calls * (j - i) = 0
  <2>1. CASE i = n + 1
    <3>1. j = i /\ j - i = 0
      BY <1>3, <2>1
    <3> QED
      BY <1>3, <1>4, <1>7, <2>1, <3>1
  <2>2. CASE i \in 1..n /\ j \in 1..n
    <3>1. Failed(log[i]) /\ j \in i..Len(log)
      BY <1>3, <1>7, <2>2 DEF n
    <3> QED
      BY <1>3, <1>7, <2>2, <3>1 DEF FailInv, FailureIsFinal
  <2>3. CASE i \in 1..n /\ j = n + 1
    <3>1. pc \in Over
      BY <1>3, <1>7, <2>3 DEF FailInv
    <3>2. Failed(m) /\ m.calls = 0 /\ j - i \in Nat
      BY <1>3, <2>3, <3>1
    <3> QED
      BY <1>3, <2>3, <3>2
  <2> QED
    BY <1>3, <2>1, <2>2, <2>3
<1>8. FailureIsFinal'
  <2> SUFFICES ASSUME NEW i \in DOMAIN log', i > runStart', Failed(log'[i]),
                      NEW j \in i..Len(log')
               PROVE  Failed(log'[j]) /\ log'[j].calls * (j - i) = 0
    BY DEF FailureIsFinal, Failed
  <2>1. i \in 1..(n + 1) /\ i > runStart /\ j \in i..(n + 1)
    BY <1>3
  <2> QED
    BY <1>7, <2>1
<1>9. \A i \in DOMAIN log' : i > runStart' /\ Failed(log'[i]) => pc' \in Over
  <2> SUFFICES ASSUME NEW i \in DOMAIN log', i > runStart', Failed(log'[i])
               PROVE  pc' \in Over
    OBVIOUS
  <2>1. i \in 1..(n + 1) /\ i > runStart
    BY <1>3
  <2> QED
    BY <1>6, <2>1
<1>10. runStart' <= Len(log')
  BY <1>1, <1>3, <1>5
<1> QED
  BY <1>8, <1>9, <1>10 DEF FailInv, Failed

(* Nothing follows the failure of a run. *)
LEMMA FailStep == TypeInv /\ FailInv /\ [Next]_vars => FailInv'
<1> SUFFICES ASSUME TypeInv, FailInv, [Next]_vars PROVE FailInv'
  OBVIOUS
<1> USE DEF queueVars, copies, batchVars, counters
<1>0. TypeOK
  BY DEF TypeInv
<1>1. CASE Announce \/ Inject
  <2>1. Head(pending) \in UserMessages
    BY <1>1, HeadTailProperties DEF Announce, Inject, TypeInv, TypeOK
  <2>2. Head(pending) \in Messages /\ ~Failed(Head(pending))
    BY <2>1 DEF Messages, UserMessages, Failed
  <2>3. pc \notin Over /\ Emit(<<Head(pending)>>) /\ runStart' = runStart
    BY <1>1 DEF Announce, Inject, Over, Failing
  <2> QED
    BY <1>0, <2>2, <2>3, FailEmit
<1>2. ASSUME NEW s \in Stops, NEW k \in 0..MaxCalls, Respond(s, k)
      PROVE  FailInv'
  <2> DEFINE m == Assistant(turns + 1, s, k)
  <2>1. m \in Messages
    <3>1. MaxCalls \in Nat
      BY ConstantsAssumption
    <3>2. k \in Nat /\ turns + 1 \in Nat
      BY <3>1 DEF TypeInv, TypeOK
    <3> QED
      BY <3>2, AssistantType
  <2>2. pc \notin Over /\ Emit(<<m>>) /\ runStart' = runStart
    BY <1>2 DEF Respond, Over, Failing
  <2>3. Failed(m) => pc' \in Over
    BY <1>2 DEF Respond, Over
  <2> HIDE DEF m
  <2> QED
    BY <1>0, <2>1, <2>2, <2>3, FailEmit
<1>3. CASE RecordResult
  <2> DEFINE m == Result(turns, recorded + 1, calls[recorded + 1])
  <2>1. recorded + 1 \in Nat /\ calls[recorded + 1] \in Outcomes /\ turns \in Nat
    BY <1>3 DEF RecordResult, InState, TypeInv, TypeOK
  <2>2. m \in Messages /\ ~Failed(m)
    BY <2>1, ResultType DEF Result, Failed
  <2>3. pc \notin Over /\ Emit(<<m>>) /\ runStart' = runStart
    BY <1>3 DEF RecordResult, Over, Failing
  <2> HIDE DEF m
  <2> QED
    BY <1>0, <2>2, <2>3, FailEmit
<1>4. CASE FailRun
  <2>1. \E s \in {"aborted", "error"} : Emit(<<Assistant(turns + 1, s, 0)>>)
    BY <1>4 DEF FailRun
  <2>2. PICK s \in {"aborted", "error"} : Emit(<<Assistant(turns + 1, s, 0)>>)
    BY <2>1
  <2> DEFINE m == Assistant(turns + 1, s, 0)
  <2>3. m \in Messages
    BY AssistantType DEF Stops, TypeInv, TypeOK
  <2>4. Failed(m) /\ m.calls = 0
    BY DEF Assistant, Failed
  <2>5. pc' \in Over /\ runStart' = runStart
    BY <1>4 DEF FailRun, Over
  <2>6. Emit(<<m>>)
    BY <2>2
  <2> HIDE DEF m
  <2> QED
    BY <1>0, <2>3, <2>4, <2>5, <2>6, FailEmit
<1>5. ASSUME NEW ms, BeginRun(ms)
      PROVE  FailInv'
  <2>1. log' = log /\ runStart' = Len(log) /\ Len(log) \in Nat /\ DOMAIN log = 1..Len(log)
    BY <1>0, <1>5, LenProperties DEF BeginRun, TypeOK
  <2> QED
    BY <2>1 DEF FailInv, FailureIsFinal
<1>6. CASE \/ \E k \in 1..MaxPromptBatch : Prompt(k)
           \/ \E c \in Queues : ContinueQueued(c)
           \/ ContinueTranscript
  BY <1>5, <1>6 DEF Prompt, ContinueQueued, ContinueTranscript
<1>7. CASE \/ Abort \/ Reset \/ DropFailure \/ \E c \in Queues : Enqueue(c)
           \/ \E cs \in SUBSET Queues : Clear(cs)
           \/ \E c \in Queues, m \in QueueModes : SetMode(c, m)
           \/ \E o \in orphans : OrphanEnds(o)
           \/ UNCHANGED vars
  <2>1. UNCHANGED <<pc, log, runStart>>
    BY <1>7 DEF Abort, Reset, DropFailure, Enqueue, Clear, SetMode, OrphanEnds, vars
  <2> QED
    BY <2>1, FailFrame
<1>8. CASE \/ InitialPoll \/ Request \/ PollSteering \/ PollFollowUp \/ FinishRun
           \/ LaunchCalls \/ EndBatch
           \/ \E i \in DOMAIN calls : StartCall(i) \/ RefuseCall(i) \/ AdmitCall(i)
           \/ \E i \in DOMAIN calls, o \in {"ok", "terminate"} : CompleteCall(i, o)
  <2>1. UNCHANGED <<log, runStart>> /\ (pc \in Over => pc' \in Over)
    BY <1>8 DEF InitialPoll, Request, PollSteering, PollFollowUp, FinishRun, LaunchCalls,
                EndBatch, StartCall, RefuseCall, AdmitCall, CompleteCall, Over, Failing
  <2> QED
    BY <2>1, FailFrame
<1>9. CASE LoopFault \/ ListenerFault
  <2>1. Abandon
    BY <1>9 DEF LoopFault, ListenerFault
  <2>2. UNCHANGED <<log, runStart>> /\ pc' \in Over
    BY <2>1 DEF Abandon, Over, Failing
  <2> QED
    BY <2>2, FailFrame
<1> QED
  BY <1>1, <1>2, <1>3, <1>4, <1>6, <1>7, <1>8, <1>9 DEF Next, Caller, Loop, Faults

(* A run whose answer failed or was aborted is over: no queued message, no  *)
(* tool result and no further answer but its own failure comes after it.    *)
THEOREM FailuresEndRuns == Spec => []FailureIsFinal
<1>1. Init => FailInv
  <2> SUFFICES ASSUME Init PROVE FailInv
    OBVIOUS
  <2>1. log = <<>> /\ runStart = 0
    BY DEF Init
  <2> QED
    BY <2>1 DEF FailInv, FailureIsFinal
<1>2. Spec => [](TypeInv /\ FailInv)
  BY <1>1, TypeInit, TypeStep, FailStep, PTL DEF Spec
<1> QED
  BY <1>2, PTL DEF FailInv

-----------------------------------------------------------------------------
(* The copies of the conversation *)

(* What the run has emitted is a list of messages. *)
LEMMA RunLogType ==
  ASSUME TypeOK
  PROVE  RunLog \in Seq(Messages)
<1>1. log \in Seq(Messages) /\ runStart \in Nat /\ Len(log) \in Nat
  BY LenProperties DEF TypeOK
<1>2. \A i \in (runStart + 1)..Len(log) : log[i] \in Messages
  BY <1>1, ElementOfSeq
<1> QED
  BY <1>1, <1>2, SubSeqProperties DEF RunLog

(* Emitting a message adds it to what the run has emitted. *)
LEMMA RunLogEmit ==
  ASSUME TypeOK, runStart <= Len(log), NEW m \in Messages, Emit(<<m>>), runStart' = runStart
  PROVE  RunLog' = RunLog \o <<m>>
<1> DEFINE n == Len(log)
           e == log \o <<m>>
           r == runStart + 1
<1>1. /\ log' = e /\ log \in Seq(Messages) /\ <<m>> \in Seq(Messages) /\ n \in Nat
      /\ runStart \in Nat /\ r \in 1..(n + 1)
  BY LenProperties DEF Emit, TypeOK
<1>2. e \in Seq(Messages) /\ Len(e) = n + 1 /\ e[n + 1] = m
  BY <1>1, ConcatProperties, Extended
<1> DEFINE k == n + 1
<1>3. SubSeq(e, r, k) = SubSeq(e, r, n) \o <<e[k]>>
  <2>1. r \in 1..Len(e) /\ k \in r..Len(e) /\ k - 1 = n
    BY <1>1, <1>2
  <2>2. \A a \in 1..Len(e) : \A b \in a..Len(e) :
          SubSeq(e, a, b) = SubSeq(e, a, b - 1) \o <<e[b]>>
    <3>1. e \in Seq(Messages)
      BY <1>2
    <3> HIDE DEF e
    <3> QED
      BY <3>1, SubSeqRecursiveSecond
  <2> HIDE DEF e, k, n, r
  <2>3. SubSeq(e, r, k) = SubSeq(e, r, k - 1) \o <<e[k]>>
    BY <2>1, <2>2
  <2> QED
    BY <2>1, <2>3
<1>4. SubSeq(e, r, n) = SubSeq(log, r, n)
  <2>1. CASE r \in 1..n
    <3>1. n \in 1..Len(log) /\ r \in 1..Len(log)
      BY <1>1, <2>1
    <3> HIDE DEF n, r
    <3> QED
      BY <1>1, <3>1, SubSeqOfConcat1
  <2>2. CASE r = n + 1
    <3>1. r \in Int /\ n \in Int /\ n < r
      BY <1>1, <2>2
    <3> HIDE DEF e, n, r
    <3> QED
      BY <3>1, SubSeqEmpty
  <2> QED
    BY <1>1, <2>1, <2>2
<1>5. RunLog' = SubSeq(e, r, k) /\ RunLog = SubSeq(log, r, n) /\ e[k] = m
  BY <1>1, <1>2 DEF RunLog
<1> HIDE DEF e, k, n, r
<1> QED
  BY <1>3, <1>4, <1>5

(* The results of a batch are messages. *)
LEMMA BatchResultsType ==
  ASSUME TypeInv
  PROVE  BatchResults \in Seq(Messages)
<1>1. \A i \in 1..recorded : Result(turns, i, calls[i]) \in Messages
  BY ResultType DEF TypeInv, TypeOK, RecordedDone
<1>2. BatchResults \in [1..recorded -> Messages] /\ recorded \in Nat
  BY <1>1 DEF BatchResults, TypeInv, TypeOK
<1> QED
  BY <1>2, FunctionIsSeq

(* A batch begins without results. *)
LEMMA NoBatchResults ==
  ASSUME recorded' = 0
  PROVE  BatchResults' = <<>>
<1>1. 1..0 = {}
  OBVIOUS
<1>2. BatchResults' = [i \in {} |-> Result(turns', i, calls'[i])]
  BY <1>1 DEF BatchResults, Result
<1> QED
  BY <1>2

(* A call that is not recorded is not among the results. *)
LEMMA SameBatchResults ==
  ASSUME turns' = turns, recorded' = recorded, \A j \in 1..recorded : calls'[j] = calls[j]
  PROVE  BatchResults' = BatchResults
BY DEF BatchResults, Result

(* The next result of a batch goes to the end. *)
LEMMA NextBatchResult ==
  ASSUME TypeInv, RecordResult
  PROVE  /\ Result(turns, recorded + 1, calls[recorded + 1]) \in Messages
         /\ BatchResults' = BatchResults \o <<Result(turns, recorded + 1, calls[recorded + 1])>>
<1> DEFINE i == recorded + 1
           m == Result(turns, i, calls[i])
           b == BatchResults
<1>1. /\ recorded \in Nat /\ turns \in Nat /\ calls[i] \in Outcomes
      /\ recorded' = i /\ calls' = calls /\ turns' = turns
  BY DEF RecordResult, InState, TypeInv, TypeOK, counters
<1>2. m \in Messages
  BY <1>1, ResultType
<1>3. b \in Seq(Messages) /\ DOMAIN b = 1..recorded /\ \A j \in 1..recorded : b[j] = Result(turns, j, calls[j])
  BY BatchResultsType DEF BatchResults
<1>4. Len(b) = recorded
  BY <1>1, <1>3, LenProperties
<1>5. /\ BatchResults' \in [1..i -> Messages]
      /\ \A j \in 1..i : BatchResults'[j] = Result(turns, j, calls[j])
  <2>1. BatchResults' = [j \in 1..i |-> Result(turns, j, calls[j])]
    BY <1>1 DEF BatchResults, Result
  <2>2. \A j \in 1..i : Result(turns, j, calls[j]) \in Messages
    <3>1. \A j \in 1..recorded : calls[j] \in Outcomes
      BY DEF TypeInv, RecordedDone
    <3> QED
      BY <1>1, <3>1, ResultType
  <2> QED
    BY <2>1, <2>2
<1>6. BatchResults' \in Seq(Messages) /\ Len(BatchResults') = i
  BY <1>1, <1>5, FunctionIsSeq, LenProperties
<1> HIDE DEF m, b
<1>7. b \o <<m>> \in Seq(Messages) /\ Len(b \o <<m>>) = i
  BY <1>1, <1>2, <1>3, <1>4, ConcatProperties
<1>8. \A j \in 1..i : BatchResults'[j] = (b \o <<m>>)[j]
  BY <1>1, <1>2, <1>3, <1>4, <1>5, Extended DEF m
<1>9. BatchResults' = b \o <<m>>
  BY <1>6, <1>7, <1>8, SeqEqual
<1> QED
  BY <1>2, <1>9 DEF m, b

(* A list is its first message and the others. *)
LEMMA HeadAndTail ==
  ASSUME NEW S, NEW s \in Seq(S), s # <<>>
  PROVE  Head(s) \in S /\ Tail(s) \in Seq(S) /\ s = <<Head(s)>> \o Tail(s)
<1>1. /\ Head(s) \in S /\ Tail(s) \in Seq(S) /\ Len(Tail(s)) = Len(s) - 1
      /\ \A i \in 1..Len(Tail(s)) : Tail(s)[i] = s[i + 1]
  BY HeadTailProperties
<1>2. Len(s) \in Nat /\ Len(s) > 0 /\ Head(s) = s[1]
  BY Shortened
<1> DEFINE h == <<Head(s)>>
           t == Tail(s)
<1>3. h \in Seq(S) /\ Len(h) = 1 /\ h[1] = s[1]
  BY <1>1, <1>2
<1>9. t \in Seq(S) /\ Len(t) = Len(s) - 1 /\ \A i \in 1..Len(t) : t[i] = s[i + 1]
  BY <1>1
<1> HIDE DEF h, t
<1>4. /\ h \o t \in Seq(S) /\ Len(h \o t) = Len(s)
      /\ \A i \in 1..Len(s) : (h \o t)[i] = IF i <= 1 THEN h[i] ELSE t[i - 1]
  <2>1. /\ h \o t \in Seq(S) /\ Len(h \o t) = Len(h) + Len(t)
        /\ \A i \in 1..(Len(h) + Len(t)) :
             (h \o t)[i] = IF i <= Len(h) THEN h[i] ELSE t[i - Len(h)]
    <3>1. h \in Seq(S) /\ t \in Seq(S)
      BY <1>3, <1>9
    <3> QED
      BY <3>1, ConcatProperties
  <2>2. Len(h) + Len(t) = Len(s)
    BY <1>2, <1>3, <1>9
  <2> QED
    BY <1>2, <1>3, <2>1, <2>2
<1>5. \A i \in 1..Len(s) : (h \o t)[i] = s[i]
  BY <1>9, <1>2, <1>3, <1>4
<1>6. h \o t = s
  BY <1>4, <1>5, SeqEqual
<1> QED
  BY <1>1, <1>6 DEF h, t

(* The places where the three copies agree. *)
Level == {"inject", "stream", "doomed", "turnEnd", "pollFollowUp", "ending"}

(* A run begins with a copy of the transcript and its prompts. *)
LEMMA CopyBegin ==
  ASSUME TypeOK, NEW ms \in Seq(Messages), BeginRun(ms), pending' = ms, resets' = resets
  PROVE  CopyInv'
<1>1. /\ pc' = "announce" /\ newMessages' = ms /\ context' = messages \o ms
      /\ messages' = messages /\ log' = log /\ runStart' = Len(log)
  BY DEF BeginRun
<1>2. RunLog' = <<>>
  <2>1. Len(log) \in Nat
    BY LenProperties DEF TypeOK
  <2>2. SubSeq(log, Len(log) + 1, Len(log)) = <<>>
    <3> DEFINE a == Len(log) + 1
               b == Len(log)
    <3>1. a \in Int /\ b \in Int /\ b < a
      BY <2>1
    <3> HIDE DEF a, b
    <3>2. SubSeq(log, a, b) = <<>>
      BY <3>1, SubSeqEmpty
    <3> QED
      BY <3>2 DEF a, b
  <2> QED
    BY <1>1, <2>2 DEF RunLog
<1>3. <<>> \o ms = ms
  BY ConcatEmptySeq
<1> QED
  BY <1>1, <1>2, <1>3 DEF CopyInv

(* Announcing a prompt, or injecting a message. *)
LEMMA CopyDeliver ==
  ASSUME TypeOK, FailInv, CopyInv, Announce \/ Inject
  PROVE  CopyInv'
<1> DEFINE h == Head(pending)
           t == Tail(pending)
<1>1. pending \in Seq(Messages) /\ pending # <<>>
  BY UsersAreMessages DEF TypeOK, Announce, Inject
<1>2. h \in Messages /\ t \in Seq(Messages) /\ pending = <<h>> \o t /\ <<h>> \in Seq(Messages)
  BY <1>1, HeadAndTail
<1>3. /\ Emit(<<h>>) /\ runStart' = runStart /\ runStart <= Len(log)
      /\ pc' = pc /\ pending' = t /\ resets' = resets
  BY DEF Announce, Inject, FailInv, counters
<1>4. RunLog' = RunLog \o <<h>> /\ messages' = messages \o <<h>>
  BY <1>2, <1>3, RunLogEmit DEF Emit
<1>5. RunLog \in Seq(Messages) /\ messages \in Seq(Messages)
  BY RunLogType DEF TypeOK
<1> HIDE DEF h, t
<1>6. CASE Announce
  <2>1. /\ pc = "announce" /\ newMessages' = newMessages /\ context' = context
    BY <1>6 DEF Announce
  <2>2. /\ (RunLog \o <<h>>) \o t = RunLog \o pending
        /\ (messages \o <<h>>) \o t = messages \o pending
    <3>1. (RunLog \o <<h>>) \o t = RunLog \o (<<h>> \o t)
      BY <1>2, <1>5, ConcatAssociative
    <3>2. (messages \o <<h>>) \o t = messages \o (<<h>> \o t)
      BY <1>2, <1>5, ConcatAssociative
    <3> QED
      BY <1>2, <3>1, <3>2
  <2>3. /\ newMessages' = RunLog \o pending
        /\ resets' = 0 => context' = messages \o pending
    BY <1>3, <2>1 DEF CopyInv
  <2>4. RunLog' \o pending' = RunLog \o pending /\ messages' \o pending' = messages \o pending
    BY <1>3, <1>4, <2>2
  <2> QED
    BY <1>3, <2>1, <2>3, <2>4 DEF CopyInv
<1>7. CASE Inject
  <2>1. pc = "inject" /\ newMessages' = newMessages \o <<h>> /\ context' = context \o <<h>>
    BY <1>7 DEF Inject, Keep, h
  <2> QED
    BY <1>3, <1>4, <2>1 DEF CopyInv
<1> QED
  BY <1>6, <1>7

(* An answer goes to all copies. *)
LEMMA CopyRespond ==
  ASSUME TypeInv, FailInv, CopyInv, NEW s \in Stops, NEW k \in 0..MaxCalls, Respond(s, k)
  PROVE  CopyInv'
<1> DEFINE m == Assistant(turns + 1, s, k)
<1>1. m \in Messages
  BY ConstantsAssumption, AssistantType DEF TypeInv, TypeOK
<1>2. /\ pc \in {"stream", "doomed"} /\ Emit(<<m>>) /\ runStart' = runStart /\ resets' = resets
      /\ newMessages' = newMessages \o <<m>> /\ context' = context \o <<m>>
      /\ runStart <= Len(log) /\ pc' \in {"ending", "turnEnd", "tools"}
      /\ pc' = "tools" => recorded' = 0
  BY DEF Respond, Keep, FailInv
<1>3. RunLog' = RunLog \o <<m>> /\ messages' = messages \o <<m>>
  BY <1>1, <1>2, RunLogEmit DEF Emit, TypeInv
<1> HIDE DEF m
<1>4. newMessages' = RunLog' /\ (resets' = 0 => context' = messages')
  BY <1>2, <1>3 DEF CopyInv
<1>5. newMessages' \in Seq(Messages) /\ context' \in Seq(Messages)
  BY <1>1, <1>2, ConcatProperties DEF TypeInv, TypeOK
<1>6. newMessages' \o <<>> = newMessages' /\ context' \o <<>> = context'
  BY <1>5, ConcatEmptySeq
<1>7. pc' = "tools" => BatchResults' = <<>>
  BY <1>2, NoBatchResults
<1> QED
  BY <1>2, <1>4, <1>6, <1>7 DEF CopyInv

(* Results are emitted first and reach the loop's copies when the batch ends. *)
LEMMA CopyBatch ==
  ASSUME TypeInv, FailInv, CopyInv, RecordResult \/ EndBatch
  PROVE  CopyInv'
<1>1. CASE RecordResult
  <2> DEFINE m == Result(turns, recorded + 1, calls[recorded + 1])
  <2>1. m \in Messages /\ BatchResults' = BatchResults \o <<m>>
    BY <1>1, NextBatchResult
  <2>2. /\ pc = "tools" /\ pc' = pc /\ Emit(<<m>>) /\ runStart' = runStart /\ resets' = resets
        /\ newMessages' = newMessages /\ context' = context /\ runStart <= Len(log)
    BY <1>1 DEF RecordResult, FailInv, counters
  <2>3. RunLog' = RunLog \o <<m>> /\ messages' = messages \o <<m>>
    BY <2>1, <2>2, RunLogEmit DEF Emit, TypeInv
  <2> HIDE DEF m
  <2>4. /\ <<m>> \in Seq(Messages) /\ BatchResults \in Seq(Messages)
        /\ newMessages \in Seq(Messages) /\ context \in Seq(Messages)
    BY <2>1, BatchResultsType DEF TypeInv, TypeOK
  <2>5. /\ (newMessages \o BatchResults) \o <<m>> = newMessages \o (BatchResults \o <<m>>)
        /\ (context \o BatchResults) \o <<m>> = context \o (BatchResults \o <<m>>)
    BY <2>4, ConcatAssociative
  <2> QED
    BY <2>1, <2>2, <2>3, <2>5 DEF CopyInv
<1>2. CASE EndBatch
  <2>1. /\ pc = "tools" /\ pc' = "turnEnd" /\ resets' = resets /\ runStart' = runStart
        /\ log' = log /\ messages' = messages
        /\ newMessages' = newMessages \o BatchResults /\ context' = context \o BatchResults
    BY <1>2 DEF EndBatch, Keep, BatchResults, counters
  <2>2. RunLog' = RunLog
    BY <2>1 DEF RunLog
  <2> QED
    BY <2>1, <2>2 DEF CopyInv
<1> QED
  BY <1>1, <1>2

(* A call of the batch that changes its state leaves the results alone. *)
LEMMA CopyCalls ==
  ASSUME TypeInv, CopyInv, pc = "tools",
         UNCHANGED <<pc, log, runStart, newMessages, context, messages, resets, turns, recorded>>,
         \A j \in 1..recorded : calls'[j] = calls[j]
  PROVE  CopyInv'
<1>1. BatchResults' = BatchResults
  BY SameBatchResults
<1>2. RunLog' = RunLog
  BY DEF RunLog
<1> QED
  BY <1>1, <1>2 DEF CopyInv

(* Every step keeps the copies together. *)
LEMMA CopyStep == TypeInv /\ FailInv /\ CopyInv /\ [Next]_vars => CopyInv'
<1> SUFFICES ASSUME TypeInv, FailInv, CopyInv, [Next]_vars PROVE CopyInv'
  OBVIOUS
<1> USE DEF queueVars, copies, batchVars, counters
<1>0. /\ TypeOK /\ DOMAIN calls = 1..Len(calls)
      /\ \A j \in 1..recorded : j \in DOMAIN calls /\ calls[j] \in Outcomes
  BY LenProperties DEF TypeInv, TypeOK, RecordedDone
<1>1. ASSUME NEW k \in 1..MaxPromptBatch, Prompt(k)
      PROVE  CopyInv'
  <2> DEFINE ms == [i \in 1..k |-> User("prompt", sent["prompt"] + i)]
  <2>1. pending' = ms /\ BeginRun(ms) /\ resets' = resets
    BY <1>1 DEF Prompt, BeginRun
  <2>2. pending' \in Seq(UserMessages)
    BY <1>1, CallerType DEF Caller, TypeInv, TypeOK
  <2>3. ms \in Seq(Messages)
    BY <2>1, <2>2, UsersAreMessages
  <2> QED
    BY <1>0, <2>1, <2>3, CopyBegin
<1>2. ASSUME NEW c \in Queues, ContinueQueued(c)
      PROVE  CopyInv'
  <2>1. pending' = Drained(c) /\ BeginRun(Drained(c)) /\ resets' = resets
    BY <1>2 DEF ContinueQueued, BeginRun, Drain
  <2>2. Drained(c) \in Seq(Messages)
    BY <1>0, DrainType, UsersAreMessages
  <2> QED
    BY <1>0, <2>1, <2>2, CopyBegin
<1>3. CASE ContinueTranscript
  <2>1. pending' = <<>> /\ BeginRun(<<>>) /\ resets' = resets /\ <<>> \in Seq(Messages)
    BY <1>3 DEF ContinueTranscript, BeginRun
  <2> QED
    BY <1>0, <2>1, CopyBegin
<1>4. CASE InitialPoll
  <2>1. /\ pc = "announce" /\ pc' = "inject" /\ pending = <<>>
        /\ UNCHANGED <<log, runStart, newMessages, context, messages, resets>>
    BY <1>4 DEF InitialPoll
  <2>2. RunLog' = RunLog /\ RunLog \in Seq(Messages) /\ messages \in Seq(Messages)
    BY <1>0, <2>1, RunLogType DEF RunLog, TypeOK
  <2>3. RunLog \o <<>> = RunLog /\ messages \o <<>> = messages
    BY <2>2, ConcatEmptySeq
  <2> QED
    BY <2>1, <2>2, <2>3 DEF CopyInv
<1>5. CASE Request \/ PollSteering \/ PollFollowUp
  <2>1. /\ pc \in Level /\ pc' \in Level
        /\ UNCHANGED <<log, runStart, newMessages, context, messages, resets>>
    BY <1>5 DEF Request, PollSteering, PollFollowUp, Level
  <2>2. RunLog' = RunLog
    BY <2>1 DEF RunLog
  <2> QED
    BY <2>1, <2>2 DEF CopyInv, Level
<1>6. ASSUME NEW i \in DOMAIN calls, StartCall(i) \/ RefuseCall(i) \/ AdmitCall(i)
      PROVE  CopyInv'
  <2>1. /\ pc = "tools" /\ calls[i] \notin Outcomes /\ \E st : calls' = [calls EXCEPT ![i] = st]
        /\ UNCHANGED <<pc, log, runStart, newMessages, context, messages, resets, turns, recorded>>
    BY <1>6 DEF StartCall, RefuseCall, AdmitCall, Outcomes
  <2>2. \A j \in 1..recorded : calls'[j] = calls[j]
    BY <1>0, <2>1
  <2> QED
    BY <2>1, <2>2, CopyCalls
<1>7. ASSUME NEW i \in DOMAIN calls, NEW o \in {"ok", "terminate"}, CompleteCall(i, o)
      PROVE  CopyInv'
  <2>1. /\ pc = "tools" /\ calls[i] \notin Outcomes /\ calls' = [calls EXCEPT ![i] = o]
        /\ UNCHANGED <<pc, log, runStart, newMessages, context, messages, resets, turns, recorded>>
    BY <1>7 DEF CompleteCall, Outcomes
  <2>2. \A j \in 1..recorded : calls'[j] = calls[j]
    BY <1>0, <2>1
  <2> QED
    BY <2>1, <2>2, CopyCalls
<1>8. CASE LaunchCalls
  <2>1. /\ pc = "tools"
        /\ \A j \in DOMAIN calls : calls[j] \in Outcomes => calls'[j] = calls[j]
        /\ UNCHANGED <<pc, log, runStart, newMessages, context, messages, resets, turns, recorded>>
    BY <1>8 DEF LaunchCalls, Outcomes
  <2>2. \A j \in 1..recorded : calls'[j] = calls[j]
    BY <1>0, <2>1
  <2> QED
    BY <2>1, <2>2, CopyCalls
<1>9. CASE Reset
  <2>1. /\ resets' # 0 /\ UNCHANGED <<pc, log, runStart, newMessages, pending>>
        /\ UNCHANGED <<turns, recorded, calls>>
    BY <1>0, <1>9 DEF Reset, TypeOK
  <2>2. RunLog' = RunLog /\ BatchResults' = BatchResults
    BY <2>1, SameBatchResults DEF RunLog
  <2> QED
    BY <2>1, <2>2 DEF CopyInv
<1>10. CASE DropFailure \/ FinishRun \/ FailRun \/ LoopFault \/ ListenerFault
  <2>1. pc' \notin Level \cup {"announce", "tools"}
    BY <1>10 DEF DropFailure, FinishRun, FailRun, LoopFault, ListenerFault, Abandon, Active, Level
  <2> QED
    BY <2>1 DEF CopyInv, Level
<1>11. CASE \/ Abort \/ \E c \in Queues : Enqueue(c)
            \/ \E cs \in SUBSET Queues : Clear(cs)
            \/ \E c \in Queues, m \in QueueModes : SetMode(c, m)
            \/ \E o \in orphans : OrphanEnds(o)
            \/ UNCHANGED vars
  <2>1. /\ UNCHANGED <<pc, log, runStart, newMessages, context, messages, resets, pending>>
        /\ UNCHANGED <<turns, recorded, calls>>
    BY <1>11 DEF Abort, Enqueue, Clear, SetMode, OrphanEnds, vars
  <2>2. RunLog' = RunLog /\ BatchResults' = BatchResults
    BY <2>1, SameBatchResults DEF RunLog
  <2> QED
    BY <2>1, <2>2 DEF CopyInv
<1> QED
  BY <1>0, <1>1, <1>2, <1>3, <1>4, <1>5, <1>6, <1>7, <1>8, <1>9, <1>10, <1>11,
     CopyDeliver, CopyRespond, CopyBatch DEF Next, Caller, Loop, Faults

(* The request sends what listeners saw, and agent_end reports what the run *)
(* added, whatever was drained, aborted or answered in between.             *)
THEOREM ThreeCopiesAgree == Spec => []CopiesAgree
<1>1. Init => FailInv /\ CopyInv
  <2> SUFFICES ASSUME Init PROVE FailInv /\ CopyInv
    OBVIOUS
  <2>1. log = <<>> /\ runStart = 0 /\ pc = "idle"
    BY DEF Init
  <2> QED
    BY <2>1 DEF FailInv, FailureIsFinal, CopyInv
<1>2. Spec => [](TypeInv /\ FailInv /\ CopyInv)
  BY <1>1, TypeInit, TypeStep, FailStep, CopyStep, PTL DEF Spec
<1>3. CopyInv => CopiesAgree
  BY DEF CopyInv, CopiesAgree
<1> QED
  BY <1>2, <1>3, PTL

-----------------------------------------------------------------------------
(* Answered calls *)

(* Adding messages does not take an answer away. *)
LEMMA AnswersKept ==
  ASSUME NEW s \in Seq(Messages), NEW t \in Seq(Messages), NEW k \in DOMAIN s,
         s[k].role = "assistant", AnswersFor(s, k)
  PROVE  AnswersFor(s \o t, k)
<1> DEFINE n == Len(s)
           e == s \o t
<1>1. /\ e \in Seq(Messages) /\ Len(e) = n + Len(t) /\ n \in Nat /\ Len(t) \in Nat
      /\ \A i \in 1..(n + Len(t)) : e[i] = IF i <= n THEN s[i] ELSE t[i - n]
      /\ DOMAIN s = 1..n
  BY ConcatProperties, LenProperties
<1>2. DOMAIN e = 1..(n + Len(t))
  BY <1>1, LenProperties
<1> HIDE DEF n, e
<1>3. \A i \in 1..n : i \in DOMAIN e /\ e[i] = s[i]
  BY <1>1, <1>2
<1> QED
  BY <1>1, <1>3 DEF AnswersFor, e

(* A message without tool calls needs no answer. *)
LEMMA AnsweredEmit ==
  ASSUME NEW s \in Seq(Messages), NEW m \in Messages, Answered(s),
         m.role = "assistant" => m.calls = 0
  PROVE  Answered(s \o <<m>>)
<1> DEFINE n == Len(s)
           e == s \o <<m>>
<1>1. /\ DOMAIN e = 1..(n + 1) /\ DOMAIN s = 1..n /\ n \in Nat
      /\ \A i \in 1..n : e[i] = s[i]
      /\ e[n + 1] = m /\ <<m>> \in Seq(Messages)
  BY Extended
<1>2. \A k \in 1..n : s[k].role = "assistant" => AnswersFor(e, k)
  BY <1>1, AnswersKept DEF Answered
<1> HIDE DEF n, e
<1>3. m.role = "assistant" => AnswersFor(e, n + 1)
  BY <1>1 DEF AnswersFor
<1> QED
  BY <1>1, <1>2, <1>3 DEF Answered, e

(* The results of a whole batch answer its message. *)
LEMMA AnsweredBatch ==
  ASSUME TypeInv, NEW s \in Seq(Messages), s # <<>>, recorded = Len(calls),
         s[Len(s)].role = "assistant", s[Len(s)].turn = turns, s[Len(s)].calls = Len(calls),
         \A k \in DOMAIN s : k # Len(s) /\ s[k].role = "assistant" => AnswersFor(s, k)
  PROVE  Answered(s \o BatchResults)
<1> DEFINE n == Len(s)
           b == BatchResults
           e == s \o b
<1>1. b \in Seq(Messages) /\ DOMAIN b = 1..recorded /\ recorded \in Nat
  BY BatchResultsType DEF BatchResults, TypeInv, TypeOK
<1>2. Len(b) = recorded
  BY <1>1, LenProperties
<1>3. \A j \in 1..recorded : b[j].role = "toolResult" /\ b[j].turn = turns /\ b[j].call = j
  BY DEF BatchResults, Result
<1> HIDE DEF b
<1>a. /\ e \in Seq(Messages) /\ Len(e) = Len(s) + Len(b)
      /\ \A i \in 1..(Len(s) + Len(b)) : e[i] = IF i <= Len(s) THEN s[i] ELSE b[i - Len(s)]
  <2>1. s \in Seq(Messages) /\ b \in Seq(Messages)
    BY <1>1
  <2> QED
    BY <2>1, ConcatProperties
<1>b. n \in Nat /\ n > 0 /\ DOMAIN s = 1..n
  BY LenProperties, EmptySeq
<1>4. /\ e \in Seq(Messages) /\ Len(e) = n + recorded /\ n \in Nat /\ n > 0
      /\ \A i \in 1..(n + recorded) : e[i] = IF i <= n THEN s[i] ELSE b[i - n]
      /\ DOMAIN s = 1..n
  <2> HIDE DEF e
  <2> QED
    BY <1>2, <1>a, <1>b
<1>5. DOMAIN e = 1..(n + recorded)
  BY <1>4, LenProperties
<1>6. \A k \in 1..n : k # n /\ s[k].role = "assistant" => AnswersFor(e, k)
  BY <1>1, <1>4, AnswersKept
<1> HIDE DEF e
<1>7. AnswersFor(e, n)
  <2>1. e[n] = s[n] /\ \A i \in 1..recorded : n + i \in DOMAIN e /\ e[n + i] = b[i]
    BY <1>1, <1>4, <1>5
  <2> QED
    BY <1>3, <2>1 DEF AnswersFor
<1>8. \A k \in DOMAIN e : e[k].role = "assistant" => k \in 1..n /\ s[k].role = "assistant"
  <2> SUFFICES ASSUME NEW k \in 1..(n + recorded), e[k].role = "assistant"
               PROVE  k \in 1..n /\ s[k].role = "assistant"
    BY <1>5
  <2>1. CASE k <= n
    BY <1>4, <2>1
  <2>2. CASE ~(k <= n)
    <3>1. k - n \in 1..recorded /\ e[k] = b[k - n]
      BY <1>1, <1>4, <2>2
    <3> QED
      BY <1>3, <3>1
  <2> QED
    BY <2>1, <2>2
<1> QED
  BY <1>6, <1>7, <1>8 DEF Answered, e, b

(* A batch that ends without an abort has a result for every call. *)
LEMMA WholeBatch ==
  ASSUME TypeInv, BatchDone, ~aborted
  PROVE  recorded = Len(calls)
<1>1. /\ DOMAIN calls = 1..Len(calls) /\ Len(calls) \in Nat /\ recorded \in Nat
      /\ recorded <= Len(calls)
  BY LenProperties DEF TypeInv, TypeOK, RecordedDone
<1>2. \A i \in 1..Len(calls) : calls[i] \in Statuses
  BY ElementOfSeq DEF TypeInv, TypeOK
<1>3. \A i \in 1..Len(calls) : calls[i] # "waiting"
  BY <1>1 DEF BatchDone, LoopOver, InState
<1>4. \A i \in 1..Len(calls) : i \in InState(Open \cup Outcomes)
  BY <1>1, <1>2, <1>3 DEF InState, Open, Outcomes, Statuses
<1> DEFINE n == Len(calls)
<1>5. 1..n \subseteq 1..recorded
  BY <1>4 DEF BatchDone
<1>6. n \in Nat /\ recorded \in Nat /\ recorded <= n
  BY <1>1
<1> HIDE DEF n
<1>7. CASE n = 0
  BY <1>6, <1>7 DEF n
<1>8. CASE n # 0
  <2>1. n \in 1..n
    BY <1>6, <1>8
  <2>2. n \in 1..recorded
    BY <1>5, <2>1
  <2>3. recorded = n
    BY <1>6, <2>2
  <2> QED
    BY <2>3 DEF n
<1> QED
  BY <1>7, <1>8

(* Steps that leave the run where it is, and its list alone. *)
LEMMA AnswerFrame ==
  ASSUME AnswerInv, UNCHANGED <<pc, newMessages, turns>>, aborted => aborted',
         Len(calls') = Len(calls)
  PROVE  AnswerInv'
BY DEF AnswerInv, Answered, AnswersFor

(* Every step keeps the requests answered. *)
LEMMA AnswerStep == TypeInv /\ LogInv /\ AnswerInv /\ [Next]_vars => AnswerInv'
<1> SUFFICES ASSUME TypeInv, LogInv, AnswerInv, [Next]_vars PROVE AnswerInv'
  OBVIOUS
<1> USE DEF queueVars, copies, batchVars, counters
<1>0. /\ TypeOK /\ newMessages \in Seq(Messages) /\ calls \in Seq(Statuses)
      /\ DOMAIN calls = 1..Len(calls)
  BY LenProperties DEF TypeInv, TypeOK
<1>1. ASSUME NEW ms \in Seq(UserMessages), BeginRun(ms)
      PROVE  AnswerInv'
  <2>1. newMessages' = ms /\ pc' = "announce"
    BY <1>1 DEF BeginRun
  <2>2. \A k \in DOMAIN ms : ms[k] \in UserMessages
    BY LenProperties, ElementOfSeq
  <2>3. \A k \in DOMAIN ms : ms[k].role = "user"
    BY <2>2 DEF UserMessages
  <2> QED
    BY <2>1, <2>3 DEF AnswerInv, Answered
<1>2. CASE \/ \E k \in 1..MaxPromptBatch : Prompt(k)
           \/ \E c \in Queues : ContinueQueued(c)
           \/ ContinueTranscript
  <2>1. ASSUME NEW k \in 1..MaxPromptBatch, Prompt(k)
        PROVE  AnswerInv'
    <3>1. pending' \in Seq(UserMessages) /\ BeginRun(pending')
      BY <2>1, CallerType DEF Prompt, Caller, TypeInv, TypeOK
    <3>2. PICK ms \in Seq(UserMessages) : BeginRun(ms)
      BY <2>1, <3>1 DEF Prompt
    <3> QED
      BY <1>1, <3>2
  <2>2. ASSUME NEW c \in Queues, ContinueQueued(c)
        PROVE  AnswerInv'
    BY <1>0, <1>1, <2>2, DrainType DEF ContinueQueued
  <2>3. CASE ContinueTranscript
    BY <1>1, <2>3, EmptySeq DEF ContinueTranscript
  <2> QED
    BY <1>2, <2>1, <2>2, <2>3
<1>3. CASE \/ Announce \/ Abort \/ Reset \/ DropFailure \/ \E c \in Queues : Enqueue(c)
           \/ \E cs \in SUBSET Queues : Clear(cs)
           \/ \E c \in Queues, m \in QueueModes : SetMode(c, m)
           \/ \E o \in orphans : OrphanEnds(o)
           \/ RecordResult \/ UNCHANGED vars
  <2>1. UNCHANGED <<pc, newMessages, turns, calls>> /\ (aborted => aborted')
    BY <1>3 DEF Announce, Abort, Reset, DropFailure, Enqueue, Clear, SetMode, OrphanEnds,
                RecordResult, vars
  <2> QED
    BY <2>1, AnswerFrame
<1>4. ASSUME NEW i \in DOMAIN calls,
             \/ StartCall(i) \/ RefuseCall(i) \/ AdmitCall(i)
             \/ \E o \in {"ok", "terminate"} : CompleteCall(i, o)
      PROVE  AnswerInv'
  <2>1. /\ UNCHANGED <<pc, newMessages, turns, aborted>>
        /\ \E st \in Statuses : calls' = [calls EXCEPT ![i] = st]
    BY <1>4 DEF StartCall, RefuseCall, AdmitCall, CompleteCall, Statuses, Outcomes
  <2>2. Len(calls') = Len(calls)
    BY <1>0, <2>1, ExceptSeq
  <2> QED
    BY <2>1, <2>2, AnswerFrame
<1>5. CASE LaunchCalls
  <2>1. calls' = [j \in 1..Len(calls) |-> IF calls[j] = "ready" THEN "executing" ELSE calls[j]]
    BY <1>0, <1>5 DEF LaunchCalls
  <2>2. calls' \in [1..Len(calls) -> Statuses]
    BY <1>0, <2>1, ElementOfSeq DEF Statuses
  <2>3. Len(calls') = Len(calls)
    BY <1>0, <2>2, FunctionIsSeq, LenProperties
  <2> QED
    BY <1>5, <2>3, AnswerFrame DEF LaunchCalls
<1>6. CASE Inject
  <2>1. Head(pending) \in UserMessages
    BY <1>0, <1>6, HeadTailProperties DEF Inject, TypeOK
  <2>2. Head(pending) \in Messages /\ Head(pending).role = "user"
    BY <2>1 DEF UserMessages, Messages
  <2>3. /\ newMessages' = newMessages \o <<Head(pending)>>
        /\ pc = "inject" /\ pc' = "inject" /\ aborted' = aborted
    BY <1>6 DEF Inject, Keep
  <2>4. Answered(newMessages) => Answered(newMessages')
    BY <1>0, <2>2, <2>3, AnsweredEmit
  <2> QED
    BY <2>3, <2>4 DEF AnswerInv
<1>7. CASE InitialPoll \/ Request \/ PollSteering \/ PollFollowUp
  <2>1. /\ UNCHANGED <<newMessages, aborted>>
        /\ pc \in {"announce", "inject", "turnEnd", "pollFollowUp"}
        /\ pc' \in {"inject", "stream", "doomed", "pollFollowUp", "ending"}
        /\ pc' = "stream" => ~aborted
    BY <1>7 DEF InitialPoll, Request, PollSteering, PollFollowUp
  <2> QED
    BY <2>1 DEF AnswerInv, Answered, AnswersFor
<1>8. ASSUME NEW s \in Stops, NEW k \in 0..MaxCalls, Respond(s, k)
      PROVE  AnswerInv'
  <2> DEFINE m == Assistant(turns + 1, s, k)
  <2>1. k \in Nat /\ turns \in Nat
    BY <1>0, ConstantsAssumption DEF TypeOK
  <2>2. m \in Messages /\ m.role = "assistant" /\ m.turn = turns + 1 /\ m.calls = k /\ m.stop = s
    BY <2>1, AssistantType DEF Assistant
  <2>3. /\ newMessages' = newMessages \o <<m>> /\ turns' = turns + 1
        /\ pc \in {"stream", "doomed"} /\ s \in Answers
    BY <1>8 DEF Respond, Keep
  <2>4. \/ pc' = "ending"
        \/ pc' = "turnEnd" /\ k = 0 /\ ~Failed(m)
        \/ pc' = "tools" /\ k > 0 /\ ~Failed(m) /\ calls' = [i \in 1..k |-> "waiting"]
    BY <1>8 DEF Respond
  <2> HIDE DEF m
  <2>5. CASE pc' = "ending"
    BY <2>5 DEF AnswerInv
  <2>6. ASSUME ~Failed(m)
        PROVE  Answered(newMessages)
    <3>1. pc = "stream"
      BY <2>2, <2>3, <2>6 DEF Failed, Answers
    <3> QED
      BY <3>1 DEF AnswerInv
  <2>7. CASE pc' = "turnEnd" /\ k = 0 /\ ~Failed(m)
    BY <1>0, <2>2, <2>3, <2>6, <2>7, AnsweredEmit DEF AnswerInv
  <2>8. CASE pc' = "tools" /\ k > 0 /\ ~Failed(m) /\ calls' = [i \in 1..k |-> "waiting"]
    <3> DEFINE n == Len(newMessages)
    <3>1. calls' \in [1..k -> Statuses]
      BY <2>8 DEF Statuses
    <3>2. Len(calls') = k
      BY <2>1, <3>1, FunctionIsSeq, LenProperties
    <3>3. <<m>> \in Seq(Messages)
      BY <2>2
    <3>4. newMessages' \in Seq(Messages)
      BY <1>0, <2>3, <3>3, ConcatProperties
    <3>5. /\ DOMAIN newMessages' = 1..(n + 1) /\ Len(newMessages') = n + 1 /\ n \in Nat
          /\ DOMAIN newMessages = 1..n
          /\ newMessages'[n + 1] = m /\ \A i \in 1..n : newMessages'[i] = newMessages[i]
      BY <1>0, <2>2, <2>3, <3>4, Extended, LenProperties
    <3>6. \A i \in 1..n : newMessages[i].role = "assistant" => AnswersFor(newMessages, i)
      BY <2>6, <2>8, <3>5 DEF Answered
    <3>7. \A i \in 1..n : newMessages'[i].role = "assistant" => AnswersFor(newMessages', i)
      BY <1>0, <2>3, <3>3, <3>5, <3>6, AnswersKept
    <3>8. newMessages' # <<>>
      BY <3>4, <3>5, EmptySeq
    <3> HIDE DEF n
    <3>9. \A i \in DOMAIN newMessages' :
            i # Len(newMessages') /\ newMessages'[i].role = "assistant" => AnswersFor(newMessages', i)
      BY <3>5, <3>7
    <3>10. /\ newMessages'[Len(newMessages')].role = "assistant"
           /\ newMessages'[Len(newMessages')].turn = turns'
           /\ newMessages'[Len(newMessages')].calls = Len(calls')
      BY <2>2, <2>3, <3>2, <3>5
    <3> QED
      BY <2>8, <3>8, <3>9, <3>10 DEF AnswerInv, AnswersFor
  <2> QED
    BY <2>4, <2>5, <2>7, <2>8
<1>9. CASE EndBatch
  <2>1. /\ pc = "tools" /\ pc' = "turnEnd" /\ aborted' = aborted /\ BatchDone
        /\ newMessages' = newMessages \o BatchResults
    BY <1>9 DEF EndBatch, Keep, BatchResults
  <2>2. ~aborted => Answered(newMessages \o BatchResults)
    BY <1>0, <2>1, WholeBatch, AnsweredBatch DEF AnswerInv
  <2> DEFINE e == newMessages \o BatchResults
  <2>3. newMessages' = e /\ (~aborted => Answered(e))
    BY <2>1, <2>2
  <2> HIDE DEF e
  <2> QED
    BY <2>1, <2>3 DEF AnswerInv, Answered, AnswersFor
<1>10. CASE FinishRun \/ FailRun \/ LoopFault \/ ListenerFault
  <2>1. pc' \in {"idle", "failed"} \cup Failing
    BY <1>10 DEF FinishRun, FailRun, LoopFault, ListenerFault, Abandon, Failing
  <2> QED
    BY <2>1 DEF AnswerInv, Failing
<1> QED
  BY <1>2, <1>3, <1>4, <1>5, <1>6, <1>7, <1>8, <1>9, <1>10 DEF Next, Caller, Loop, Faults

(* A request that can reach the provider has the result of every tool call *)
(* of the run behind the call, although an abort may cut a batch short.     *)
THEOREM RequestsAreAnswered == Spec => []CallsAnswered
<1>1. Init => AnswerInv
  BY DEF Init, AnswerInv
<1>2. Spec => [](TypeInv /\ LogInv /\ AnswerInv)
  BY <1>1, TypeInit, TypeStep, LogInit, LogStep, AnswerStep, PTL DEF Spec
<1>3. AnswerInv => CallsAnswered
  BY DEF AnswerInv, Answered, AnswersFor, CallsAnswered
<1> QED
  BY <1>2, <1>3, PTL

-----------------------------------------------------------------------------
(* Pending calls *)

(* A batch that has all its results has no call open. *)
LEMMA NothingOpen ==
  ASSUME TypeInv, BatchDone
  PROVE  InState(Open) = {}
<1>1. \A i \in InState(Open) : i \in 1..recorded
  BY DEF BatchDone, InState
<1>2. \A i \in 1..recorded : calls[i] \in Outcomes
  BY DEF TypeInv, RecordedDone
<1> QED
  BY <1>1, <1>2 DEF InState, Open, Outcomes

(* No batch, no open call. *)
LEMMA NoBatchNothingOpen ==
  ASSUME calls = <<>>
  PROVE  InState(Open) = {}
BY DEF InState

(* Steps that touch neither the calls nor what is shown of them. *)
LEMMA PendingFrame ==
  ASSUME PendingInv, UNCHANGED <<pendingCalls, orphans, turns, resets, calls>>,
         pc' = "tools" => pc = "tools",
         pc \in Failing \cup {"failed", "ending"} => pc' \in Failing \cup {"failed", "ending"}
  PROVE  PendingInv'
BY DEF PendingInv, PendingCallsExact, InState

(* A call of the batch changes its state. *)
LEMMA PendingCall ==
  ASSUME TypeInv, PendingInv, pc = "tools", pc' = "tools", NEW i \in DOMAIN calls,
         NEW st \in Statuses, calls' = [calls EXCEPT ![i] = st],
         UNCHANGED <<orphans, turns, resets>>,
         \/ st \in Open /\ pendingCalls' = pendingCalls \cup {<<turns, i>>}
         \/ st \in Open /\ calls[i] \in Open /\ UNCHANGED pendingCalls
         \/ st \notin Open /\ pendingCalls' = pendingCalls \ {<<turns, i>>}
  PROVE  PendingInv'
<1>1. DOMAIN calls' = DOMAIN calls /\ \A j \in DOMAIN calls : calls'[j] = IF j = i THEN st ELSE calls[j]
  OBVIOUS
<1>2. InState(Open)' = IF st \in Open THEN InState(Open) \cup {i} ELSE InState(Open) \ {i}
  BY <1>1 DEF InState
<1>3. ASSUME pendingCalls = {<<turns, j>> : j \in InState(Open)}
      PROVE  pendingCalls' = {<<turns, j>> : j \in InState(Open)'}
  <2>1. CASE st \in Open /\ pendingCalls' = pendingCalls \cup {<<turns, i>>}
    BY <1>2, <1>3, <2>1
  <2>2. CASE st \in Open /\ calls[i] \in Open /\ UNCHANGED pendingCalls
    <3>1. i \in InState(Open)
      BY <2>2 DEF InState
    <3> QED
      BY <1>2, <1>3, <2>2, <3>1
  <2>3. CASE st \notin Open /\ pendingCalls' = pendingCalls \ {<<turns, i>>}
    BY <1>2, <1>3, <2>3
  <2> QED
    BY <2>1, <2>2, <2>3
<1>4. PendingCallsExact'
  BY <1>3 DEF PendingInv, PendingCallsExact, Failing
<1> QED
  BY <1>4 DEF PendingInv

(* Every step shows as pending exactly what runs. *)
LEMMA PendingStep == TypeInv /\ LogInv /\ PendingInv /\ [Next]_vars => PendingInv'
<1> SUFFICES ASSUME TypeInv, LogInv, PendingInv, [Next]_vars PROVE PendingInv'
  OBVIOUS
<1> USE DEF queueVars, copies, batchVars, counters
<1>0. /\ turns \in Nat /\ resets \in Nat /\ orphans \subseteq Nat \X Nat
      /\ \A o \in orphans : o[1] <= turns /\ (pc = "tools" => o[1] < turns)
      /\ pc # "tools" => calls = <<>> /\ InState(Open) = {}
  BY NoBatchNothingOpen DEF TypeInv, TypeOK, LogInv, BatchShape, PendingInv
<1>1. ASSUME pc # "tools", pc' # "tools", calls' = <<>>, UNCHANGED <<turns, orphans>>,
             pc' \in Failing \cup {"failed", "ending"} \/ pendingCalls' = {}
      PROVE  PendingInv'
  BY <1>0, <1>1 DEF PendingInv, PendingCallsExact, InState
<1>2. CASE \/ Announce \/ Inject \/ Abort \/ DropFailure \/ InitialPoll \/ Request
           \/ \E c \in Queues : Enqueue(c)
           \/ \E cs \in SUBSET Queues : Clear(cs)
           \/ \E c \in Queues, m \in QueueModes : SetMode(c, m)
           \/ PollSteering \/ PollFollowUp \/ RecordResult \/ UNCHANGED vars
  <2>1. /\ UNCHANGED <<pendingCalls, orphans, turns, resets, calls>>
        /\ pc' = "tools" => pc = "tools"
        /\ pc \in Failing \cup {"failed", "ending"} => pc' \in Failing \cup {"failed", "ending"}
    BY <1>2 DEF Announce, Inject, Abort, DropFailure, InitialPoll, Request, Enqueue, Clear,
                SetMode, PollSteering, PollFollowUp, RecordResult, Failing, vars
  <2> QED
    BY <2>1, PendingFrame
<1>3. CASE \/ \E k \in 1..MaxPromptBatch : Prompt(k)
           \/ \E c \in Queues : ContinueQueued(c)
           \/ ContinueTranscript
  <2>1. /\ pc = "idle" /\ pc' = "announce"
        /\ UNCHANGED <<pendingCalls, orphans, turns, resets, calls>>
    BY <1>3 DEF Prompt, ContinueQueued, ContinueTranscript, BeginRun, Active
  <2> QED
    BY <2>1, PendingFrame DEF Failing
<1>4. CASE Reset
  <2>1. resets' # 0
    BY <1>0, <1>4 DEF Reset
  <2> QED
    BY <1>4, <2>1 DEF Reset, PendingInv, PendingCallsExact
<1>5. CASE FinishRun
  <2>1. /\ pc # "tools" /\ pc' = "idle" /\ pendingCalls' = {}
        /\ UNCHANGED <<turns, orphans, calls>>
    BY <1>5 DEF FinishRun, Failing
  <2> QED
    BY <1>0, <1>1, <2>1
<1>6. ASSUME NEW s \in Stops, NEW k \in 0..MaxCalls, Respond(s, k)
      PROVE  PendingInv'
  <2>1. /\ pc \in {"stream", "doomed"} /\ turns' = turns + 1
        /\ UNCHANGED <<pendingCalls, orphans, resets>>
    BY <1>6 DEF Respond
  <2>2. InState(Open)' = {}
    <3>1. CASE calls' = [i \in 1..k |-> "waiting"]
      BY <3>1 DEF InState, Open
    <3>2. CASE calls' = calls
      BY <1>0, <2>1, <3>2 DEF InState
    <3> QED
      BY <1>6, <3>1, <3>2 DEF Respond
  <2>3. resets = 0 => pendingCalls = {}
    BY <1>0, <2>1 DEF PendingInv, PendingCallsExact, Failing
  <2>4. PendingCallsExact'
    BY <2>1, <2>2, <2>3 DEF PendingCallsExact
  <2>5. \A o \in orphans' : o[1] < turns' /\ o[1] <= turns'
    <3>1. \A o \in orphans : o[1] \in Nat /\ o[1] <= turns
      BY <1>0
    <3> QED
      BY <1>0, <2>1, <3>1
  <2> QED
    BY <2>4, <2>5 DEF PendingInv
<1>7. ASSUME NEW i \in DOMAIN calls, StartCall(i) \/ RefuseCall(i) \/ AdmitCall(i)
      PROVE  PendingInv'
  <2>1. /\ pc = "tools" /\ pc' = "tools" /\ UNCHANGED <<orphans, turns, resets>>
    BY <1>7 DEF StartCall, RefuseCall, AdmitCall
  <2>2. \E st \in Statuses :
          /\ calls' = [calls EXCEPT ![i] = st]
          /\ \/ st \in Open /\ pendingCalls' = pendingCalls \cup {<<turns, i>>}
             \/ st \in Open /\ calls[i] \in Open /\ UNCHANGED pendingCalls
             \/ st \notin Open /\ pendingCalls' = pendingCalls \ {<<turns, i>>}
    BY <1>7 DEF StartCall, RefuseCall, AdmitCall, EndExecution, Statuses, Outcomes, Open
  <2> QED
    BY <2>1, <2>2, PendingCall
<1>8. ASSUME NEW i \in DOMAIN calls, NEW o \in {"ok", "terminate"}, CompleteCall(i, o)
      PROVE  PendingInv'
  <2>1. /\ pc = "tools" /\ pc' = "tools" /\ UNCHANGED <<orphans, turns, resets>>
        /\ calls' = [calls EXCEPT ![i] = o] /\ pendingCalls' = pendingCalls \ {<<turns, i>>}
        /\ o \in Statuses /\ o \notin Open
    BY <1>8 DEF CompleteCall, EndExecution, Statuses, Outcomes, Open
  <2> QED
    BY <2>1, PendingCall
<1>9. CASE LaunchCalls
  <2>1. /\ pc = "tools" /\ UNCHANGED <<pc, pendingCalls, orphans, turns, resets>>
        /\ calls' = [j \in DOMAIN calls |-> IF calls[j] = "ready" THEN "executing" ELSE calls[j]]
    BY <1>9 DEF LaunchCalls
  <2>2. InState(Open)' = InState(Open)
    BY <2>1 DEF InState, Open
  <2> QED
    BY <2>1, <2>2 DEF PendingInv, PendingCallsExact
<1>10. CASE EndBatch
  <2>1. /\ pc = "tools" /\ pc' = "turnEnd" /\ calls' = <<>> /\ BatchDone
        /\ UNCHANGED <<pendingCalls, orphans, turns, resets>>
    BY <1>10 DEF EndBatch
  <2>2. resets = 0 => pendingCalls = {}
    BY <2>1, NothingOpen DEF PendingInv, PendingCallsExact, Failing
  <2> QED
    BY <1>0, <2>1, <2>2 DEF PendingInv, PendingCallsExact, InState
<1>11. CASE LoopFault \/ ListenerFault
  <2>1. pc' \in Failing /\ UNCHANGED turns
    BY <1>11 DEF LoopFault, ListenerFault, Abandon, Failing
  <2>2. \A o \in orphans' : o \in orphans \/ o[1] = turns
    BY <1>11 DEF LoopFault, ListenerFault
  <2> QED
    BY <1>0, <2>1, <2>2 DEF PendingInv, PendingCallsExact, Failing
<1>12. ASSUME NEW o \in orphans, OrphanEnds(o)
       PROVE  PendingInv'
  <2>1. /\ orphans' \subseteq orphans /\ pendingCalls' = pendingCalls \ {o}
        /\ UNCHANGED <<pc, turns, resets, calls>>
    BY <1>12 DEF OrphanEnds
  <2>2. o \notin {<<turns, i>> : i \in InState(Open)}
    <3>1. CASE pc = "tools"
      BY <1>0, <3>1
    <3>2. CASE pc # "tools"
      BY <1>0, <3>2
    <3> QED
      BY <3>1, <3>2
  <2>3. InState(Open)' = InState(Open)
    BY <2>1 DEF InState
  <2> QED
    BY <1>0, <2>1, <2>2, <2>3 DEF PendingInv, PendingCallsExact
<1>13. CASE FailRun
  <2>1. pc' = "failed" /\ turns' = turns + 1 /\ UNCHANGED orphans
    BY <1>13 DEF FailRun
  <2>2. \A o \in orphans : o[1] \in Nat /\ o[1] <= turns
    BY <1>0
  <2> QED
    BY <1>0, <2>1, <2>2 DEF PendingInv, PendingCallsExact
<1> QED
  BY <1>2, <1>3, <1>4, <1>5, <1>6, <1>7, <1>8, <1>9, <1>10, <1>11, <1>12, <1>13
     DEF Next, Caller, Loop, Faults

(* The calls a user interface shows as running are those of the batch that   *)
(* were started and have not ended: no call of an abandoned batch, and none  *)
(* once the batch is over.                                                   *)
THEOREM PendingIsRunning == Spec => []PendingCallsExact
<1>1. Init => PendingInv
  BY NoBatchNothingOpen DEF Init, PendingInv, PendingCallsExact
<1>2. Spec => []PendingInv
  BY <1>1, TypeInit, TypeStep, LogInit, LogStep, PendingStep, PTL DEF Spec
<1>3. PendingInv => PendingCallsExact
  BY DEF PendingInv
<1> QED
  BY <1>2, <1>3, PTL

(* Without a throwing listener nothing is abandoned, and a run that is over *)
(* leaves no call pending.                                                  *)
QuietInv == orphans = {} /\ (pc = "idle" => pendingCalls = {})

(* Only a listener's throw leaves tools behind. *)
LEMMA QuietStep ==
  ASSUME QuietInv, [Next]_vars, ~ListenerFault
  PROVE  QuietInv'
<1> USE DEF queueVars, copies, batchVars, counters
<1>1. CASE \/ \E k \in 1..MaxPromptBatch : Prompt(k)
           \/ \E c \in Queues : ContinueQueued(c)
           \/ ContinueTranscript
  BY <1>1 DEF QuietInv, Prompt, ContinueQueued, ContinueTranscript, BeginRun
<1>2. CASE \/ \E c \in Queues : Enqueue(c)
           \/ \E cs \in SUBSET Queues : Clear(cs)
           \/ \E c \in Queues, m \in QueueModes : SetMode(c, m)
           \/ Abort \/ DropFailure \/ UNCHANGED vars
  BY <1>2 DEF QuietInv, Enqueue, Clear, SetMode, Abort, DropFailure, vars
<1>3. CASE Reset \/ FinishRun
  BY <1>3 DEF QuietInv, Reset, FinishRun
<1>4. CASE \/ Announce \/ InitialPoll \/ Inject \/ Request
           \/ \E s \in Stops, k \in 0..MaxCalls : Respond(s, k)
           \/ PollSteering \/ PollFollowUp \/ FailRun \/ LoopFault
  <2>1. pc' # "idle" /\ UNCHANGED orphans
    BY <1>4 DEF Announce, InitialPoll, Inject, Request, Respond, PollSteering, PollFollowUp,
                FailRun, LoopFault, Abandon
  <2> QED
    BY <2>1 DEF QuietInv
<1>5. CASE \/ \E i \in DOMAIN calls : StartCall(i) \/ RefuseCall(i) \/ AdmitCall(i)
           \/ LaunchCalls
           \/ \E i \in DOMAIN calls, o \in {"ok", "terminate"} : CompleteCall(i, o)
           \/ RecordResult \/ EndBatch
  <2>1. pc' # "idle" /\ UNCHANGED orphans
    BY <1>5 DEF StartCall, RefuseCall, AdmitCall, LaunchCalls, CompleteCall, RecordResult, EndBatch
  <2> QED
    BY <2>1 DEF QuietInv
<1>6. ~(\E o \in orphans : OrphanEnds(o))
  BY DEF QuietInv
<1> QED
  BY <1>1, <1>2, <1>3, <1>4, <1>5, <1>6 DEF Next, Caller, Loop, Faults

(* An idle agent runs nothing, as long as no listener throws: the listeners *)
(* are the only reason for an idle agent with tools at work.                *)
THEOREM IdleIsQuietWithoutFaults ==
  ASSUME ListenerFaults = FALSE
  PROVE  Spec => []IdleIsQuiet
<1>1. Init => QuietInv
  BY DEF Init, QuietInv
<1>2. QuietInv /\ [Next]_vars => QuietInv'
  BY QuietStep DEF ListenerFault
<1>3. QuietInv => IdleIsQuiet
  BY DEF QuietInv, IdleIsQuiet, Active
<1> QED
  BY <1>1, <1>2, <1>3, PTL DEF Spec

-----------------------------------------------------------------------------
(* Aborts *)

(* Once the signal is aborted no tool of a sequential batch starts, and a  *)
(* request made with the aborted signal ends its run.                      *)
LEMMA AbortStep ==
  ASSUME TypeInv, LogInv, [Next]_vars, aborted, Active
  PROVE  /\ mode = "sequential" =>
              InState({"executing"})' \subseteq InState({"executing"})
         /\ pc = "doomed" => pc' \in {"doomed", "ending"} \cup Failing
<1> USE DEF queueVars, copies, batchVars, counters
<1> DEFINE Goal == /\ mode = "sequential" =>
                        InState({"executing"})' \subseteq InState({"executing"})
                   /\ pc = "doomed" => pc' \in {"doomed", "ending"} \cup Failing
<1>1. ASSUME calls' = calls \/ calls' = <<>>, pc # "doomed" \/ pc' \in {"doomed"} \cup Failing
      PROVE  Goal
  BY <1>1 DEF InState
<1>2. CASE Caller
  <2>1. calls' = calls /\ pc' = pc
    BY <1>2 DEF Caller, Prompt, ContinueQueued, ContinueTranscript, BeginRun, Enqueue, Clear,
                SetMode, Abort, Reset, DropFailure
  <2> QED
    BY <1>1, <2>1
<1>3. CASE \/ Announce \/ InitialPoll \/ Inject \/ Request \/ RecordResult \/ EndBatch
           \/ PollSteering \/ PollFollowUp \/ FailRun \/ FinishRun \/ Faults \/ UNCHANGED vars
  <2>1. calls' = calls \/ calls' = <<>>
    BY <1>3 DEF Announce, InitialPoll, Inject, Request, RecordResult, EndBatch, PollSteering,
                PollFollowUp, FailRun, FinishRun, Faults, LoopFault, ListenerFault, Abandon,
                OrphanEnds, vars
  <2>2. pc # "doomed" \/ pc' \in {"doomed"} \cup Failing
    BY <1>3 DEF Announce, InitialPoll, Inject, Request, RecordResult, EndBatch, PollSteering,
                PollFollowUp, FailRun, FinishRun, Faults, LoopFault, ListenerFault, Abandon,
                OrphanEnds, Failing, vars
  <2> QED
    BY <1>1, <2>1, <2>2
<1>4. ASSUME NEW s \in Stops, NEW k \in 0..MaxCalls, Respond(s, k)
      PROVE  Goal
  <2>1. pc = "doomed" => pc' = "ending"
    <3> SUFFICES ASSUME pc = "doomed" PROVE pc' = "ending"
      OBVIOUS
    <3>1. Failed(Assistant(turns + 1, s, k))
      BY <1>4 DEF Respond, Answers, Failed, Assistant
    <3> QED
      BY <1>4, <3>1 DEF Respond
  <2>2. InState({"executing"})' = {} \/ calls' = calls
    <3>1. CASE calls' = [i \in 1..k |-> "waiting"]
      BY <3>1 DEF InState
    <3> QED
      BY <1>4, <3>1 DEF Respond
  <2> QED
    BY <2>1, <2>2 DEF InState
<1>5. ASSUME NEW i \in DOMAIN calls, NEW st \in Statuses \ {"executing"}, pc = "tools",
             calls' = [calls EXCEPT ![i] = st]
      PROVE  Goal
  BY <1>5 DEF InState
<1>6. CASE \/ \E i \in DOMAIN calls : StartCall(i) \/ RefuseCall(i) \/ AdmitCall(i)
           \/ \E i \in DOMAIN calls, o \in {"ok", "terminate"} : CompleteCall(i, o)
  BY <1>5, <1>6 DEF StartCall, RefuseCall, AdmitCall, Admits, CompleteCall, Statuses, Outcomes
<1>7. CASE LaunchCalls
  BY <1>7 DEF LaunchCalls
<1> QED
  BY <1>2, <1>3, <1>4, <1>6, <1>7 DEF Next, Loop

(* After an abort no tool of a sequential batch begins to execute, and the *)
(* loop makes no second request.                                           *)
THEOREM AbortsHold == Spec => AbortStartsNothing
<1>1. Spec => [](TypeInv /\ LogInv)
  BY TypeInit, TypeStep, LogInit, LogStep, PTL DEF Spec
<1>2. TypeInv /\ LogInv /\ [Next]_vars =>
        [ aborted /\ Active =>
            /\ mode = "sequential" =>
                 InState({"executing"})' \subseteq InState({"executing"})
            /\ pc = "doomed" => pc' \in {"doomed", "ending"} \cup Failing ]_vars
  BY AbortStep
<1> QED
  BY <1>1, <1>2, PTL DEF Spec, AbortStartsNothing

-----------------------------------------------------------------------------
(* Follow-ups wait *)

(* What waits for a terminated batch still waits when a message is added. *)
LEMMA WaitsEmit ==
  ASSUME NEW s \in Seq(Messages), NEW m \in Messages, Placed(s), Waits(s),
         m.role = "user" /\ m.chan = "followUp" => EndsTerminated(s)
  PROVE  Waits(s \o <<m>>)
<1> DEFINE n == Len(s)
           e == s \o <<m>>
<1>1. /\ DOMAIN e = 1..(n + 1) /\ DOMAIN s = 1..n /\ n \in Nat
      /\ \A i \in 1..n : e[i] = s[i]
      /\ e[n + 1] = m
  BY Extended
<1>2. \A k \in 1..n : s[k].role = "toolResult" => s[k].call \in Nat /\ s[k].call < k
  BY <1>1, ListFields DEF Placed
<1>3. m.role = "user" /\ m.chan = "followUp" /\ n > 0 /\ s[n].role = "toolResult" =>
        \A j \in 1..s[n].call : s[n + 1 - j].out = "terminate"
  BY <1>1, EmptySeq DEF EndsTerminated
<1> HIDE DEF n, e
<1> SUFFICES ASSUME NEW k \in 1..(n + 1), k > 1, e[k].role = "user", e[k].chan = "followUp",
                    e[k - 1].role = "toolResult", NEW j \in 1..e[k - 1].call
             PROVE  e[k - j].out = "terminate"
  BY <1>1 DEF Waits, e
<1>4. k - 1 \in 1..n /\ e[k - 1] = s[k - 1]
  BY <1>1
<1>5. s[k - 1].call \in Nat /\ s[k - 1].call < k - 1
  BY <1>2, <1>4
<1>6. j \in Nat /\ k - j \in 1..n /\ e[k - j] = s[k - j]
  BY <1>1, <1>4, <1>5
<1>7. CASE k \in 1..n
  BY <1>1, <1>4, <1>6, <1>7 DEF Waits
<1>8. CASE k = n + 1
  BY <1>1, <1>3, <1>4, <1>6, <1>8
<1> QED
  BY <1>1, <1>7, <1>8

(* A list that does not end with a tool result has no batch at its end. *)
LEMMA EndsOtherwise ==
  ASSUME NEW s \in Seq(Messages), NEW m \in Messages
  PROVE  /\ LastIsAssistant(s) => EndsTerminated(s)
         /\ m.role # "toolResult" => EndsTerminated(s \o <<m>>)
         /\ LastIsAssistant(s \o <<m>>) <=> m.role = "assistant"
<1> DEFINE e == s \o <<m>>
<1>1. LastIsAssistant(s) => EndsTerminated(s)
  BY DEF LastIsAssistant, EndsTerminated
<1>2. <<m>> \in Seq(Messages) /\ e \in Seq(Messages)
  BY ConcatProperties
<1>3. Len(e) = Len(s) + 1 /\ Len(s) \in Nat /\ e[Len(s) + 1] = m
  BY <1>2, Extended, LenProperties
<1>4. e[Len(e)] = m /\ e # <<>>
  BY <1>2, <1>3, EmptySeq
<1> QED
  BY <1>1, <1>4 DEF EndsTerminated, LastIsAssistant

(* Emitting a message, with what is still to be announced or injected. *)
LEMMA WaitEmit ==
  ASSUME TypeOK, Placed(log), WaitInv, NEW m \in Messages, Emit(<<m>>),
         m.role = "user" /\ m.chan = "followUp" => EndsTerminated(log),
         pc' \notin {"announce", "inject"} => pending' = <<>>,
         m.role = "toolResult" => pending' = <<>>,
         pc' = "turnEnd" => m.role # "toolResult", pc' # "pollFollowUp"
  PROVE  WaitInv'
<1> DEFINE e == log \o <<m>>
           f == messages \o <<m>>
<1>1. log \in Seq(Messages) /\ messages \in Seq(Messages)
  BY DEF TypeOK
<1>2. Waits(e)
  BY <1>1, WaitsEmit DEF WaitInv
<1>3. /\ m.role # "toolResult" => EndsTerminated(e)
      /\ LastIsAssistant(e) <=> m.role = "assistant"
      /\ LastIsAssistant(f) <=> m.role = "assistant"
  BY <1>1, EndsOtherwise
<1>4. log' = e /\ messages' = f
  BY DEF Emit
<1> HIDE DEF e, f
<1>5. Waits(log)' /\ (m.role # "toolResult" => EndsTerminated(log)')
  BY <1>2, <1>3, <1>4 DEF Waits, EndsTerminated
<1>6. LastIsAssistant(messages)' => LastIsAssistant(log)'
  BY <1>3, <1>4 DEF LastIsAssistant
<1>7. pending' = <<>> => \A i \in DOMAIN pending' : FALSE
  OBVIOUS
<1> QED
  BY <1>5, <1>6, <1>7 DEF WaitInv

(* A step that emits nothing. *)
LEMMA WaitFrame ==
  ASSUME WaitInv, UNCHANGED log,
         LastIsAssistant(messages)' => LastIsAssistant(messages),
         pc' \notin {"announce", "inject"} => pending' = <<>>,
         \/ \A i \in DOMAIN pending' : pending'[i].chan # "followUp"
         \/ pending' = pending
         \/ EndsTerminated(log),
         pc' \in {"turnEnd", "pollFollowUp"} /\ ~more' => EndsTerminated(log),
         pc' = "pollFollowUp" => ~more'
  PROVE  WaitInv'
BY DEF WaitInv, Waits, EndsTerminated, LastIsAssistant

(* What a queue hands out belongs to it. *)
LEMMA DrainedChannel ==
  ASSUME TypeOK, OrderInv, NEW c \in Queues
  PROVE  \A i \in DOMAIN Drained(c) : Drained(c)[i].chan = c
<1>1. \A i \in DOMAIN queue[c] : queue[c][i].chan = c
  BY DEF OrderInv, QueueOrder
<1>2. CASE DrainsAll(c)
  BY <1>1, <1>2 DEF Drained
<1>3. CASE ~DrainsAll(c)
  <2>1. queue[c] # <<>> /\ queue[c] \in Seq(UserMessages)
    BY <1>3 DEF DrainsAll, TypeOK
  <2>2. 1 \in DOMAIN queue[c] /\ Head(queue[c]) = queue[c][1]
    BY <2>1, Shortened
  <2> QED
    BY <1>1, <1>3, <2>2 DEF Drained
<1> QED
  BY <1>2, <1>3

(* Every step keeps the follow-ups behind the batch. *)
LEMMA WaitStep == TypeInv /\ OrderInv /\ LogInv /\ WaitInv /\ [Next]_vars => WaitInv'
<1> SUFFICES ASSUME TypeInv, OrderInv, LogInv, WaitInv, [Next]_vars PROVE WaitInv'
  OBVIOUS
<1> USE DEF queueVars, copies, batchVars, counters
<1>0. /\ TypeOK /\ log \in Seq(Messages) /\ messages \in Seq(Messages) /\ Placed(log)
      /\ pending \in Seq(UserMessages)
  BY DEF TypeInv, TypeOK, LogInv
<1>1. CASE \/ Abort \/ \E c \in Queues : Enqueue(c)
           \/ \E cs \in SUBSET Queues : Clear(cs)
           \/ \E c \in Queues, m \in QueueModes : SetMode(c, m)
           \/ \E o \in orphans : OrphanEnds(o)
           \/ LaunchCalls
           \/ \E i \in DOMAIN calls : StartCall(i) \/ RefuseCall(i) \/ AdmitCall(i)
           \/ \E i \in DOMAIN calls, o \in {"ok", "terminate"} : CompleteCall(i, o)
           \/ UNCHANGED vars
  <2>1. UNCHANGED <<pc, pending, messages, log, more>>
    BY <1>1 DEF Abort, Enqueue, Clear, SetMode, OrphanEnds, LaunchCalls, StartCall, RefuseCall,
                AdmitCall, CompleteCall, vars
  <2> QED
    BY <2>1, WaitFrame DEF WaitInv, LastIsAssistant
<1>2. CASE Reset
  BY <1>2, WaitFrame DEF Reset, WaitInv, LastIsAssistant
<1>3. CASE DropFailure
  <2>1. LastIsAssistant(messages) /\ UNCHANGED <<pc, pending, log, more>>
    BY <1>3 DEF DropFailure
  <2> QED
    BY <2>1, WaitFrame DEF WaitInv
<1>4. ASSUME NEW k \in 1..MaxPromptBatch, Prompt(k)
      PROVE  WaitInv'
  <2>1. /\ pc' = "announce" /\ UNCHANGED <<messages, log>>
        /\ pending' = [i \in 1..k |-> User("prompt", sent["prompt"] + i)]
    BY <1>4 DEF Prompt, BeginRun
  <2>2. \A i \in DOMAIN pending' : pending'[i].chan # "followUp"
    BY <2>1 DEF User
  <2> QED
    BY <2>1, <2>2, WaitFrame DEF LastIsAssistant
<1>5. ASSUME NEW c \in Queues, ContinueQueued(c)
      PROVE  WaitInv'
  <2>1. pc' = "announce" /\ UNCHANGED <<messages, log>> /\ LastIsAssistant(messages)
    BY <1>5 DEF ContinueQueued, BeginRun
  <2>2. EndsTerminated(log)
    BY <1>0, <2>1 DEF WaitInv, EndsTerminated, LastIsAssistant
  <2> QED
    BY <2>1, <2>2, WaitFrame
<1>6. CASE ContinueTranscript
  <2>1. pc' = "announce" /\ UNCHANGED <<messages, log>> /\ pending' = <<>>
    BY <1>6 DEF ContinueTranscript, BeginRun
  <2> QED
    BY <2>1, WaitFrame DEF LastIsAssistant
<1>7. CASE Announce \/ Inject
  <2>1. /\ pc \in {"announce", "inject"} /\ pc' = pc /\ pending # <<>>
        /\ Emit(<<Head(pending)>>) /\ pending' = Tail(pending)
    BY <1>7 DEF Announce, Inject
  <2>2. Head(pending) \in UserMessages /\ Head(pending) = pending[1] /\ 1 \in DOMAIN pending
    BY <1>0, <2>1, HeadTailProperties, Shortened
  <2>3. Head(pending) \in Messages /\ Head(pending).role = "user"
    BY <2>2 DEF Messages, UserMessages
  <2> QED
    BY <1>0, <2>1, <2>2, <2>3, WaitEmit DEF WaitInv
<1>8. CASE InitialPoll
  <2>1. /\ pc' = "inject" /\ UNCHANGED <<messages, log>>
        /\ pending' = <<>> \/ pending' = Drained("steering")
    BY <1>8 DEF InitialPoll, Drain
  <2>2. \A i \in DOMAIN pending' : pending'[i].chan # "followUp"
    BY <1>0, <2>1, DrainedChannel DEF Queues
  <2> QED
    BY <2>1, <2>2, WaitFrame DEF LastIsAssistant
<1>9. CASE Request \/ FinishRun
  <2>1. /\ pc' \in {"doomed", "stream", "idle"} /\ UNCHANGED <<messages, log, pending>>
        /\ pending = <<>>
    BY <1>9 DEF Request, FinishRun, Failing, WaitInv
  <2> QED
    BY <2>1, WaitFrame DEF LastIsAssistant
<1>10. ASSUME NEW m \in Messages, m.role = "assistant", Emit(<<m>>), UNCHANGED pending,
              pc \notin {"announce", "inject"}, pc' # "pollFollowUp"
       PROVE  WaitInv'
  <2>1. pending' = <<>>
    BY <1>10 DEF WaitInv
  <2> QED
    BY <1>0, <1>10, <2>1, WaitEmit
<1>11. ASSUME NEW s \in Stops, NEW k \in 0..MaxCalls, Respond(s, k)
       PROVE  WaitInv'
  <2> DEFINE m == Assistant(turns + 1, s, k)
  <2>1. k \in Nat /\ turns + 1 \in Nat
    BY <1>0, ConstantsAssumption DEF TypeOK
  <2>2. m \in Messages /\ m.role = "assistant"
    BY <2>1, AssistantType DEF Assistant
  <2>3. /\ Emit(<<m>>) /\ UNCHANGED pending /\ pc \in {"stream", "doomed"}
        /\ pc' # "pollFollowUp"
    BY <1>11 DEF Respond
  <2> QED
    BY <1>10, <2>2, <2>3
<1>12. CASE FailRun
  <2>1. \E s \in {"aborted", "error"} : Emit(<<Assistant(turns + 1, s, 0)>>)
    BY <1>12 DEF FailRun
  <2>2. PICK s \in {"aborted", "error"} : Emit(<<Assistant(turns + 1, s, 0)>>)
    BY <2>1
  <2>3. turns + 1 \in Nat
    BY <1>0 DEF TypeOK
  <2>4. Assistant(turns + 1, s, 0) \in Messages /\ Assistant(turns + 1, s, 0).role = "assistant"
    BY <2>3, AssistantType DEF Assistant, Stops
  <2>5. UNCHANGED pending /\ pc \notin {"announce", "inject"} /\ pc' # "pollFollowUp"
    BY <1>12 DEF FailRun, Failing
  <2> QED
    BY <1>10, <2>2, <2>4, <2>5
<1>13. CASE RecordResult
  <2> DEFINE i == recorded + 1
             m == Result(turns, i, calls[i])
  <2>1. /\ pc = "tools" /\ pc' = "tools" /\ i \in DOMAIN calls /\ calls[i] \in Outcomes
        /\ Emit(<<m>>) /\ UNCHANGED pending
    BY <1>13 DEF RecordResult, InState
  <2>2. pending' = <<>>
    BY <2>1 DEF WaitInv
  <2>3. turns \in Nat /\ i \in Nat
    BY <1>0 DEF TypeOK
  <2>4. m \in Messages /\ m.role = "toolResult"
    BY <2>1, <2>3, ResultType DEF Result
  <2> QED
    BY <1>0, <2>1, <2>2, <2>4, WaitEmit
<1>14. CASE EndBatch
  <2>1. /\ pc = "tools" /\ pc' = "turnEnd" /\ UNCHANGED <<pending, messages, log>>
        /\ more' = (InState({"terminate"}) # 1..recorded)
    BY <1>14 DEF EndBatch
  <2>2. ~more' => EndsTerminated(log)
    <3> SUFFICES ASSUME InState({"terminate"}) = 1..recorded, log[Len(log)].role = "toolResult",
                        NEW j \in 1..log[Len(log)].call
                 PROVE  log[Len(log) + 1 - j].out = "terminate"
      BY <2>1 DEF EndsTerminated
    <3> DEFINE n == Len(log)
    <3>1. /\ recorded \in Nat /\ recorded < n /\ n \in Nat
          /\ log[n - recorded].role = "assistant"
          /\ \A l \in 1..recorded :
               log[n - recorded + l].call = l /\ log[n - recorded + l].out = calls[l]
      BY <2>1, BatchEnd
    <3> HIDE DEF n
    <3>2. recorded # 0
      <4>1. CASE recorded = 0
        <5>1. n - recorded = n
          BY <3>1, <4>1
        <5> QED
          BY <3>1, <5>1 DEF n
      <4> QED
        BY <4>1
    <3>3. log[n].call = recorded
      <4>1. recorded \in 1..recorded /\ n - recorded + recorded = n
        BY <3>1, <3>2
      <4> QED
        BY <3>1, <4>1
    <3>4. j \in 1..recorded
      BY <3>3 DEF n
    <3>5. recorded + 1 - j \in 1..recorded /\ n - recorded + (recorded + 1 - j) = n + 1 - j
      BY <3>1, <3>4
    <3>6. calls[recorded + 1 - j] = "terminate"
      BY <3>5 DEF InState
    <3> QED
      BY <3>1, <3>5, <3>6 DEF n
  <2>3. pending' = <<>>
    BY <2>1 DEF WaitInv
  <2> QED
    BY <2>1, <2>2, <2>3, WaitFrame DEF LastIsAssistant
<1>15. CASE PollSteering
  <2>1. /\ pc = "turnEnd" /\ UNCHANGED <<messages, log, more>> /\ pending' = Drained("steering")
        /\ \/ pc' = "inject"
           \/ pc' = "pollFollowUp" /\ ~more /\ pending' = <<>>
    BY <1>15 DEF PollSteering, Drain, GoesOn
  <2>2. \A i \in DOMAIN pending' : pending'[i].chan # "followUp"
    BY <1>0, <2>1, DrainedChannel DEF Queues
  <2>3. ~more => EndsTerminated(log)
    BY <2>1 DEF WaitInv
  <2> QED
    BY <2>1, <2>2, <2>3, WaitFrame DEF LastIsAssistant
<1>16. CASE PollFollowUp
  <2>1. /\ pc = "pollFollowUp" /\ UNCHANGED <<messages, log, more>>
        /\ pc' = "inject" \/ (pc' = "ending" /\ pending' = <<>>)
    BY <1>16 DEF PollFollowUp, Drain
  <2>2. EndsTerminated(log)
    BY <2>1 DEF WaitInv
  <2> QED
    BY <2>1, <2>2, WaitFrame DEF LastIsAssistant
<1>17. CASE LoopFault \/ ListenerFault
  <2>1. pc' \in Failing /\ pending' = <<>> /\ UNCHANGED <<messages, log>>
    BY <1>17 DEF LoopFault, ListenerFault, Abandon, Failing
  <2> QED
    BY <2>1, WaitFrame DEF LastIsAssistant, Failing
<1> QED
  BY <1>1, <1>2, <1>3, <1>4, <1>5, <1>6, <1>7, <1>8, <1>9, <1>11, <1>12, <1>13, <1>14, <1>15,
     <1>16, <1>17 DEF Next, Caller, Loop, Faults

(* A follow-up message never comes between the results of a batch and the *)
(* answer to them, unless every call of that batch asked to terminate.    *)
THEOREM FollowUpsWait == Spec => []FollowUpWaits
<1>1. Init => WaitInv
  BY DEF Init, WaitInv, Waits, LastIsAssistant
<1>2. Spec => [](TypeInv /\ OrderInv /\ LogInv /\ WaitInv)
  BY <1>1, TypeInit, TypeStep, OrderInit, OrderStep, LogInit, LogStep, WaitStep, PTL DEF Spec
<1>3. WaitInv => FollowUpWaits
  BY DEF WaitInv, Waits, FollowUpWaits
<1> QED
  BY <1>2, <1>3, PTL
=============================================================================
