-------------------------- MODULE AgentLoopProofs ---------------------------
(* Theorems about AgentLoop that hold for every value of its constants. *)
EXTENDS AgentLoop, TLAPS, SequenceTheorems

-----------------------------------------------------------------------------
(* Types *)

(* The results a batch has recorded are those of calls that are decided. *)
RecordedDone ==
  /\ recorded <= Len(calls)
  /\ \A i \in 1..recorded : calls[i] \in Outcomes

TypeInv == TypeOK /\ RecordedDone

(* A function on 1..n is a list. *)
LEMMA FunctionIsSeq ==
  ASSUME NEW S, NEW n \in Nat, NEW f \in [1..n -> S]
  PROVE  f \in Seq(S)
BY SeqDef

(* A user message. *)
LEMMA UserType ==
  ASSUME NEW c \in Channels, NEW n \in Nat
  PROVE  User(c, n) \in UserMessages
BY DEF User, UserMessages

(* A response. *)
LEMMA AssistantType ==
  ASSUME NEW t \in Nat, NEW s \in Stops, NEW k \in Nat
  PROVE  Assistant(t, s, k) \in Messages
BY DEF Assistant, AssistantMessages, Messages

(* A tool result. *)
LEMMA ResultType ==
  ASSUME NEW t \in Nat, NEW i \in Nat, NEW o \in Outcomes
  PROVE  Result(t, i, o) \in Messages
BY DEF Result, ResultMessages, Messages

(* Lists of user messages are lists of messages. *)
LEMMA UsersAreMessages == Seq(UserMessages) \subseteq Seq(Messages)
<1>1. UserMessages \subseteq Messages
  BY DEF Messages
<1> QED
  BY <1>1, SeqMonotonic

(* Draining a queue splits it into two sequences of user messages. *)
LEMMA DrainType ==
  ASSUME TypeOK, NEW c \in Queues
  PROVE  Drained(c) \in Seq(UserMessages) /\ Left(c) \in Seq(UserMessages)
<1>1. queue[c] \in Seq(UserMessages)
  BY DEF TypeOK
<1>2. CASE DrainsAll(c)
  BY <1>1, <1>2 DEF Drained, Left
<1>3. CASE ~DrainsAll(c)
  <2>1. queue[c] # <<>>
    BY <1>3 DEF DrainsAll
  <2>2. Head(queue[c]) \in UserMessages /\ Tail(queue[c]) \in Seq(UserMessages)
    BY <1>1, <2>1, HeadTailProperties
  <2> QED
    BY <1>3, <2>2 DEF Drained, Left
<1> QED
  BY <1>2, <1>3

(* message_end. *)
LEMMA EmitType ==
  ASSUME TypeOK, NEW ms \in Seq(Messages), Emit(ms)
  PROVE  messages' \in Seq(Messages) /\ log' \in Seq(Messages)
BY ConcatProperties DEF TypeOK, Emit

(* What the loop keeps for itself. *)
LEMMA KeepType ==
  ASSUME TypeOK, NEW ms \in Seq(Messages), Keep(ms)
  PROVE  context' \in Seq(Messages) /\ newMessages' \in Seq(Messages)
BY ConcatProperties DEF TypeOK, Keep

(* The types at first. *)
LEMMA TypeInit == Init => TypeInv
<1> SUFFICES ASSUME Init PROVE TypeInv
  OBVIOUS
<1>1. \A S : <<>> \in Seq(S) /\ Len(<<>>) = 0
  BY EmptySeq
<1>2. qmode \in [Queues -> AllQueueModes]
  BY ConstantsAssumption DEF Init
<1>3. RecordedDone
  BY <1>1 DEF Init, RecordedDone
<1>4. queue \in [Queues -> Seq(UserMessages)] /\ sent \in [Channels -> Nat]
  BY <1>1 DEF Init
<1> QED
  BY <1>1, <1>2, <1>3, <1>4 DEF Init, TypeInv, TypeOK, PCs

(* BeginRun takes its prompts from Prompt or from a queue. *)
LEMMA BeginRunType ==
  ASSUME TypeInv, NEW ms \in Seq(UserMessages), BeginRun(ms), skipPoll' \in BOOLEAN,
         pending' \in Seq(UserMessages), queue' \in [Queues -> Seq(UserMessages)],
         sent' \in [Channels -> Nat]
  PROVE  TypeInv'
<1>1. ms \in Seq(Messages)
  BY UsersAreMessages
<1>2. context' \in Seq(Messages) /\ newMessages' \in Seq(Messages)
  BY <1>1, ConcatProperties DEF BeginRun, TypeInv, TypeOK
<1>3. runStart' \in Nat
  BY LenProperties DEF BeginRun, TypeInv, TypeOK
<1>4. RecordedDone'
  BY DEF BeginRun, TypeInv, RecordedDone, batchVars
<1>5. pc' \in PCs
  BY DEF BeginRun, PCs
<1>6. /\ aborted' \in BOOLEAN /\ more' \in BOOLEAN /\ qmode' \in [Queues -> AllQueueModes]
      /\ messages' \in Seq(Messages) /\ log' \in Seq(Messages)
  BY DEF BeginRun, TypeInv, TypeOK
<1>7. /\ calls' \in Seq(Statuses) /\ recorded' \in Nat
      /\ mode' \in {"sequential", "parallel", "truncated"}
      /\ pendingCalls' \subseteq Nat \X Nat /\ orphans' \subseteq Nat \X Nat
      /\ turns' \in Nat /\ toolTurns' \in Nat /\ runs' \in Nat /\ resets' \in Nat
  BY DEF BeginRun, TypeInv, TypeOK, batchVars
<1> QED
  BY <1>2, <1>3, <1>4, <1>5, <1>6, <1>7 DEF TypeInv, TypeOK

(* What callers do at any time. *)
LEMMA CallerType ==
  ASSUME TypeInv, Caller
  PROVE  TypeInv'
<1> USE DEF TypeInv, queueVars, copies, batchVars, counters
<1>1. ASSUME NEW k \in 1..MaxPromptBatch, Prompt(k)
      PROVE  TypeInv'
  <2> DEFINE ms == [i \in 1..k |-> User("prompt", sent["prompt"] + i)]
  <2>0. k \in Nat /\ sent["prompt"] \in Nat
    BY ConstantsAssumption DEF TypeOK, Channels
  <2>1. \A i \in 1..k : User("prompt", sent["prompt"] + i) \in UserMessages
    <3>1. "prompt" \in Channels /\ \A i \in 1..k : sent["prompt"] + i \in Nat
      BY <2>0 DEF Channels
    <3> QED
      BY <3>1, UserType
  <2>2. ms \in Seq(UserMessages)
    <3>1. ms \in [1..k -> UserMessages]
      BY <2>1
    <3> QED
      BY <2>0, <3>1, FunctionIsSeq
  <2>3. sent' \in [Channels -> Nat]
    <3>1. sent["prompt"] + k \in Nat /\ sent \in [Channels -> Nat]
      BY <2>0 DEF TypeOK
    <3>2. sent' = [sent EXCEPT !["prompt"] = sent["prompt"] + k]
      BY <1>1 DEF Prompt
    <3> QED
      BY <3>1, <3>2
  <2> QED
    BY <1>1, <2>2, <2>3, BeginRunType DEF Prompt, TypeOK
<1>2. ASSUME NEW c \in Queues, ContinueQueued(c)
      PROVE  TypeInv'
  <2>1. pending' \in Seq(UserMessages) /\ queue' \in [Queues -> Seq(UserMessages)]
    BY <1>2, DrainType DEF ContinueQueued, Drain, TypeOK
  <2> QED
    BY <1>2, <2>1, DrainType, BeginRunType DEF ContinueQueued, TypeOK
<1>3. CASE ContinueTranscript
  <2>1. <<>> \in Seq(UserMessages)
    OBVIOUS
  <2> QED
    BY <1>3, <2>1, BeginRunType DEF ContinueTranscript, TypeOK
<1>4. ASSUME NEW c \in Queues, Enqueue(c)
      PROVE  TypeInv'
  <2>1. sent[c] + 1 \in Nat /\ c \in Channels
    BY DEF TypeOK, Channels
  <2>2. Append(queue[c], User(c, sent[c] + 1)) \in Seq(UserMessages)
    BY <2>1, UserType, AppendProperties DEF TypeOK
  <2> QED
    BY <1>4, <2>1, <2>2 DEF Enqueue, TypeOK, RecordedDone
<1>5. ASSUME NEW cs \in SUBSET Queues, Clear(cs)
      PROVE  TypeInv'
  BY <1>5 DEF Clear, TypeOK, RecordedDone
<1>6. ASSUME NEW c \in Queues, NEW m \in QueueModes, SetMode(c, m)
      PROVE  TypeInv'
  BY <1>6, ConstantsAssumption DEF SetMode, TypeOK, RecordedDone
<1>7. CASE Abort
  BY <1>7 DEF Abort, TypeOK, RecordedDone
<1>8. CASE Reset
  BY <1>8 DEF Reset, TypeOK, RecordedDone
<1>9. CASE DropFailure
  <2>1. messages' \in Seq(Messages)
    BY <1>9, LenProperties, SubSeqProperties DEF DropFailure, TypeOK
  <2> QED
    BY <1>9, <2>1 DEF DropFailure, TypeOK, RecordedDone
<1> QED
  BY <1>1, <1>2, <1>3, <1>4, <1>5, <1>6, <1>7, <1>8, <1>9 DEF Caller

(* The steps of the loop outside a batch. *)
LEMMA RunType ==
  ASSUME TypeInv,
         \/ Announce \/ InitialPoll \/ Inject \/ Request
         \/ \E s \in Stops, k \in 0..MaxCalls : Respond(s, k)
         \/ PollSteering \/ PollFollowUp \/ FailRun \/ FinishRun
  PROVE  TypeInv'
<1> USE DEF TypeInv, queueVars, copies, batchVars, counters
<1>0. pending # <<>> => /\ <<Head(pending)>> \in Seq(Messages)
                        /\ Tail(pending) \in Seq(UserMessages)
  <2> SUFFICES ASSUME pending # <<>>
               PROVE  /\ <<Head(pending)>> \in Seq(Messages)
                      /\ Tail(pending) \in Seq(UserMessages)
    OBVIOUS
  <2>1. Head(pending) \in UserMessages /\ Tail(pending) \in Seq(UserMessages)
    BY HeadTailProperties DEF TypeOK
  <2> QED
    BY <2>1 DEF Messages
<1>1. CASE Announce
  BY <1>0, <1>1, EmitType DEF Announce, TypeOK, RecordedDone
<1>2. CASE InitialPoll
  <2>1. "steering" \in Queues
    BY DEF Queues
  <2>2. queue' \in [Queues -> Seq(UserMessages)] /\ pending' \in Seq(UserMessages)
    BY <1>2, <2>1, DrainType DEF InitialPoll, Drain, TypeOK
  <2> QED
    BY <1>2, <2>2 DEF InitialPoll, TypeOK, RecordedDone, PCs
<1>3. CASE Inject
  BY <1>0, <1>3, EmitType, KeepType DEF Inject, TypeOK, RecordedDone
<1>4. CASE Request
  BY <1>4 DEF Request, TypeOK, RecordedDone, PCs
<1>5. ASSUME NEW s \in Stops, NEW k \in 0..MaxCalls, Respond(s, k)
      PROVE  TypeInv'
  <2> DEFINE m == Assistant(turns + 1, s, k)
  <2>0. k \in Nat /\ turns + 1 \in Nat /\ toolTurns + 1 \in Nat
    BY ConstantsAssumption DEF TypeOK
  <2>1. <<m>> \in Seq(Messages)
    BY <2>0, AssistantType
  <2>2. /\ messages' \in Seq(Messages) /\ log' \in Seq(Messages)
        /\ context' \in Seq(Messages) /\ newMessages' \in Seq(Messages)
    BY <1>5, <2>1, EmitType, KeepType DEF Respond
  <2>3. /\ mode' \in {"sequential", "parallel", "truncated"}
        /\ pc' \in PCs /\ more' \in BOOLEAN
    BY <1>5, ConstantsAssumption DEF Respond, TypeOK, PCs
  <2>4. calls' \in Seq(Statuses) /\ recorded' \in Nat /\ RecordedDone'
    <3>1. CASE UNCHANGED batchVars
      BY <3>1 DEF TypeOK, RecordedDone
    <3>2. CASE calls' = [i \in 1..k |-> "waiting"] /\ recorded' = 0
      <4>1. calls' \in [1..k -> Statuses]
        BY <3>2 DEF Statuses
      <4>2. calls' \in Seq(Statuses)
        BY <2>0, <4>1, FunctionIsSeq
      <4>3. Len(calls') \in Nat
        BY <4>2, LenProperties
      <4> QED
        BY <3>2, <4>2, <4>3 DEF RecordedDone
    <3> QED
      BY <1>5, <3>1, <3>2 DEF Respond
  <2> QED
    BY <1>5, <2>0, <2>2, <2>3, <2>4 DEF Respond, TypeOK
<1>6. CASE PollSteering \/ PollFollowUp
  <2>1. \A c \in Queues : Drain(c) =>
          queue' \in [Queues -> Seq(UserMessages)] /\ pending' \in Seq(UserMessages)
    BY DrainType DEF Drain, TypeOK
  <2>2. queue' \in [Queues -> Seq(UserMessages)] /\ pending' \in Seq(UserMessages)
    BY <1>6, <2>1 DEF PollSteering, PollFollowUp, Queues
  <2> QED
    BY <1>6, <2>2 DEF PollSteering, PollFollowUp, TypeOK, RecordedDone, PCs
<1>7. CASE FailRun
  <2>1. turns + 1 \in Nat
    BY DEF TypeOK
  <2>2. \A s \in {"aborted", "error"} : <<Assistant(turns + 1, s, 0)>> \in Seq(Messages)
    BY <2>1, AssistantType DEF Stops
  <2>3. messages' \in Seq(Messages) /\ log' \in Seq(Messages)
    BY <1>7, <2>2, EmitType DEF FailRun
  <2> QED
    BY <1>7, <2>1, <2>3 DEF FailRun, TypeOK, RecordedDone, PCs
<1>8. CASE FinishRun
  BY <1>8 DEF FinishRun, TypeOK, RecordedDone, PCs
<1> QED
  BY <1>1, <1>2, <1>3, <1>4, <1>5, <1>6, <1>7, <1>8

(* Changing the state of a call that is not decided leaves recorded alone. *)
LEMMA CallUpdate ==
  ASSUME TypeInv, NEW i \in DOMAIN calls, calls[i] \notin Outcomes,
         NEW st \in Statuses, calls' = [calls EXCEPT ![i] = st], recorded' = recorded
  PROVE  calls' \in Seq(Statuses) /\ recorded' \in Nat /\ RecordedDone'
<1>1. i \in 1..Len(calls) /\ calls \in Seq(Statuses) /\ recorded \in Nat
  BY LenProperties DEF TypeInv, TypeOK
<1>2. /\ calls' \in Seq(Statuses) /\ Len(calls') = Len(calls)
      /\ \A j \in 1..Len(calls) : calls'[j] = IF j = i THEN st ELSE calls[j]
  BY <1>1, ExceptSeq
<1>3. \A j \in 1..recorded : j # i
  BY <1>1 DEF TypeInv, RecordedDone
<1>4. Len(calls) \in Nat
  BY <1>1, LenProperties
<1> QED
  BY <1>1, <1>2, <1>3, <1>4 DEF TypeInv, RecordedDone

(* The steps of a batch. *)
LEMMA ToolsType ==
  ASSUME TypeInv,
         \/ \E i \in DOMAIN calls : StartCall(i) \/ RefuseCall(i) \/ AdmitCall(i)
         \/ LaunchCalls
         \/ \E i \in DOMAIN calls, o \in {"ok", "terminate"} : CompleteCall(i, o)
         \/ RecordResult \/ EndBatch
  PROVE  TypeInv'
<1> USE DEF TypeInv, queueVars, copies, counters
<1>0. DOMAIN calls = 1..Len(calls) /\ Len(calls) \in Nat
  BY LenProperties DEF TypeOK
<1>1. ASSUME NEW i \in DOMAIN calls, StartCall(i) \/ RefuseCall(i) \/ AdmitCall(i)
      PROVE  TypeInv'
  <2>1. \E st \in Statuses : calls' = [calls EXCEPT ![i] = st]
    BY <1>1 DEF StartCall, RefuseCall, AdmitCall, Statuses, Outcomes
  <2>2. calls[i] \notin Outcomes /\ recorded' = recorded
    BY <1>1 DEF StartCall, RefuseCall, AdmitCall, Outcomes
  <2>3. calls' \in Seq(Statuses) /\ recorded' \in Nat /\ RecordedDone'
    BY <2>1, <2>2, CallUpdate
  <2>4. pendingCalls' \subseteq Nat \X Nat
    BY <1>0, <1>1 DEF StartCall, RefuseCall, EndExecution, AdmitCall, TypeOK
  <2> QED
    BY <1>1, <2>3, <2>4 DEF StartCall, RefuseCall, AdmitCall, TypeOK
<1>2. CASE LaunchCalls
  <2>1. calls' = [j \in 1..Len(calls) |-> IF calls[j] = "ready" THEN "executing" ELSE calls[j]]
    BY <1>0, <1>2 DEF LaunchCalls
  <2>2. calls' \in [1..Len(calls) -> Statuses]
    <3>1. \A j \in 1..Len(calls) : calls[j] \in Statuses
      BY ElementOfSeq DEF TypeOK
    <3> QED
      BY <2>1, <3>1 DEF Statuses
  <2>3. calls' \in Seq(Statuses) /\ Len(calls') = Len(calls)
    BY <1>0, <2>2, FunctionIsSeq, LenProperties
  <2>4. RecordedDone'
    BY <1>0, <1>2, <2>1, <2>3 DEF LaunchCalls, RecordedDone, TypeOK, Outcomes
  <2> QED
    BY <1>2, <2>3, <2>4 DEF LaunchCalls, TypeOK
<1>3. ASSUME NEW i \in DOMAIN calls, NEW o \in {"ok", "terminate"}, CompleteCall(i, o)
      PROVE  TypeInv'
  <2>1. o \in Statuses /\ calls[i] \notin Outcomes
    BY <1>3 DEF CompleteCall, Statuses, Outcomes
  <2>2. calls' \in Seq(Statuses) /\ recorded' \in Nat /\ RecordedDone'
    BY <1>3, <2>1, CallUpdate DEF CompleteCall
  <2> QED
    BY <1>3, <2>2 DEF CompleteCall, EndExecution, TypeOK
<1>4. CASE RecordResult
  <2> DEFINE i == recorded + 1
  <2>1. i \in Nat /\ i \in DOMAIN calls /\ calls[i] \in Outcomes /\ turns \in Nat
    BY <1>4 DEF RecordResult, InState, TypeOK
  <2>2. <<Result(turns, i, calls[i])>> \in Seq(Messages)
    BY <2>1, ResultType
  <2>3. messages' \in Seq(Messages) /\ log' \in Seq(Messages)
    BY <1>4, <2>2, EmitType DEF RecordResult
  <2>4. RecordedDone'
    BY <1>0, <1>4, <2>1 DEF RecordResult, RecordedDone, TypeOK
  <2> QED
    BY <1>4, <2>1, <2>3, <2>4 DEF RecordResult, TypeOK
<1>5. CASE EndBatch
  <2> DEFINE rs == [i \in 1..recorded |-> Result(turns, i, calls[i])]
  <2>1. \A i \in 1..recorded : Result(turns, i, calls[i]) \in Messages
    BY ResultType DEF RecordedDone, TypeOK
  <2>2. rs \in Seq(Messages)
    <3>1. rs \in [1..recorded -> Messages]
      BY <2>1
    <3> QED
      BY <3>1, FunctionIsSeq DEF TypeOK
  <2>3. context' \in Seq(Messages) /\ newMessages' \in Seq(Messages)
    BY <1>5, <2>2, KeepType DEF EndBatch, BatchDone
  <2>4. calls' \in Seq(Statuses) /\ recorded' \in Nat /\ RecordedDone'
    BY <1>5, EmptySeq DEF EndBatch, BatchDone, RecordedDone
  <2> QED
    BY <1>5, <2>3, <2>4 DEF EndBatch, BatchDone, TypeOK, PCs
<1> QED
  BY <1>1, <1>2, <1>3, <1>4, <1>5

(* Exceptions, and the end of a run that failed. *)
LEMMA FaultsType ==
  ASSUME TypeInv, Faults
  PROVE  TypeInv'
<1> USE DEF TypeInv, queueVars, copies, counters
<1>1. ASSUME Abandon, orphans' \subseteq Nat \X Nat
      PROVE  TypeInv'
  <2>1. /\ calls' \in Seq(Statuses) /\ recorded' \in Nat /\ RecordedDone'
        /\ pending' \in Seq(UserMessages)
    BY <1>1, EmptySeq DEF Abandon, RecordedDone
  <2> QED
    BY <1>1, <2>1 DEF Abandon, TypeOK, PCs, Failing
<1>2. CASE LoopFault
  BY <1>1, <1>2 DEF LoopFault, TypeOK
<1>3. CASE ListenerFault
  <2>1. \A j \in DOMAIN calls : <<turns, j>> \in Nat \X Nat
    BY LenProperties DEF TypeOK
  <2>2. orphans' \subseteq Nat \X Nat
    BY <1>3, <2>1 DEF ListenerFault, InState, TypeOK
  <2> QED
    BY <1>1, <1>3, <2>2 DEF ListenerFault
<1>4. ASSUME NEW o \in orphans, OrphanEnds(o)
      PROVE  TypeInv'
  BY <1>4 DEF OrphanEnds, TypeOK, RecordedDone, batchVars
<1> QED
  BY <1>2, <1>3, <1>4 DEF Faults

(* Every step keeps the types. *)
LEMMA TypeStep == TypeInv /\ [Next]_vars => TypeInv'
<1> SUFFICES ASSUME TypeInv, [Next]_vars PROVE TypeInv'
  OBVIOUS
<1>1. CASE Next
  BY <1>1, CallerType, RunType, ToolsType, FaultsType DEF Next, Loop
<1>2. CASE UNCHANGED vars
  BY <1>2 DEF vars, queueVars, copies, batchVars, counters, TypeInv, TypeOK, RecordedDone
<1> QED
  BY <1>1, <1>2

(* Every variable keeps its type, whatever the bounds: the code's lists hold *)
(* messages only, and a tool call is always in one of its states.            *)
THEOREM TypeCorrect == Spec => []TypeOK
<1>1. Spec => []TypeInv
  BY TypeInit, TypeStep, PTL DEF Spec
<1> QED
  BY <1>1, PTL DEF TypeInv
=============================================================================
