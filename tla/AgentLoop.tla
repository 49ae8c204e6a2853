------------------------------ MODULE AgentLoop ------------------------------
(***************************************************************************)
(* The agent run loop of packages/agent: class Agent (agent.ts), which     *)
(* owns the transcript, the steering and follow-up queues and the active   *)
(* run, and runLoop with its tool batches (agent-loop.ts).                 *)
(*                                                                         *)
(* The code is a single JavaScript thread: a step of this module is the    *)
(* code between two awaits at which something else can run, and every      *)
(* public method of Agent may be called between two steps.  Awaiting the   *)
(* listeners of an event is such a point.                                  *)
(*                                                                         *)
(* A user message is its channel and its number in that channel; an        *)
(* assistant message is its turn, its stop reason and how many tool calls  *)
(* it carries; a tool result is the call it answers and how the call went. *)
(***************************************************************************)
EXTENDS Integers, Sequences, FiniteSets

CONSTANTS
  MaxSent,        \* bound: messages the caller sends on one channel
  MaxPromptBatch, \* bound: messages one prompt() call carries
  MaxRuns,        \* bound: runs started
  MaxCalls,       \* bound: tool calls of one assistant message
  MaxToolTurns,   \* bound: assistant messages that carry tool calls
  MaxResets,      \* bound: calls of reset()
  QueueModes,     \* drain modes the caller sets: subset of AllQueueModes
  BatchModes,     \* how a batch runs: subset of {"sequential", "parallel"}
  LoopFaults,     \* may a configured callback or the stream function throw
  ListenerFaults  \* may an event listener throw

Queues == {"steering", "followUp"}
Channels == Queues \cup {"prompt"}
AllQueueModes == {"all", "one-at-a-time"}

ASSUME ConstantsAssumption ==
  /\ MaxSent \in [Channels -> Nat]
  /\ {MaxPromptBatch, MaxRuns, MaxCalls, MaxToolTurns, MaxResets} \subseteq Nat
  /\ QueueModes \subseteq AllQueueModes /\ QueueModes # {}
  /\ BatchModes \subseteq {"sequential", "parallel"} /\ BatchModes # {}
  /\ LoopFaults \in BOOLEAN /\ ListenerFaults \in BOOLEAN

VARIABLES
  pc,           \* where the active run is; "idle" when activeRun is undefined
  aborted,      \* activeRun.abortController.signal.aborted
  queue,        \* the messages of steeringQueue and followUpQueue
  qmode,        \* the mode of each queue
  pending,      \* prompts still to announce, then runLoop's pendingMessages
  skipPoll,     \* skipInitialSteeringPoll of createLoopConfig
  messages,     \* _state.messages, the transcript
  context,      \* currentContext.messages, what the next request sends
  newMessages,  \* newMessages, what agent_end reports
  more,         \* hasMoreToolCalls
  calls,        \* the state of each tool call of the current batch
  mode,         \* how the current batch runs
  recorded,     \* how many results of the batch have been emitted
  pendingCalls, \* _state.pendingToolCalls
  orphans,      \* tools still executing for a batch the loop has abandoned
  log,          \* every message_end event: what listeners see and persist
  runStart,     \* length of log when the active run began
  sent,         \* messages sent so far, by channel
  turns,        \* assistant responses so far; names the calls of a batch
  toolTurns,    \* responses that carried tool calls
  runs,         \* runs started
  resets        \* calls of reset()

queueVars == <<queue, qmode, sent>>
copies == <<messages, context, newMessages, log>>
batchVars == <<calls, mode, recorded>>
counters == <<turns, toolTurns, runs, resets>>
vars == <<pc, aborted, queueVars, pending, skipPoll, copies, more, batchVars,
          pendingCalls, orphans, runStart, counters>>

-----------------------------------------------------------------------------
(* Messages *)

Stops == {"stop", "length", "error", "aborted"}
Outcomes == {"refused", "ok", "terminate"}
User(c, n) == [role |-> "user", chan |-> c, n |-> n]
Assistant(t, s, k) == [role |-> "assistant", turn |-> t, stop |-> s, calls |-> k]

(* Mutant: a tool result does not say how its call went. *)
ResultUnmarked(t, i, o) == [role |-> "toolResult", turn |-> t, call |-> i]
Result(t, i, o) == [role |-> "toolResult", turn |-> t, call |-> i, out |-> o]

UserMessages == [role : {"user"}, chan : Channels, n : Nat]
AssistantMessages == [role : {"assistant"}, turn : Nat, stop : Stops, calls : Nat]
ResultMessages == [role : {"toolResult"}, turn : Nat, call : Nat, out : Outcomes]
Messages == UserMessages \cup AssistantMessages \cup ResultMessages

Failed(m) == m.role = "assistant" /\ m.stop \in {"error", "aborted"}
LastIsAssistant(s) == s # <<>> /\ s[Len(s)].role = "assistant"

(* Emitting message_end: processEvents appends to the transcript, then the *)
(* listeners see the message.                                              *)
Emit(ms) == messages' = messages \o ms /\ log' = log \o ms

(* Mutant: what is added to the context is not reported as new. *)
KeepUnreported(ms) == context' = context \o ms /\ UNCHANGED newMessages

(* The loop's own two copies. *)
Keep(ms) == context' = context \o ms /\ newMessages' = newMessages \o ms

Active == pc # "idle"
Failing == {"failing", "cancelled"}

-----------------------------------------------------------------------------
(* The queues: PendingMessageQueue *)

DrainsAll(c) == qmode[c] = "all" \/ queue[c] = <<>>
Drained(c) == IF DrainsAll(c) THEN queue[c] ELSE <<Head(queue[c])>>

(* Mutant: drain() hands the messages out and keeps them. *)
LeftBehind(c) == queue[c]
(* Mutant: "one-at-a-time" empties the queue as "all" does. *)
LeftNothing(c) == <<>>
Left(c) == IF DrainsAll(c) THEN <<>> ELSE Tail(queue[c])
Drain(c) == queue' = [queue EXCEPT ![c] = Left(c)] /\ pending' = Drained(c)

(* steer() and followUp() only enqueue: a run need not be active. *)
Enqueue(c) ==
  /\ sent[c] < MaxSent[c]
  /\ sent' = [sent EXCEPT ![c] = @ + 1]
  /\ queue' = [queue EXCEPT ![c] = Append(@, User(c, sent[c] + 1))]
  /\ UNCHANGED <<pc, aborted, qmode, pending, skipPoll, copies, more, batchVars,
                 pendingCalls, orphans, runStart, counters>>

(* clearSteeringQueue(), clearFollowUpQueue(), clearAllQueues() *)
Clear(cs) ==
  /\ \E c \in cs : queue[c] # <<>>
  /\ queue' = [c \in Queues |-> IF c \in cs THEN <<>> ELSE queue[c]]
  /\ UNCHANGED <<pc, aborted, qmode, sent, pending, skipPoll, copies, more,
                 batchVars, pendingCalls, orphans, runStart, counters>>

SetMode(c, m) ==
  /\ qmode[c] # m
  /\ qmode' = [qmode EXCEPT ![c] = m]
  /\ UNCHANGED <<pc, aborted, queue, sent, pending, skipPoll, copies, more,
                 batchVars, pendingCalls, orphans, runStart, counters>>

-----------------------------------------------------------------------------
(* Starting and stopping a run *)

(* runWithLifecycle, with the snapshot of the transcript as its context. *)
BeginRun(prompts) ==
  /\ ~Active /\ runs < MaxRuns
  /\ runs' = runs + 1
  /\ aborted' = FALSE
  /\ context' = messages \o prompts
  /\ newMessages' = prompts
  /\ runStart' = Len(log)
  /\ pc' = "announce"
  /\ UNCHANGED <<qmode, messages, log, more, batchVars, pendingCalls, orphans,
                 turns, toolTurns, resets>>

(* prompt() with one message or an array of them. *)
Prompt(k) ==
  LET ms == [i \in 1..k |-> User("prompt", sent["prompt"] + i)] IN
  /\ sent["prompt"] + k <= MaxSent["prompt"]
  /\ sent' = [sent EXCEPT !["prompt"] = @ + k]
  /\ pending' = ms
  /\ skipPoll' = FALSE
  /\ BeginRun(ms)
  /\ UNCHANGED queue

(* continue() after an assistant message runs what is queued, steering first. *)
ContinueQueued(c) ==
  /\ LastIsAssistant(messages)
  /\ Drained(c) # <<>>
  /\ c = "followUp" => queue["steering"] = <<>>
  /\ Drain(c)
  /\ skipPoll' = (c = "steering")
  /\ BeginRun(Drained(c))
  /\ UNCHANGED sent

(* continue() after a user message or a tool result: runContinuation. *)
ContinueTranscript ==
  /\ messages # <<>> /\ ~LastIsAssistant(messages)
  /\ pending' = <<>>
  /\ skipPoll' = FALSE
  /\ BeginRun(<<>>)
  /\ UNCHANGED <<queue, sent>>

Abort ==
  /\ Active /\ ~aborted
  /\ aborted' = TRUE
  /\ UNCHANGED <<pc, queueVars, pending, skipPoll, copies, more, batchVars,
                 pendingCalls, orphans, runStart, counters>>

(* reset() does not look at activeRun. *)
Reset ==
  /\ resets < MaxResets
  /\ resets' = resets + 1
  /\ messages' = <<>>
  /\ pendingCalls' = {}
  /\ queue' = [c \in Queues |-> <<>>]
  /\ UNCHANGED <<pc, aborted, qmode, sent, pending, skipPoll, context,
                 newMessages, log, more, batchVars, orphans, runStart, turns,
                 toolTurns, runs>>

(* AgentSession._prepareRetry: the failed response leaves the transcript (not *)
(* the session log) before continue() is called again.                        *)
DropFailure ==
  /\ ~Active
  /\ LastIsAssistant(messages) /\ messages[Len(messages)].stop = "error"
  /\ messages' = SubSeq(messages, 1, Len(messages) - 1)
  /\ UNCHANGED <<pc, aborted, queueVars, pending, skipPoll, context, newMessages,
                 log, more, batchVars, pendingCalls, orphans, runStart, counters>>

-----------------------------------------------------------------------------
(* runAgentLoop and runLoop *)

(* The prompts are in the context already: announcing only emits them. *)
Announce ==
  /\ pc = "announce" /\ pending # <<>>
  /\ Emit(<<Head(pending)>>)
  /\ pending' = Tail(pending)
  /\ UNCHANGED <<pc, aborted, queueVars, skipPoll, context, newMessages, more,
                 batchVars, pendingCalls, orphans, runStart, counters>>

(* The poll before the loop, which continue() suppresses when the prompts *)
(* are themselves drained steering messages.                              *)
InitialPoll ==
  /\ pc = "announce" /\ pending = <<>>
  /\ IF skipPoll THEN UNCHANGED <<queue, pending>> ELSE Drain("steering")
  /\ skipPoll' = FALSE
  /\ pc' = "inject"
  /\ UNCHANGED <<aborted, qmode, sent, copies, more, batchVars, pendingCalls,
                 orphans, runStart, counters>>

Inject ==
  /\ pc = "inject" /\ pending # <<>>
  /\ Emit(<<Head(pending)>>)
  /\ Keep(<<Head(pending)>>)
  /\ pending' = Tail(pending)
  /\ UNCHANGED <<pc, aborted, queueVars, skipPoll, more, batchVars, pendingCalls,
                 orphans, runStart, counters>>

(* streamAssistantResponse calls the stream function; "doomed" is a request *)
(* made with a signal that is already aborted.                              *)
Request ==
  /\ pc = "inject" /\ pending = <<>>
  /\ pc' = IF aborted THEN "doomed" ELSE "stream"
  /\ UNCHANGED <<aborted, queueVars, pending, skipPoll, copies, more, batchVars,
                 pendingCalls, orphans, runStart, counters>>

(* What a provider may answer: "aborted" needs the signal, and a request    *)
(* made after the abort cannot succeed.                                     *)
Answers == IF pc = "doomed" THEN {"error", "aborted"}
           ELSE IF aborted THEN Stops ELSE Stops \ {"aborted"}

(* Mutant: a failed response ends the turn, not the run. *)
RespondOn(s, k) ==
  LET m == Assistant(turns + 1, s, k) IN
  /\ pc \in {"stream", "doomed"} /\ s \in Answers
  /\ k > 0 => toolTurns < MaxToolTurns
  /\ turns' = turns + 1
  /\ toolTurns' = IF k > 0 THEN toolTurns + 1 ELSE toolTurns
  /\ Emit(<<m>>) /\ Keep(<<m>>)
  /\ more' = FALSE
  /\ pc' = "turnEnd"
  /\ UNCHANGED <<aborted, queueVars, pending, skipPoll, batchVars, pendingCalls,
                 orphans, runStart, runs, resets>>

(* A failed response ends the run before its tool calls or any queue are *)
(* looked at; a truncated one has its calls failed, never executed.      *)
Respond(s, k) ==
  LET m == Assistant(turns + 1, s, k) IN
  /\ pc \in {"stream", "doomed"} /\ s \in Answers
  /\ k > 0 => toolTurns < MaxToolTurns
  /\ turns' = turns + 1
  /\ toolTurns' = IF k > 0 THEN toolTurns + 1 ELSE toolTurns
  /\ Emit(<<m>>) /\ Keep(<<m>>)
  /\ \/ /\ Failed(m)
        /\ pc' = "ending"
        /\ UNCHANGED <<more, batchVars>>
     \/ /\ ~Failed(m) /\ k = 0
        /\ more' = FALSE
        /\ pc' = "turnEnd"
        /\ UNCHANGED batchVars
     \/ /\ ~Failed(m) /\ k > 0
        /\ mode' \in IF s = "length" THEN {"truncated"} ELSE BatchModes
        /\ calls' = [i \in 1..k |-> "waiting"]
        /\ recorded' = 0
        /\ pc' = "tools"
        /\ UNCHANGED more
  /\ UNCHANGED <<aborted, queueVars, pending, skipPoll, pendingCalls, orphans,
                 runStart, runs, resets>>

(* Mutant: the inner loop goes on for messages only. *)
GoesOnForMessages == Drained("steering") # <<>>

(* The inner loop goes on: there are tool results to answer, or messages. *)
GoesOn == more \/ Drained("steering") # <<>>

(* turn_end listeners and prepareNextTurn have been awaited. *)
PollSteering ==
  /\ pc = "turnEnd"
  /\ Drain("steering")
  /\ pc' = IF GoesOn THEN "inject" ELSE "pollFollowUp"
  /\ UNCHANGED <<aborted, qmode, sent, skipPoll, copies, more, batchVars,
                 pendingCalls, orphans, runStart, counters>>

PollFollowUp ==
  /\ pc = "pollFollowUp"
  /\ Drain("followUp")
  /\ pc' = IF Drained("followUp") # <<>> THEN "inject" ELSE "ending"
  /\ UNCHANGED <<aborted, qmode, sent, skipPoll, copies, more, batchVars,
                 pendingCalls, orphans, runStart, counters>>

(* finishRun, after the agent_end listeners. *)
FinishRun ==
  /\ pc \in {"ending", "failed"} \/ (ListenerFaults /\ pc \in Failing)
  /\ pc' = "idle"
  /\ pendingCalls' = {}
  /\ UNCHANGED <<aborted, queueVars, pending, skipPoll, copies, more, batchVars,
                 orphans, runStart, counters>>

-----------------------------------------------------------------------------
(* Tool batches: executeToolCalls and its helpers *)

Statuses == {"waiting", "preparing", "ready", "executing"} \cup Outcomes
InState(ss) == {i \in DOMAIN calls : calls[i] \in ss}
Open == {"preparing", "ready", "executing"}

(* Every call before i is out of the way of the call loop. *)
EarlierAreDone(i) ==
  IF mode = "parallel"
  THEN \A j \in 1..(i-1) : calls[j] \notin {"waiting", "preparing"}
  ELSE recorded = i - 1

(* Mutant: the call loop does not stop on an abort. *)
LoopOverAll == InState({"waiting"}) = {}

(* The call loop is over: all calls were looked at, or the abort check at   *)
(* the end of an iteration stopped it.  A truncated batch has no such check. *)
LoopOver ==
  \/ InState({"waiting"}) = {}
  \/ aborted /\ mode # "truncated" /\ calls[1] # "waiting"

(* tool_execution_start; the first call is started even when aborted. *)
StartCall(i) ==
  /\ pc = "tools" /\ calls[i] = "waiting"
  /\ EarlierAreDone(i)
  /\ i = 1 \/ mode = "truncated" \/ ~aborted
  /\ calls' = [calls EXCEPT ![i] = "preparing"]
  /\ pendingCalls' = pendingCalls \cup {<<turns, i>>}
  /\ UNCHANGED <<pc, aborted, queueVars, pending, skipPoll, copies, more, mode,
                 recorded, orphans, runStart, counters>>

(* Mutant: tool_execution_end does not reach the state. *)
EndUnseen(i) == UNCHANGED pendingCalls

(* processEvents on tool_execution_end. *)
EndExecution(i) == pendingCalls' = pendingCalls \ {<<turns, i>>}

(* prepareToolCall answers at once (unknown tool, bad arguments, blocked or *)
(* aborted), or the message was truncated; then tool_execution_end.         *)
RefuseCall(i) ==
  /\ pc = "tools" /\ calls[i] = "preparing"
  /\ calls' = [calls EXCEPT ![i] = "refused"]
  /\ EndExecution(i)
  /\ UNCHANGED <<pc, aborted, queueVars, pending, skipPoll, copies, more, mode,
                 recorded, orphans, runStart, counters>>

(* Mutants: a check before the tool runs is missing. *)
AdmitsTruncated == ~aborted
AdmitsAborted == mode # "truncated"
Admits == mode # "truncated" /\ ~aborted

(* prepareToolCall lets the call through: a sequential batch executes it *)
(* now, a parallel one after the whole batch was prepared.               *)
AdmitCall(i) ==
  /\ pc = "tools" /\ calls[i] = "preparing"
  /\ Admits
  /\ calls' = [calls EXCEPT ![i] = IF mode = "parallel" THEN "ready" ELSE "executing"]
  /\ UNCHANGED <<pc, aborted, queueVars, pending, skipPoll, copies, more, mode,
                 recorded, pendingCalls, orphans, runStart, counters>>

(* Promise.all calls every prepared entry: the tools start together, and *)
(* the signal is not looked at again.                                    *)
LaunchCalls ==
  /\ pc = "tools" /\ mode = "parallel"
  /\ LoopOver /\ InState({"preparing"}) = {} /\ InState({"ready"}) # {}
  /\ calls' = [i \in DOMAIN calls |-> IF calls[i] = "ready" THEN "executing" ELSE calls[i]]
  /\ UNCHANGED <<pc, aborted, queueVars, pending, skipPoll, copies, more, mode,
                 recorded, pendingCalls, orphans, runStart, counters>>

(* A tool returns or throws, afterToolCall runs, tool_execution_end is emitted. *)
CompleteCall(i, o) ==
  /\ pc = "tools" /\ calls[i] = "executing"
  /\ calls' = [calls EXCEPT ![i] = o]
  /\ EndExecution(i)
  /\ UNCHANGED <<pc, aborted, queueVars, pending, skipPoll, copies, more, mode,
                 recorded, orphans, runStart, counters>>

(* Mutant: results are emitted as the tools end. *)
RecordAsCompleted ==
  \E i \in InState(Outcomes) :
    /\ pc = "tools" /\ i > recorded
    /\ Emit(<<Result(turns, i, calls[i])>>)
    /\ recorded' = recorded + 1
    /\ UNCHANGED <<pc, aborted, queueVars, pending, skipPoll, context, newMessages,
                   more, calls, mode, pendingCalls, orphans, runStart, counters>>

(* emitToolResultMessage: a sequential batch emits each result as it comes, *)
(* a parallel one all of them, in call order, when the last tool is done.   *)
RecordResult ==
  LET i == recorded + 1 IN
  /\ pc = "tools" /\ i \in InState(Outcomes)
  /\ mode = "parallel" => LoopOver /\ InState(Open) = {}
  /\ Emit(<<Result(turns, i, calls[i])>>)
  /\ recorded' = i
  /\ UNCHANGED <<pc, aborted, queueVars, pending, skipPoll, context, newMessages,
                 more, calls, mode, pendingCalls, orphans, runStart, counters>>

(* Mutant: the batch does not wait for its results. *)
BatchCut == LoopOver

(* Every call that was looked at has its result. *)
BatchDone == LoopOver /\ InState(Open \cup Outcomes) = 1..recorded

(* The batch returns: its results reach the loop's copies, and the run    *)
(* goes on unless every call of the batch asked to terminate.             *)
EndBatch ==
  /\ pc = "tools"
  /\ BatchDone
  /\ Keep([i \in 1..recorded |-> Result(turns, i, calls[i])])
  /\ more' = (InState({"terminate"}) # 1..recorded)
  /\ pc' = "turnEnd"
  /\ calls' = <<>> /\ recorded' = 0
  /\ UNCHANGED <<aborted, queueVars, pending, skipPoll, messages, log, mode,
                 pendingCalls, orphans, runStart, counters>>

(* A tool of an abandoned batch ends; processEvents throws or reports a *)
(* call that is pending no more.                                        *)
OrphanEnds(o) ==
  /\ orphans' = orphans \ {o}
  /\ pendingCalls' = pendingCalls \ {o}
  /\ UNCHANGED <<pc, aborted, queueVars, pending, skipPoll, copies, more,
                 batchVars, runStart, counters>>

-----------------------------------------------------------------------------
(* Failures: the executor throws, handleRunFailure *)

Abandon ==
  /\ pc' = IF aborted THEN "cancelled" ELSE "failing"
  /\ pending' = <<>>
  /\ calls' = <<>> /\ recorded' = 0
  /\ UNCHANGED <<aborted, queueVars, skipPoll, copies, more, mode, pendingCalls,
                 runStart, counters>>

(* transformContext, convertToLlm, getApiKey, the stream function or *)
(* prepareNextTurn throws.                                           *)
LoopFault ==
  /\ LoopFaults /\ pc \in {"stream", "doomed", "turnEnd"}
  /\ Abandon
  /\ UNCHANGED orphans

(* A listener throws.  While tools execute, it is at an event of one of    *)
(* them, and Promise.all leaves the others running.                        *)
ListenerFault ==
  /\ ListenerFaults /\ pc \notin Failing \cup {"idle", "failed"}
  /\ Abandon
  /\ LET running == InState({"executing"}) IN
     \/ running = {} /\ UNCHANGED orphans
     \/ \E i \in running :
          orphans' = orphans \cup {<<turns, j>> : j \in running \ {i}}

(* The stop reason was chosen when the error was caught. *)
FailRun ==
  /\ pc \in Failing
  /\ Emit(<<Assistant(turns + 1, IF pc = "cancelled" THEN "aborted" ELSE "error", 0)>>)
  /\ turns' = turns + 1
  /\ pc' = "failed"
  /\ UNCHANGED <<aborted, queueVars, pending, skipPoll, context, newMessages,
                 more, batchVars, pendingCalls, orphans, runStart, toolTurns,
                 runs, resets>>

-----------------------------------------------------------------------------
Init ==
  /\ pc = "idle" /\ aborted = FALSE
  /\ queue = [c \in Queues |-> <<>>]
  /\ qmode \in [Queues -> QueueModes]
  /\ pending = <<>> /\ skipPoll = FALSE
  /\ messages = <<>> /\ context = <<>> /\ newMessages = <<>> /\ log = <<>>
  /\ more = FALSE
  /\ calls = <<>> /\ mode = "parallel" /\ recorded = 0
  /\ pendingCalls = {} /\ orphans = {}
  /\ runStart = 0
  /\ sent = [c \in Channels |-> 0]
  /\ turns = 0 /\ toolTurns = 0 /\ runs = 0 /\ resets = 0

(* What the owner of the Agent does. *)
Caller ==
  \/ \E k \in 1..MaxPromptBatch : Prompt(k)
  \/ \E c \in Queues : ContinueQueued(c)
  \/ ContinueTranscript
  \/ \E c \in Queues : Enqueue(c)
  \/ \E cs \in SUBSET Queues : Clear(cs)
  \/ \E c \in Queues, m \in QueueModes : SetMode(c, m)
  \/ Abort \/ Reset \/ DropFailure

(* What the run does by itself, the provider's answer and the tools included. *)
Loop ==
  \/ Announce \/ InitialPoll \/ Inject \/ Request
  \/ \E s \in Stops, k \in 0..MaxCalls : Respond(s, k)
  \/ \E i \in DOMAIN calls : StartCall(i) \/ RefuseCall(i) \/ AdmitCall(i)
  \/ LaunchCalls
  \/ \E i \in DOMAIN calls, o \in {"ok", "terminate"} : CompleteCall(i, o)
  \/ RecordResult \/ EndBatch
  \/ PollSteering \/ PollFollowUp
  \/ FailRun \/ FinishRun

Faults == LoopFault \/ ListenerFault \/ \E o \in orphans : OrphanEnds(o)

Next == Caller \/ Loop \/ Faults

Spec == Init /\ [][Next]_vars

(* A run is driven by the event loop: its next step is always taken.  That *)
(* includes the provider ending its stream and every tool returning.       *)
FairSpec == Spec /\ WF_vars(Loop)

-----------------------------------------------------------------------------
(* Properties *)

PCs == {"idle", "announce", "inject", "stream", "doomed", "tools", "turnEnd",
        "pollFollowUp", "ending", "failed"} \cup Failing

(* Every variable has its type. *)
TypeOK ==
  /\ pc \in PCs /\ aborted \in BOOLEAN /\ skipPoll \in BOOLEAN /\ more \in BOOLEAN
  /\ queue \in [Queues -> Seq(UserMessages)]
  /\ qmode \in [Queues -> AllQueueModes]
  /\ sent \in [Channels -> Nat]
  /\ pending \in Seq(UserMessages)
  /\ messages \in Seq(Messages) /\ context \in Seq(Messages)
  /\ newMessages \in Seq(Messages) /\ log \in Seq(Messages)
  /\ calls \in Seq(Statuses) /\ recorded \in Nat
  /\ mode \in {"sequential", "parallel", "truncated"}
  /\ pendingCalls \subseteq Nat \X Nat /\ orphans \subseteq Nat \X Nat
  /\ runStart \in Nat
  /\ turns \in Nat /\ toolTurns \in Nat /\ runs \in Nat /\ resets \in Nat

(* What the active run has emitted, in the order of its events. *)
RunLog == SubSeq(log, runStart + 1, Len(log))

(* Whatever the interleaving of callers, aborts and drains, the messages of *)
(* one channel come out in the order they were sent, none of them twice.    *)
DeliveredInOrder ==
  \A i, j \in DOMAIN log :
    /\ i < j
    /\ log[i].role = "user" /\ log[j].role = "user"
    /\ log[i].chan = log[j].chan
    => log[i].n < log[j].n

(* A tool result stands where the provider expects it: right behind its      *)
(* assistant message and the results of the calls before it, in call order,  *)
(* although the tools of a parallel batch end in any order.                   *)
ResultsInPlace ==
  \A k \in DOMAIN log : log[k].role = "toolResult" =>
    LET i == log[k].call IN
    /\ i < k /\ log[k - i].role = "assistant"
    /\ log[k - i].turn = log[k].turn /\ i <= log[k - i].calls
    /\ \A j \in 1..(i-1) : /\ log[k - j].role = "toolResult"
                           /\ log[k - j].call = i - j

(* A request that can reach the provider shows every tool call of the run  *)
(* answered: the batch was neither cut short nor overtaken by a message.   *)
CallsAnswered ==
  pc = "stream" =>
    \A k \in DOMAIN newMessages :
      newMessages[k].role = "assistant" =>
        \A i \in 1..newMessages[k].calls :
          /\ k + i \in DOMAIN newMessages
          /\ newMessages[k + i].role = "toolResult"
          /\ newMessages[k + i].turn = newMessages[k].turn
          /\ newMessages[k + i].call = i

(* The three lists the code keeps of one conversation agree whenever the   *)
(* loop hands one of them out: the request sends what listeners saw, and   *)
(* agent_end reports what this run added.                                  *)
CopiesAgree ==
  pc \in {"stream", "doomed", "turnEnd", "pollFollowUp", "ending"} =>
    /\ newMessages = RunLog
    /\ resets = 0 => context = messages

(* A run that failed is over: after an error or an abort no queued message, *)
(* no tool result and no further answer of the provider is part of it.      *)
FailureIsFinal ==
  \A i \in DOMAIN log : i > runStart /\ Failed(log[i]) =>
    \A j \in i..Len(log) : Failed(log[j]) /\ log[j].calls * (j - i) = 0

(* Calls of a response that was cut off or failed never run: their results, *)
(* if any, say so.                                                          *)
OnlyWholeResponsesRunTools ==
  \A i, k \in DOMAIN log :
    /\ log[i].role = "assistant" /\ log[i].stop # "stop"
    /\ log[k].role = "toolResult" /\ log[k].turn = log[i].turn
    => log[k].out = "refused" /\ log[i].stop = "length"

(* A follow-up waits until the agent would stop: it never comes between the *)
(* results of a batch that did not terminate and the answer to them.        *)
FollowUpWaits ==
  \A k \in DOMAIN log :
    /\ k > 1 /\ log[k].role = "user" /\ log[k].chan = "followUp"
    /\ log[k - 1].role = "toolResult"
    => \A j \in 1..log[k - 1].call : log[k - j].out = "terminate"

(* The tools a user interface shows as running are those that are: a call  *)
(* is pending from its start to its end and never outside a batch.         *)
PendingCallsExact ==
  resets = 0 /\ pc \notin Failing \cup {"failed", "ending"} =>
    pendingCalls = {<<turns, i>> : i \in InState(Open)}

(* An idle agent runs nothing. *)
IdleIsQuiet == ~Active => pendingCalls = {} /\ orphans = {}

(* After an abort no tool of a sequential batch begins to execute, and no *)
(* second request is made.                                                *)
AbortStartsNothing ==
  [][ aborted /\ Active =>
        /\ mode = "sequential" =>
             InState({"executing"})' \subseteq InState({"executing"})
        /\ pc = "doomed" => pc' \in {"doomed", "ending"} \cup Failing ]_vars

(* Every run comes to its end, aborted or not. *)
RunEnds == Active ~> ~Active
=============================================================================
